----------------------- MODULE KnowledgeIngestProofs -----------------------
(***************************************************************************)
(* Proofs about KnowledgeIngest for every set of files, syncs and workers.  *)
(*                                                                         *)
(* CursorCoversApplied speaks of the stored cursor. To be inductive it has *)
(* to say as much of every token a sync holds before it is stored: the     *)
(* changes before it are acted upon, or the sync still has them to do      *)
(* (SyncKnows), and nobody's position is ahead of the change log           *)
(* (LogOrdered).                                                           *)
(*                                                                         *)
(* QuietIndexIsFresh speaks of the index at rest. To be inductive it says   *)
(* where a file stands on the way (Orderly): at most one task, worker or    *)
(* removal is under way for it, and that one is on course.                 *)
(***************************************************************************)
EXTENDS KnowledgeIngest, FiniteSetTheorems, TLAPS

\* A worker that is not free runs a task, and holds a row once it upserted it.
WorkersHold ==
    \A w \in Workers :
        /\ worker[w].pc # "free" => worker[w].task # {}
        /\ worker[w].pc \notin {"free", "taken"} => worker[w].gen # 0

\* No position anyone holds is ahead of the change log.
LogOrdered ==
    /\ cursor <= log + 1
    /\ \A f \in Files : drive[f].ver <= log /\ applied[f] <= drive[f].ver
    /\ \A s \in Syncs : /\ sync[s].next <= log + 1
                        /\ \A e \in sync[s].todo : e.ver <= drive[e.file].ver

Acted(f) == applied[f] = drive[f].ver \/ f \in swallowed

SyncKnows(s) ==
    /\ sync[s].pc \in {"drain", "applying", "removing", "cascading"} =>
         \A f \in Files : 0 < drive[f].ver /\ drive[f].ver < sync[s].next =>
             Acted(f) \/ Seen(f) \in sync[s].todo
    /\ sync[s].pc = "listing" =>
         \A f \in Files : /\ 0 < drive[f].ver /\ drive[f].ver < sync[s].next
                          /\ ~drive[f].gone
                          => Acted(f) \/ f \in sync[s].list

IInv == /\ TypeOK
        /\ WorkersHold
        /\ LogOrdered
        /\ CursorCoversApplied
        /\ \A s \in Syncs : SyncKnows(s)
-----------------------------------------------------------------------------
(* A step of the system is one of these; every proof below splits on them.  *)

\* Next, unfolded into its actions with their parameters bound.
LEMMA NextCases ==
    ASSUME Next
    PROVE  \/ \E f \in Files, gone, empty \in BOOLEAN :
                  DriveChange(f, gone, empty)
           \/ \E s \in Syncs : StartIncremental(s)
           \/ \E s \in Syncs : \E last \in 0..log :
                  sync[s].next <= last + 1 /\ DrainPage(s, last)
           \/ \E s \in Syncs : \E e \in sync[s].todo : ApplyEdit(s, e)
           \/ \E s \in Syncs : \E e \in sync[s].todo : ApplyRemoval(s, e)
           \/ \E s \in Syncs : \E f \in sync[s].file : Cascade(s, f)
           \/ \E s \in Syncs : RemoveRow(s)
           \/ \E s \in Syncs : FinishIncremental(s)
           \/ \E s \in Syncs : StartFull(s)
           \/ \E s \in Syncs : GetStartToken(s)
           \/ \E s \in Syncs : \E f \in sync[s].list : ListFile(s, f)
           \/ \E s \in Syncs : FinishFull(s)
           \/ \E s \in Syncs : SyncDies(s)
           \/ \E w \in Workers : WorkerStep(w)
<1>1. CASE \E s \in Syncs : SyncStep(s)
  <2>1. PICK s \in Syncs : SyncStep(s)
    BY <1>1
  <2>2. QED
    BY <2>1, Zenon DEF SyncStep
<1>2. CASE ~ \E s \in Syncs : SyncStep(s)
  BY <1>2, Zenon DEF Next
<1>3. QED
  BY <1>1, <1>2

\* A running worker's task is a task.
LEMMA TaskTyped ==
    ASSUME TypeOK, WorkersHold, NEW w \in Workers, worker[w].pc # "free"
    PROVE  TaskOf(w) \in worker[w].task /\ TaskOf(w) \in Task /\ FileOf(w) \in Files
<1>1. worker[w].task # {} /\ worker[w].task \subseteq Task
  BY DEF WorkersHold, TypeOK, WorkerState
<1>2. TaskOf(w) \in worker[w].task
  BY <1>1 DEF TaskOf
<1>3. QED
  BY <1>1, <1>2 DEF FileOf, Task

\* An upsert leaves a row with a key, and moves no other row.
LEMMA UpsertTyped ==
    ASSUME TypeOK, NEW f \in Files, NEW ver \in Nat, Upsert(f, ver)
    PROVE  /\ doc' \in [Files -> Document \cup {NoDoc}]
           /\ gens' \in [Files -> Nat]
           /\ doc'[f].gen \in Nat \ {0}
           /\ doc[f] # NoDoc => doc'[f].gen = doc[f].gen
           /\ \A g \in Files \ {f} : doc'[g] = doc[g]
<1>0. doc[f] \in Document \cup {NoDoc} /\ gens[f] \in Nat
  BY DEF TypeOK
<1>1. Upserted(f, ver) \in Document
  BY <1>0 DEF Upserted, Document, Status
<1>2. doc[f] # NoDoc => Upserted(f, ver).gen = doc[f].gen
  BY DEF Upserted, TypeOK, Document
<1>3. QED
  BY <1>1, <1>2 DEF Upsert, TypeOK, Document

\* Workers index what they are given: they do not touch Drive, the syncs, the
\* cursor or the record of what was acted upon.
LEMMA WorkerFrame ==
    ASSUME NEW w \in Workers, WorkerStep(w)
    PROVE  UNCHANGED <<driveVars, cursor, sync, applied, swallowed>>
  BY DEF WorkerStep, Take, UpsertRow, Extract, MarkStatus, SaveExtracted,
         BeginReplace, CommitReplace, TaskDies, history

-----------------------------------------------------------------------------
(* Types.                                                                  *)

\* What a step of a worker writes has its type, and the worker still holds a
\* task and a row.
LEMMA WorkerTypes ==
    ASSUME TypeOK, WorkersHold, NEW w \in Workers, WorkerStep(w)
    PROVE  TypeOK' /\ WorkersHold'
<1> USE DEF WorkerState, FreeWorker, indexVars, history, driveVars
<1>1. CASE \E t \in queue : Take(w, t)
  <2>1. PICK t \in queue : Take(w, t)
    BY <1>1
  <2>2. t \in Task
    BY <2>1 DEF TypeOK
  <2>3. worker' = [worker EXCEPT ![w].pc = "taken", ![w].task = {t}]
    BY <2>1 DEF Take
  <2>4. worker' \in [Workers -> WorkerState]
    <3>1. PICK held \in WorkerState : held = worker[w]
      BY DEF TypeOK
    <3>2. PICK new \in WorkerState : new = [held EXCEPT !.pc = "taken", !.task = {t}]
      BY <2>2
    <3>3. worker' = [worker EXCEPT ![w] = new]
      BY <2>3, <3>1, <3>2
    <3>4. QED
      BY <3>3 DEF TypeOK
  <2>5. WorkersHold'
    BY <2>3 DEF TypeOK, WorkersHold
  <2>6. QED
    BY <2>1, <2>4, <2>5 DEF TypeOK, Take
<1>2. CASE UpsertRow(w)
  <2>1. worker[w].pc # "free"
    BY <1>2 DEF UpsertRow
  <2>2. FileOf(w) \in Files /\ TaskOf(w) \in Task
    BY <2>1, TaskTyped
  <2>3. TaskOf(w).ver \in Nat
    BY <2>2 DEF Task
  <2>4. /\ doc' \in [Files -> Document \cup {NoDoc}]
        /\ gens' \in [Files -> Nat]
        /\ doc'[FileOf(w)].gen \in Nat \ {0}
    BY <1>2, <2>2, <2>3, UpsertTyped DEF UpsertRow
  <2>5. PICK where \in {"upserted", "skipping"}, key \in Nat \ {0} :
           worker' = [worker EXCEPT ![w].pc = where, ![w].gen = key]
    BY <1>2, <2>4 DEF UpsertRow
  <2>6. worker' \in [Workers -> WorkerState]
    <3>1. PICK held \in WorkerState : held = worker[w]
      BY DEF TypeOK
    <3>2. [held EXCEPT !.pc = where, !.gen = key] \in WorkerState
      OBVIOUS
    <3>3. worker' = [worker EXCEPT ![w] = [held EXCEPT !.pc = where, !.gen = key]]
      BY <2>5, <3>1
    <3>4. QED
      BY <3>2, <3>3 DEF TypeOK
  <2>7. WorkersHold'
    BY <1>2, <2>5 DEF TypeOK, WorkersHold, UpsertRow
  <2>8. QED
    BY <1>2, <2>4, <2>6, <2>7 DEF TypeOK, UpsertRow
<1>3. CASE \E outcome \in {"extracted", "failing", "skipping"} : Extract(w, outcome)
  <2>1. PICK outcome \in {"extracted", "failing", "skipping"} : Extract(w, outcome)
    BY <1>3
  <2>2. FileOf(w) \in Files
    BY <2>1, TaskTyped DEF Extract
  <2>3. QED
    BY <2>1, <2>2, ZenonT(40) DEF TypeOK, WorkersHold, Extract
<1>4. CASE MarkStatus(w)
  <2>1. FileOf(w) \in Files
    BY <1>4, TaskTyped DEF MarkStatus
  <2>2. doc[FileOf(w)] \in Document
    BY <1>4, <2>1 DEF MarkStatus, HoldsRow, TypeOK, WorkersHold, NoDoc
  <2>3. doc' \in [Files -> Document \cup {NoDoc}]
    BY <1>4, <2>1, <2>2 DEF MarkStatus, TypeOK, Document, Status
  <2>4. QED
    BY <1>4, <2>3 DEF MarkStatus, Free, TypeOK, WorkersHold
<1>5. CASE SaveExtracted(w)
  <2>1. FileOf(w) \in Files /\ TaskOf(w) \in Task
    BY <1>5, TaskTyped DEF SaveExtracted
  <2>2. worker[w].gen \in Nat \ {0} /\ worker[w].text \in Nat /\ TaskOf(w).ver \in Nat
    BY <1>5, <2>1 DEF SaveExtracted, TypeOK, WorkersHold, Task
  <2>3. doc' \in [Files -> Document \cup {NoDoc}]
    BY <1>5, <2>1, <2>2 DEF SaveExtracted, TypeOK, Document, Status
  <2>4. QED
    BY <1>5, <2>3, ZenonT(40) DEF SaveExtracted, TypeOK, WorkersHold
<1>6. CASE BeginReplace(w)
  BY <1>6, ZenonT(40) DEF BeginReplace, TypeOK, WorkersHold
<1>7. CASE CommitReplace(w)
  <2>1. FileOf(w) \in Files /\ TaskOf(w) \in Task
    BY <1>7, TaskTyped DEF CommitReplace
  <2>2. doc[FileOf(w)] \in Document
    BY <1>7, <2>1 DEF CommitReplace, HoldsRow, TypeOK, WorkersHold, NoDoc
  <2>3. doc' \in [Files -> Document \cup {NoDoc}]
    BY <1>7, <2>1, <2>2 DEF CommitReplace, TypeOK, Document, Status
  <2>4. NewChunks(w) \in Chunks
    BY <1>7, <2>1 DEF CommitReplace, NewChunks, Chunks, TypeOK, WorkersHold
  <2>5. QED
    BY <1>7, <2>3, <2>4 DEF CommitReplace, Free, TypeOK, WorkersHold
<1>8. CASE TaskDies(w)
  <2>1. FileOf(w) \in Files
    BY <1>8, TaskTyped DEF TaskDies
  <2>2. QED
    BY <1>8, <2>1 DEF TaskDies, Free, TypeOK, WorkersHold
<1>9. QED
  BY <1>1, <1>2, <1>3, <1>4, <1>5, <1>6, <1>7, <1>8 DEF WorkerStep
\* What Drive reports of a file is a change.
LEMMA SeenTyped ==
    ASSUME TypeOK, NEW f \in Files
    PROVE  /\ Seen(f) \in Entry
           /\ Seen(f).file = f /\ Seen(f).ver = drive[f].ver
           /\ Seen(f).gone = drive[f].gone
  BY DEF TypeOK, Seen, Entry

\* Acting on a change keeps the types of the history.
LEMMA ActTyped ==
    ASSUME TypeOK, NEW e \in Entry, Act(e)
    PROVE  applied' \in [Files -> Nat] /\ swallowed' = swallowed
                                       /\ disturbed' \subseteq Files
                                       /\ orphaned' = orphaned
  BY DEF TypeOK, Act, Entry

\* A sync that is over holds nothing.
LEMMA SyncOverTyped == SyncOver \in SyncState
  BY DEF SyncOver, SyncState

\* The fields of a sync have the types of SyncState.
LEMMA SyncNextTyped ==
    ASSUME TypeOK, NEW s \in Syncs
    PROVE  /\ sync[s].next \in Nat
           /\ sync[s].todo \subseteq Entry
           /\ sync[s].list \subseteq Files
           /\ sync[s].file \subseteq Files
           /\ sync[s].gen \in Nat
           /\ sync[s].sees \subseteq Chunks
  BY DEF TypeOK, SyncState

\* What a step of Drive or of a sync writes has its type, and it leaves the
\* workers alone.
LEMMA SyncTypes ==
    ASSUME TypeOK, Next, ~ \E w \in Workers : WorkerStep(w)
    PROVE  TypeOK' /\ worker' = worker
<1> USE DEF indexVars, history, driveVars
<1>0. sync \in [Syncs -> SyncState]
  BY DEF TypeOK
<1>1. CASE \E f \in Files, gone, empty \in BOOLEAN :
                  DriveChange(f, gone, empty)
  <2>1. PICK f \in Files, gone, empty \in BOOLEAN :
                  DriveChange(f, gone, empty)
    BY <1>1
  <2>2. drive' \in [Files -> [ver : Nat, gone : BOOLEAN, empty : BOOLEAN]] /\ log' \in Nat
    BY <2>1 DEF DriveChange, TypeOK
  <2>3. QED
    BY <2>1, <2>2 DEF DriveChange, TypeOK
<1>2. CASE \E s \in Syncs : StartIncremental(s)
  <2>1. PICK s \in Syncs : StartIncremental(s)
    BY <1>2
  <2>2. PICK where \in {"token", "drain"} :
           sync' = [sync EXCEPT ![s].pc = where, ![s].next = cursor]
    BY <2>1 DEF StartIncremental
  <2>3. sync' \in [Syncs -> SyncState]
    <3>1. PICK held \in SyncState : held = sync[s]
      BY <1>0
    <3>2. PICK new \in SyncState : new = [held EXCEPT !.pc = where, !.next = cursor]
      BY DEF SyncState, TypeOK
    <3>3. sync' = [sync EXCEPT ![s] = new]
      BY <1>0, <2>2, <3>1, <3>2
    <3>4. QED
      BY <1>0, <3>3
  <2>4. QED
    BY <2>1, <2>3 DEF StartIncremental, TypeOK
<1>3. CASE \E s \in Syncs : \E last \in 0..log :
               sync[s].next <= last + 1 /\ DrainPage(s, last)
  <2>1. PICK s \in Syncs : \E last \in 0..log : DrainPage(s, last)
    BY <1>3
  <2>2. PICK last \in 0..log : DrainPage(s, last)
    BY <2>1
  <2>3. PageOfChanges(sync[s].next, last) \subseteq Entry
    BY SeenTyped DEF PageOfChanges
  <2>4. PICK todo \in SUBSET Entry, where \in {"applying", "drain"}, next \in Nat :
           sync' = [sync EXCEPT ![s].pc = where, ![s].todo = todo, ![s].next = next]
    <3>1. sync[s].todo \cup PageOfChanges(sync[s].next, last) \subseteq Entry
      BY <1>0, <2>3 DEF SyncState
    <3>2. last + 1 \in Nat
      BY DEF TypeOK
    <3>3. (IF last = log THEN "applying" ELSE "drain") \in {"applying", "drain"}
      OBVIOUS
    <3>4. sync' = [sync EXCEPT
             ![s].pc = IF last = log THEN "applying" ELSE "drain",
             ![s].todo = sync[s].todo \cup PageOfChanges(sync[s].next, last),
             ![s].next = last + 1]
      BY <2>2 DEF DrainPage
    <3>5. QED
      BY <3>1, <3>2, <3>3, <3>4
  <2>5. sync' \in [Syncs -> SyncState]
    <3>1. PICK held \in SyncState : held = sync[s]
      BY <1>0
    <3>2. PICK new \in SyncState :
             new = [held EXCEPT !.pc = where, !.todo = todo, !.next = next]
      BY DEF SyncState
    <3>3. sync' = [sync EXCEPT ![s] = new]
      BY <2>4, <3>1, <3>2
    <3>4. QED
      BY <1>0, <3>3
  <2>6. QED
    BY <2>2, <2>5 DEF DrainPage, TypeOK
<1>4. CASE \E s \in Syncs : \E e \in sync[s].todo : ApplyEdit(s, e)
  <2>1. PICK s \in Syncs : \E e \in sync[s].todo : ApplyEdit(s, e)
    BY <1>4
  <2>2. PICK e \in sync[s].todo : ApplyEdit(s, e)
    BY <2>1
  <2>3. e \in Entry
    BY <1>0 DEF SyncState
  <2>4. queue' \subseteq Task
    BY <2>2, <2>3 DEF ApplyEdit, Enqueue, TypeOK, Task, Entry
  <2>5. Act(e)
    BY <2>2 DEF ApplyEdit, Enqueue
  <2>6. sync' \in [Syncs -> SyncState]
    BY <1>0, <2>2 DEF ApplyEdit, SyncState
  <2>7. QED
    BY <2>2, <2>3, <2>4, <2>5, <2>6, ActTyped DEF ApplyEdit, TypeOK
<1>5. CASE \E s \in Syncs : \E e \in sync[s].todo : ApplyRemoval(s, e)
  <2>1. PICK s \in Syncs : \E e \in sync[s].todo : ApplyRemoval(s, e)
    BY <1>5
  <2>2. PICK e \in sync[s].todo : ApplyRemoval(s, e)
    BY <2>1
  <2>3. e \in Entry /\ e.file \in Files
    BY <1>0 DEF SyncState, Entry
  <2>4. Act(e)
    BY <2>2 DEF ApplyRemoval
  <2>5. sync' \in [Syncs -> SyncState]
    BY <1>0, <2>2, <2>3 DEF ApplyRemoval, SyncState
  <2>6. chunks' \subseteq Chunks
    BY <2>2 DEF ApplyRemoval, TypeOK
  <2>7. QED
    BY <2>2, <2>3, <2>4, <2>5, <2>6, ActTyped DEF ApplyRemoval, TypeOK
<1>6. CASE \E s \in Syncs : RemoveRow(s)
  <2>1. PICK s \in Syncs : RemoveRow(s)
    BY <1>6
  <2>2. sync' \in [Syncs -> SyncState]
    <3>1. PICK held \in SyncState : held = sync[s]
      BY <1>0
    <3>2. PICK new \in SyncState :
             new = [held EXCEPT !.pc = "applying", !.file = {}, !.gen = 0, !.sees = {}]
      BY DEF SyncState
    <3>3. sync' = [sync EXCEPT ![s] = new]
      BY <1>0, <2>1, <3>1, <3>2 DEF RemoveRow
    <3>4. QED
      BY <1>0, <3>3
  <2>3. doc' \in [Files -> Document \cup {NoDoc}]
    BY <2>1 DEF RemoveRow, TypeOK
  <2>4. orphaned' \subseteq Files /\ chunks' \subseteq Chunks
    BY <2>1, SyncNextTyped DEF RemoveRow, Collected, TypeOK
  <2>5. QED
    BY <2>1, <2>2, <2>3, <2>4 DEF RemoveRow, TypeOK
<1>14. CASE \E s \in Syncs : \E f \in sync[s].file : Cascade(s, f)
  <2>1. PICK s \in Syncs : \E f \in sync[s].file : Cascade(s, f)
    BY <1>14
  <2>2. PICK f \in sync[s].file : Cascade(s, f)
    BY <2>1
  <2>3. PICK key \in Nat : key = doc[f].gen
    <3>1. f \in Files
      BY SyncNextTyped
    <3>2. doc[f].gen \in Nat
      BY <3>1 DEF TypeOK, Document, NoDoc
    <3>3. QED
      BY <3>2
  <2>4. PICK sees \in SUBSET Chunks : sees = ChunksOf(f)
    BY DEF ChunksOf, TypeOK
  <2>5. sync' \in [Syncs -> SyncState]
    <3>1. PICK held \in SyncState : held = sync[s]
      BY <1>0
    <3>2. PICK new \in SyncState :
             new = [held EXCEPT !.pc = "cascading", !.gen = key, !.sees = sees]
      BY DEF SyncState
    <3>3. sync' = [sync EXCEPT ![s] = new]
      BY <1>0, <2>2, <2>3, <2>4, <3>1, <3>2 DEF Cascade
    <3>4. QED
      BY <1>0, <3>3
  <2>6. QED
    BY <2>2, <2>5 DEF Cascade, TypeOK
<1>7. CASE \E s \in Syncs : FinishIncremental(s)
  <2>1. PICK s \in Syncs : FinishIncremental(s)
    BY <1>7
  <2>2. sync' \in [Syncs -> SyncState] /\ cursor' \in Nat
    BY <2>1, SyncOverTyped, SyncNextTyped DEF FinishIncremental, TypeOK
  <2>3. QED
    BY <2>1, <2>2 DEF FinishIncremental, TypeOK
<1>8. CASE \E s \in Syncs : StartFull(s)
  <2>1. PICK s \in Syncs : StartFull(s)
    BY <1>8
  <2>2. sync' \in [Syncs -> SyncState]
    BY <1>0, <2>1 DEF StartFull, SyncState
  <2>3. QED
    BY <2>1, <2>2 DEF StartFull, TypeOK
<1>9. CASE \E s \in Syncs : GetStartToken(s)
  <2>1. PICK s \in Syncs : GetStartToken(s)
    BY <1>9
  <2>2. log + 1 \in Nat /\ Files \subseteq Files
    BY DEF TypeOK
  <2>3. sync' \in [Syncs -> SyncState]
    <3>1. PICK held \in SyncState : held = sync[s]
      BY <1>0
    <3>2. PICK new \in SyncState :
             new = [held EXCEPT !.pc = "listing", !.next = log + 1, !.list = Files]
      BY <2>2 DEF SyncState
    <3>3. sync' = [sync EXCEPT ![s] = new]
      BY <1>0, <2>1, <3>1, <3>2 DEF GetStartToken
    <3>4. QED
      BY <1>0, <3>3
  <2>4. QED
    BY <2>1, <2>3 DEF GetStartToken, TypeOK
<1>10. CASE \E s \in Syncs : \E f \in sync[s].list : ListFile(s, f)
  <2>1. PICK s \in Syncs : \E f \in sync[s].list : ListFile(s, f)
    BY <1>10
  <2>2. PICK f \in sync[s].list : ListFile(s, f)
    BY <2>1
  <2>3. f \in Files /\ drive[f].ver \in Nat
    BY <1>0 DEF TypeOK, SyncState
  <2>4. sync' \in [Syncs -> SyncState]
    BY <1>0, <2>2 DEF ListFile, SyncState
  <2>5. UNCHANGED <<drive, log, cursor, worker, chunks>>
    BY <2>2 DEF ListFile
  <2>6. CASE drive[f].gone
    BY <2>2, <2>4, <2>5, <2>6 DEF ListFile, TypeOK
  <2>7. CASE ~drive[f].gone /\ f \in Supported
    <3>1. Enqueue(s, Seen(f)) /\ UNCHANGED <<doc, gens>>
      BY <2>2, <2>7 DEF ListFile
    <3>2. queue' \subseteq Task
      BY <2>3, <3>1, SeenTyped DEF Enqueue, TypeOK, Task
    <3>3. QED
      BY <2>3, <2>4, <2>5, <3>1, <3>2, SeenTyped, ActTyped DEF Enqueue, TypeOK
  <2>8. CASE ~drive[f].gone /\ f \notin Supported
    <3>1. Upsert(f, drive[f].ver) /\ Act(Seen(f)) /\ UNCHANGED queue
      BY <2>2, <2>8 DEF ListFile
    <3>2. doc' \in [Files -> Document \cup {NoDoc}] /\ gens' \in [Files -> Nat]
      BY <2>3, <3>1, UpsertTyped
    <3>3. QED
      BY <2>3, <2>4, <2>5, <3>1, <3>2, SeenTyped, ActTyped DEF TypeOK
  <2>9. QED
    BY <2>6, <2>7, <2>8
<1>11. CASE \E s \in Syncs : FinishFull(s)
  <2>1. PICK s \in Syncs : FinishFull(s)
    BY <1>11
  <2>2. sync' \in [Syncs -> SyncState] /\ cursor' \in Nat
    BY <2>1, SyncOverTyped, SyncNextTyped DEF FinishFull, TypeOK
  <2>3. QED
    BY <2>1, <2>2 DEF FinishFull, TypeOK
<1>12. CASE \E s \in Syncs : SyncDies(s)
  <2>1. PICK s \in Syncs : SyncDies(s)
    BY <1>12
  <2>2. sync' \in [Syncs -> SyncState] /\ disturbed' \subseteq Files
    BY <2>1, SyncOverTyped, SyncNextTyped DEF SyncDies, TypeOK
  <2>3. QED
    BY <2>1, <2>2 DEF SyncDies, TypeOK
<1>13. QED
  BY <1>1, <1>2, <1>3, <1>4, <1>5, <1>6, <1>7, <1>8, <1>9, <1>10, <1>11, <1>12,
     <1>14, NextCases

\* Types, and the tasks and rows workers hold, survive every step.
LEMMA TypeStep == TypeOK /\ WorkersHold /\ [Next]_vars => TypeOK' /\ WorkersHold'
<1> SUFFICES ASSUME TypeOK, WorkersHold, [Next]_vars PROVE TypeOK' /\ WorkersHold'
    OBVIOUS
<1>1. CASE \E w \in Workers : WorkerStep(w)
  BY <1>1, WorkerTypes
<1>2. CASE Next /\ ~ \E w \in Workers : WorkerStep(w)
  BY <1>2, SyncTypes DEF WorkersHold
<1>3. CASE UNCHANGED vars
  BY <1>3 DEF vars, TypeOK, WorkersHold
<1>4. QED
  BY <1>1, <1>2, <1>3

\* The types hold at the start.
LEMMA TypeInit == Init => TypeOK /\ WorkersHold
  BY DEF Init, TypeOK, WorkersHold, SyncOver, FreeWorker, SyncState, WorkerState

\* Every variable keeps its type; in particular a row without a key is never
\* written and a task is never run without its file.
THEOREM TypeCorrect == Spec => [](TypeOK /\ WorkersHold)
<1>1. QED
  BY TypeInit, TypeStep, PTL DEF Spec
-----------------------------------------------------------------------------
(* The cursor.                                                             *)

\* Acting on a change moves the record of its file forward, never past the file
\* itself, and to the file's present version when the change is its newest.
LEMMA ActKeeps ==
    ASSUME TypeOK, LogOrdered, NEW e \in Entry, e.ver <= drive[e.file].ver, Act(e)
    PROVE  \A f \in Files :
             /\ applied[f] <= applied'[f]
             /\ applied'[f] <= drive[f].ver
             /\ e = Seen(f) => applied'[f] = drive[f].ver
<1> SUFFICES ASSUME NEW f \in Files
             PROVE  /\ applied[f] <= applied'[f]
                    /\ applied'[f] <= drive[f].ver
                    /\ e = Seen(f) => applied'[f] = drive[f].ver
    OBVIOUS
<1>1. applied[f] \in Nat /\ drive[f].ver \in Nat /\ applied[f] <= drive[f].ver
  BY DEF TypeOK, LogOrdered
<1>2. e.ver \in Nat /\ e.file \in Files
  BY DEF Entry
<1>3. applied'[f] = IF f = e.file /\ applied[f] < e.ver THEN e.ver ELSE applied[f]
  BY <1>2 DEF Act, TypeOK
<1>4. e = Seen(f) => e.file = f /\ e.ver = drive[f].ver
  BY SeenTyped
<1>5. QED
  BY <1>1, <1>2, <1>3, <1>4

\* A step of a worker changes nothing IInv adds to the types.
LEMMA WorkerCovers ==
    ASSUME IInv, NEW w \in Workers, WorkerStep(w)
    PROVE  LogOrdered' /\ CursorCoversApplied' /\ \A s \in Syncs : SyncKnows(s)'
  BY WorkerFrame DEF IInv, LogOrdered, CursorCoversApplied, SyncKnows, Acted, Seen,
                     driveVars

\* A change made in Drive is at the end of the log, before which every token is.
LEMMA DriveCovers ==
    ASSUME IInv, NEW f \in Files, NEW gone \in BOOLEAN,
           NEW empty \in BOOLEAN, DriveChange(f, gone, empty)
    PROVE  LogOrdered' /\ CursorCoversApplied' /\ \A s \in Syncs : SyncKnows(s)'
<1> DEFINE Old(g) == drive'[g] = drive[g] /\ (g \in swallowed' <=> g \in swallowed)
<1>1. log \in Nat /\ log' = log + 1 /\ cursor \in Nat /\ cursor <= log + 1
  BY DEF IInv, TypeOK, LogOrdered, DriveChange
<1>2. \A g \in Files \ {f} : Old(g)
  BY DEF IInv, TypeOK, DriveChange
<1>3. drive'[f].ver = log + 1
  BY <1>1 DEF IInv, TypeOK, DriveChange
<1>4. UNCHANGED <<cursor, sync, applied>>
  BY DEF DriveChange
<1>5. \A g \in Files : /\ drive[g].ver \in Nat /\ drive[g].ver <= log
                       /\ applied[g] \in Nat /\ applied[g] <= drive[g].ver
  BY DEF IInv, TypeOK, LogOrdered
<1>6. \A s \in Syncs : /\ sync[s].next \in Nat /\ sync[s].next <= log + 1
                       /\ \A e \in sync[s].todo : /\ e.file \in Files /\ e.ver \in Nat
                                                  /\ e.ver <= drive[e.file].ver
  BY SyncNextTyped DEF IInv, LogOrdered, Entry
<1>7. LogOrdered'
  <2>1. \A g \in Files : drive'[g].ver <= log' /\ applied[g] <= drive'[g].ver
    BY <1>1, <1>2, <1>3, <1>5
  <2>2. ASSUME NEW s \in Syncs, NEW e \in sync[s].todo
        PROVE  e.ver <= drive'[e.file].ver
    BY <1>1, <1>2, <1>3, <1>5, <1>6
  <2>3. QED
    BY <1>1, <1>4, <1>6, <2>1, <2>2 DEF LogOrdered
<1>8. CursorCoversApplied'
  BY <1>1, <1>2, <1>3, <1>4 DEF IInv, CursorCoversApplied
<1>9. ASSUME NEW s \in Syncs PROVE SyncKnows(s)'
  <2>1. SyncKnows(s)
    BY DEF IInv
  <2>2. \A g \in Files : drive'[g].ver < sync[s].next => g # f
    BY <1>1, <1>3, <1>6
  <2>3. \A g \in Files \ {f} : Seen(g)' = Seen(g)
    BY <1>2 DEF Seen
  <2>4. QED
    BY <1>2, <1>4, <2>1, <2>2, <2>3 DEF SyncKnows, Acted
<1>10. QED
  BY <1>7, <1>8, <1>9
\* A step that moves only sync s, to a token no further than the end of the log
\* and to a place where SyncKnows holds, keeps the invariant.
LEMMA SyncMoves ==
    ASSUME IInv, NEW s \in Syncs,
           \A r \in Syncs \ {s} : sync'[r] = sync[r],
           UNCHANGED <<drive, log, cursor>>,
           swallowed' = swallowed,
           \A f \in Files : /\ applied'[f] \in Nat
                            /\ applied[f] <= applied'[f]
                            /\ applied'[f] <= drive[f].ver,
           sync'[s].next <= log + 1,
           \A e \in sync'[s].todo : e.ver <= drive[e.file].ver,
           SyncKnows(s)'
    PROVE  LogOrdered' /\ CursorCoversApplied' /\ \A r \in Syncs : SyncKnows(r)'
<1>1. \A f \in Files : applied[f] \in Nat /\ drive[f].ver \in Nat /\ drive[f].ver <= log
  BY DEF IInv, TypeOK, LogOrdered
<1>2. \A f \in Files : Acted(f) => Acted(f)'
  BY <1>1 DEF Acted
<1>3. LogOrdered'
  <2>1. \A r \in Syncs : /\ sync'[r].next <= log + 1
                         /\ \A e \in sync'[r].todo : e.ver <= drive[e.file].ver
    BY DEF IInv, LogOrdered
  <2>2. QED
    BY <1>1, <2>1 DEF IInv, LogOrdered
<1>4. CursorCoversApplied'
  BY <1>2 DEF IInv, CursorCoversApplied, Acted
<1>5. ASSUME NEW r \in Syncs \ {s} PROVE SyncKnows(r)'
  BY <1>2 DEF IInv, SyncKnows, Seen
<1>6. QED
  BY <1>3, <1>4, <1>5

\* The first steps of a sync: it takes a token from the cursor row, or asks
\* Drive for one; what is before the cursor is acted upon.
LEMMA StartsCover ==
    ASSUME IInv, NEW s \in Syncs,
           StartIncremental(s) \/ StartFull(s) \/ GetStartToken(s)
    PROVE  LogOrdered' /\ CursorCoversApplied' /\ \A r \in Syncs : SyncKnows(r)'
<1>1. /\ sync \in [Syncs -> SyncState] /\ log \in Nat /\ cursor \in Nat
      /\ cursor <= log + 1
      /\ UNCHANGED <<drive, log, cursor, applied, swallowed>>
      /\ \A f \in Files : applied[f] \in Nat /\ applied[f] <= drive[f].ver
  BY DEF IInv, TypeOK, LogOrdered, StartIncremental, StartFull, GetStartToken,
         driveVars, history
<1>2. /\ \A e \in sync[s].todo : e.ver <= drive[e.file].ver
      /\ sync[s].next <= log + 1
  BY DEF IInv, LogOrdered
<1>3. \A r \in Syncs \ {s} : sync'[r] = sync[r]
  BY <1>1 DEF StartIncremental, StartFull, GetStartToken
<1>4. sync'[s].todo = sync[s].todo
  BY <1>1 DEF StartIncremental, StartFull, GetStartToken, SyncState
<1>5. sync'[s].next \in {cursor, sync[s].next, log + 1}
  BY <1>1 DEF StartIncremental, StartFull, GetStartToken, SyncState
<1>6. SyncKnows(s)'
  <2>1. CASE StartIncremental(s)
    <3>1. sync'[s].next = cursor /\ sync'[s].pc # "listing"
      BY <1>1, <2>1 DEF StartIncremental, SyncState
    <3>2. QED
      BY <1>1, <3>1 DEF IInv, CursorCoversApplied, SyncKnows, Acted
  <2>2. CASE StartFull(s)
    <3>1. sync'[s].pc = "token"
      BY <1>1, <2>2 DEF StartFull, SyncState
    <3>2. QED
      BY <3>1 DEF SyncKnows
  <2>3. CASE GetStartToken(s)
    <3>1. sync'[s].pc = "listing" /\ sync'[s].list = Files
      BY <1>1, <2>3 DEF GetStartToken, SyncState
    <3>2. QED
      BY <3>1 DEF SyncKnows
  <2>4. QED
    BY <2>1, <2>2, <2>3
<1>7. sync'[s].next <= log + 1
  BY <1>1, <1>2, <1>5
<1>8. QED
  BY <1>1, <1>2, <1>3, <1>4, <1>6, <1>7, SyncMoves
\* A page of changes: the token moves past them, and they are to be done.
LEMMA DrainCovers ==
    ASSUME IInv, NEW s \in Syncs, NEW last \in 0..log,
           sync[s].next <= last + 1, DrainPage(s, last)
    PROVE  LogOrdered' /\ CursorCoversApplied' /\ \A r \in Syncs : SyncKnows(r)'
<1>1. /\ sync \in [Syncs -> SyncState] /\ log \in Nat
      /\ UNCHANGED <<drive, log, cursor, applied, swallowed>>
      /\ \A f \in Files : /\ applied[f] \in Nat /\ applied[f] <= drive[f].ver
                          /\ drive[f].ver \in Nat
  BY DEF IInv, TypeOK, LogOrdered, DrainPage, driveVars, history
<1>2. \A e \in sync[s].todo : e.ver <= drive[e.file].ver
  BY DEF IInv, LogOrdered
<1>3. \A r \in Syncs \ {s} : sync'[r] = sync[r]
  BY <1>1 DEF DrainPage
<1>4. sync'[s].todo = sync[s].todo \cup PageOfChanges(sync[s].next, last)
  BY <1>1 DEF DrainPage, SyncState
<1>5. sync'[s].next = last + 1 /\ sync'[s].pc # "listing" /\ sync[s].pc = "drain"
  BY <1>1 DEF DrainPage, SyncState
<1>6. \A e \in PageOfChanges(sync[s].next, last) : e.ver <= drive[e.file].ver
  BY <1>1, SeenTyped DEF PageOfChanges, IInv
<1>7. SyncKnows(s)'
  <2> SUFFICES ASSUME NEW f \in Files, 0 < drive[f].ver, drive[f].ver < last + 1
               PROVE  Acted(f) \/ Seen(f) \in sync'[s].todo
    BY <1>1, <1>5 DEF SyncKnows, Acted, Seen
  <2>1. CASE drive[f].ver < sync[s].next
    BY <1>4, <1>5, <2>1 DEF IInv, SyncKnows
  <2>2. CASE ~(drive[f].ver < sync[s].next)
    <3>1. sync[s].next <= drive[f].ver /\ drive[f].ver <= last
      BY <1>1, <2>2, SyncNextTyped DEF IInv
    <3>2. Seen(f) \in PageOfChanges(sync[s].next, last)
      BY <3>1 DEF PageOfChanges
    <3>3. QED
      BY <1>4, <3>2
  <2>3. QED
    BY <2>1, <2>2
<1>8. last + 1 <= log + 1
  BY <1>1
<1>9. QED
  BY <1>1, <1>2, <1>3, <1>4, <1>5, <1>6, <1>7, <1>8, SyncMoves

\* A change taken off the list is acted upon, be it an edit or a removal.
LEMMA ApplyCovers ==
    ASSUME IInv, NEW s \in Syncs, NEW e \in sync[s].todo,
           ApplyEdit(s, e) \/ ApplyRemoval(s, e)
    PROVE  LogOrdered' /\ CursorCoversApplied' /\ \A r \in Syncs : SyncKnows(r)'
<1>1. /\ sync \in [Syncs -> SyncState] /\ TypeOK /\ LogOrdered
      /\ UNCHANGED <<drive, log, cursor>> /\ Act(e)
      /\ sync[s].pc = "applying"
  BY DEF IInv, TypeOK, ApplyEdit, ApplyRemoval, Enqueue, driveVars, NextChange
<1>2. e \in Entry /\ e.ver <= drive[e.file].ver
  BY <1>1, SyncNextTyped DEF LogOrdered
<1>3. swallowed' = swallowed /\ applied' \in [Files -> Nat]
  BY <1>1, <1>2, ActTyped
<1>4. \A f \in Files : /\ applied[f] <= applied'[f] /\ applied'[f] <= drive[f].ver
                       /\ applied'[f] \in Nat
                       /\ e = Seen(f) => applied'[f] = drive[f].ver
  BY <1>1, <1>2, <1>3, ActKeeps
<1>5. \A r \in Syncs \ {s} : sync'[r] = sync[r]
  BY <1>1 DEF ApplyEdit, ApplyRemoval
<1>6. sync'[s].todo = sync[s].todo \ {e} /\ sync'[s].next = sync[s].next
      /\ sync'[s].pc # "listing"
  BY <1>1 DEF ApplyEdit, ApplyRemoval, SyncState
<1>7. \A f \in Files : Acted(f) => Acted(f)'
  <2>1. \A f \in Files : applied[f] \in Nat /\ drive[f].ver \in Nat
    BY <1>1 DEF TypeOK
  <2>2. QED
    BY <1>1, <1>3, <1>4, <2>1 DEF Acted
<1>8. SyncKnows(s)'
  <2> SUFFICES ASSUME NEW f \in Files, 0 < drive[f].ver, drive[f].ver < sync[s].next
               PROVE  Acted(f)' \/ Seen(f) \in sync'[s].todo
    BY <1>1, <1>6 DEF SyncKnows, Seen
  <2>1. Acted(f) \/ Seen(f) \in sync[s].todo
    BY <1>1 DEF IInv, SyncKnows
  <2>2. CASE Seen(f) = e
    BY <1>1, <1>4, <2>2 DEF Acted
  <2>3. CASE Seen(f) # e
    BY <1>6, <1>7, <2>1, <2>3
  <2>4. QED
    BY <2>2, <2>3
<1>9. \A o \in sync'[s].todo : o.ver <= drive[o.file].ver
  BY <1>1, <1>6 DEF LogOrdered
<1>10. sync'[s].next <= log + 1
  BY <1>1, <1>6 DEF LogOrdered
<1>11. QED
  BY <1>1, <1>3, <1>4, <1>5, <1>8, <1>9, <1>10, SyncMoves

\* A file taken off the listing is gone, or acted upon.
LEMMA ListCovers ==
    ASSUME IInv, NEW s \in Syncs, NEW f \in sync[s].list, ListFile(s, f)
    PROVE  LogOrdered' /\ CursorCoversApplied' /\ \A r \in Syncs : SyncKnows(r)'
<1>1. /\ sync \in [Syncs -> SyncState] /\ TypeOK /\ LogOrdered
      /\ UNCHANGED <<drive, log, cursor>> /\ sync[s].pc = "listing"
      /\ f \in Files
  BY SyncNextTyped DEF IInv, TypeOK, ListFile, driveVars
<1>3. (drive[f].gone /\ UNCHANGED <<applied, swallowed>>) \/ Act(Seen(f))
  BY DEF ListFile, Enqueue, history
<1>4. swallowed' = swallowed /\ applied' \in [Files -> Nat]
  BY <1>1, <1>3, SeenTyped, ActTyped DEF TypeOK
<1>5. \A g \in Files : /\ applied[g] <= applied'[g] /\ applied'[g] <= drive[g].ver
                       /\ applied'[g] \in Nat
  <2>1. \A g \in Files : applied[g] \in Nat /\ applied[g] <= drive[g].ver
    BY <1>1 DEF TypeOK, LogOrdered
  <2>2. Seen(f) \in Entry /\ Seen(f).ver <= drive[Seen(f).file].ver
    BY <1>1, SeenTyped DEF TypeOK
  <2>3. QED
    BY <1>1, <1>3, <1>4, <2>1, <2>2, ActKeeps
<1>6. drive[f].gone \/ applied'[f] = drive[f].ver
  <2>1. Seen(f) \in Entry /\ Seen(f).ver <= drive[Seen(f).file].ver
    BY <1>1, SeenTyped DEF TypeOK
  <2>2. QED
    BY <1>1, <1>3, <2>1, ActKeeps
<1>7. \A r \in Syncs \ {s} : sync'[r] = sync[r]
  BY <1>1 DEF ListFile
<1>8. /\ sync'[s].todo = sync[s].todo /\ sync'[s].next = sync[s].next
      /\ sync'[s].pc = "listing" /\ sync'[s].list = sync[s].list \ {f}
  BY <1>1 DEF ListFile, SyncState
<1>9. SyncKnows(s)'
  <2> SUFFICES ASSUME NEW g \in Files, 0 < drive[g].ver, drive[g].ver < sync[s].next,
                      ~drive[g].gone
               PROVE  Acted(g)' \/ g \in sync'[s].list
    BY <1>1, <1>8 DEF SyncKnows
  <2>1. Acted(g) \/ g \in sync[s].list
    BY <1>1 DEF IInv, SyncKnows
  <2>2. Acted(g) => Acted(g)'
    <3>1. applied[g] \in Nat /\ drive[g].ver \in Nat
      BY <1>1 DEF TypeOK
    <3>2. QED
      BY <1>1, <1>4, <1>5, <3>1 DEF Acted
  <2>3. QED
    BY <1>1, <1>6, <1>8, <2>1, <2>2 DEF Acted
<1>10. \A o \in sync'[s].todo : o.ver <= drive[o.file].ver
  BY <1>1, <1>8 DEF LogOrdered
<1>11. sync'[s].next <= log + 1
  BY <1>1, <1>8 DEF LogOrdered
<1>12. QED
  BY <1>1, <1>4, <1>5, <1>7, <1>9, <1>10, <1>11, SyncMoves
\* A sync ends or goes on without a look at a change: what it writes to the
\* cursor row is the token before which SyncKnows holds and nothing is left.
LEMMA EndsCover ==
    ASSUME IInv, NEW s \in Syncs,
           \/ RemoveRow(s) \/ SyncDies(s) \/ \E f \in sync[s].file : Cascade(s, f)
           \/ FinishIncremental(s) \/ FinishFull(s)
    PROVE  LogOrdered' /\ CursorCoversApplied' /\ \A r \in Syncs : SyncKnows(r)'
<1>1. /\ sync \in [Syncs -> SyncState] /\ log \in Nat /\ LogOrdered
      /\ \A f \in Files : applied[f] \in Nat /\ drive[f].ver \in Nat
                          /\ applied[f] <= drive[f].ver
  BY DEF IInv, TypeOK, LogOrdered
<1>2. UNCHANGED <<drive, log, applied>>
  BY DEF RemoveRow, Cascade, SyncDies, FinishIncremental, FinishFull, driveVars, history
<1>3. CASE RemoveRow(s) \/ \E f \in sync[s].file : Cascade(s, f)
  <2>1. UNCHANGED <<cursor, swallowed>>
    BY <1>3 DEF RemoveRow, Cascade, history
  <2>2. \A r \in Syncs \ {s} : sync'[r] = sync[r]
    BY <1>1, <1>3 DEF RemoveRow, Cascade
  <2>3. /\ sync'[s].todo = sync[s].todo /\ sync'[s].next = sync[s].next
        /\ sync[s].pc \in {"removing", "cascading"}
        /\ sync'[s].pc \in {"applying", "cascading"}
    <3>1. CASE RemoveRow(s)
      BY <1>1, <3>1 DEF RemoveRow, SyncState
    <3>2. CASE \E f \in sync[s].file : Cascade(s, f)
      <4>1. PICK f \in sync[s].file : Cascade(s, f)
        BY <3>2
      <4>2. QED
        BY <1>1, <4>1 DEF Cascade, SyncState
    <3>3. QED
      BY <1>3, <3>1, <3>2
  <2>4. SyncKnows(s)'
    BY <1>2, <2>1, <2>3 DEF IInv, SyncKnows, Acted, Seen
  <2>5. /\ sync'[s].next <= log + 1
        /\ \A e \in sync'[s].todo : e.ver <= drive[e.file].ver
    BY <1>1, <2>3 DEF LogOrdered
  <2>6. QED
    BY <1>1, <1>2, <2>1, <2>2, <2>4, <2>5, SyncMoves
<1>4. CASE SyncDies(s) \/ FinishIncremental(s) \/ FinishFull(s)
  <2>1. sync' = [sync EXCEPT ![s] = SyncOver]
    BY <1>4 DEF SyncDies, FinishIncremental, FinishFull
  <2>2. /\ sync'[s] = SyncOver
        /\ \A r \in Syncs \ {s} : sync'[r] = sync[r]
    BY <1>1, <2>1
  <2>3. cursor' \in {cursor, sync[s].next} /\ swallowed \subseteq swallowed'
    BY <1>4 DEF SyncDies, FinishIncremental, FinishFull, history
  <2>4. LogOrdered'
    <3>1. 0 <= log + 1
      BY <1>1
    <3>2. QED
      BY <1>1, <1>2, <2>2, <2>3, <3>1 DEF LogOrdered, SyncOver
  <2>5. ASSUME NEW r \in Syncs PROVE SyncKnows(r)'
    BY <1>2, <2>2, <2>3 DEF IInv, SyncKnows, SyncOver, Acted, Seen
  <2>6. CursorCoversApplied'
    <3> SUFFICES ASSUME NEW f \in Files, 0 < drive[f].ver, drive[f].ver < cursor'
                 PROVE  applied[f] = drive[f].ver \/ f \in swallowed'
      BY <1>2 DEF CursorCoversApplied
    <3>1. CASE SyncDies(s)
      <4>1. UNCHANGED <<cursor, swallowed>>
        BY <3>1 DEF SyncDies
      <4>2. QED
        BY <4>1 DEF IInv, CursorCoversApplied
    <3>2. CASE FinishIncremental(s)
      <4>1. /\ cursor' = sync[s].next /\ swallowed' = swallowed
            /\ sync[s].pc = "applying" /\ sync[s].todo = {}
        BY <3>2 DEF FinishIncremental, history
      <4>2. QED
        BY <4>1 DEF IInv, SyncKnows, Acted
    <3>3. CASE FinishFull(s)
      <4>1. /\ cursor' = sync[s].next /\ sync[s].list = {}
            /\ sync[s].pc = "listing"
        BY <3>3 DEF FinishFull
      <4>2. CASE drive[f].gone
        <5>1. applied[f] < drive[f].ver => f \in swallowed'
          BY <3>3, <4>1, <4>2 DEF FinishFull
        <5>2. QED
          BY <1>1, <5>1
      <4>3. CASE ~drive[f].gone
        BY <2>3, <4>1, <4>3 DEF IInv, SyncKnows, Acted
      <4>4. QED
        BY <4>2, <4>3
    <3>4. QED
      BY <1>4, <3>1, <3>2, <3>3
  <2>7. QED
    BY <2>4, <2>5, <2>6
<1>5. QED
  BY <1>3, <1>4

\* The invariant holds at the start.
LEMMA InvInit == Init => IInv
<1> SUFFICES ASSUME Init PROVE IInv
    OBVIOUS
<1>1. LogOrdered
  BY DEF Init, LogOrdered, SyncOver
<1>2. CursorCoversApplied
  BY DEF Init, CursorCoversApplied
<1>3. \A s \in Syncs : SyncKnows(s)
  BY DEF Init, SyncKnows, SyncOver
<1>4. QED
  BY <1>1, <1>2, <1>3, TypeInit DEF IInv

\* The invariant survives every step.
LEMMA InvStep == IInv /\ [Next]_vars => IInv'
<1> SUFFICES ASSUME IInv, [Next]_vars PROVE IInv'
    OBVIOUS
<1>1. TypeOK' /\ WorkersHold'
  BY TypeStep DEF IInv
<1>2. CASE Next
  <2> SUFFICES LogOrdered' /\ CursorCoversApplied' /\ \A s \in Syncs : SyncKnows(s)'
    BY <1>1 DEF IInv
  <2>1. CASE \E f \in Files, gone, empty \in BOOLEAN :
                  DriveChange(f, gone, empty)
    BY <2>1, DriveCovers
  <2>2. CASE \E s \in Syncs : StartIncremental(s) \/ StartFull(s) \/ GetStartToken(s)
    BY <2>2, StartsCover
  <2>3. CASE \E s \in Syncs : \E last \in 0..log :
                 sync[s].next <= last + 1 /\ DrainPage(s, last)
    <3>1. PICK s \in Syncs : \E last \in 0..log :
                 sync[s].next <= last + 1 /\ DrainPage(s, last)
      BY <2>3
    <3>2. PICK last \in 0..log : sync[s].next <= last + 1 /\ DrainPage(s, last)
      BY <3>1
    <3>3. QED
      BY <3>2, DrainCovers
  <2>4. CASE \E s \in Syncs : \E e \in sync[s].todo : ApplyEdit(s, e) \/ ApplyRemoval(s, e)
    <3>1. PICK s \in Syncs : \E e \in sync[s].todo : ApplyEdit(s, e) \/ ApplyRemoval(s, e)
      BY <2>4
    <3>2. QED
      BY <3>1, ApplyCovers
  <2>5. CASE \E s \in Syncs : \E f \in sync[s].list : ListFile(s, f)
    <3>1. PICK s \in Syncs : \E f \in sync[s].list : ListFile(s, f)
      BY <2>5
    <3>2. QED
      BY <3>1, ListCovers
  <2>6. CASE \E s \in Syncs : \/ RemoveRow(s) \/ SyncDies(s)
                              \/ \E f \in sync[s].file : Cascade(s, f)
                              \/ FinishIncremental(s) \/ FinishFull(s)
    BY <2>6, EndsCover
  <2>7. CASE \E w \in Workers : WorkerStep(w)
    BY <2>7, WorkerCovers
  <2>8. QED
    BY <1>2, <2>1, <2>2, <2>3, <2>4, <2>5, <2>6, <2>7, NextCases
<1>3. CASE UNCHANGED vars
  BY <1>1, <1>3 DEF vars, IInv, LogOrdered, CursorCoversApplied, SyncKnows, Acted, Seen
<1>4. QED
  BY <1>2, <1>3

\* The Drive cursor never passes a change nobody acted upon, whatever syncs
\* overlap, die or move it back: only a removal a full ingest jumps over is lost.
THEOREM CursorIsCovered == Spec => []CursorCoversApplied
<1>1. IInv => CursorCoversApplied
  BY DEF IInv
<1>2. QED
  BY <1>1, InvInit, InvStep, PTL DEF Spec
-----------------------------------------------------------------------------
(* The chunks.                                                             *)

\* A worker in its transaction deletes chunks of its own file only.
SeesOwn ==
    \A w \in Workers : worker[w].pc = "replacing" =>
        \A c \in worker[w].sees : c.file = FileOf(w)

\* No other step enters the transaction, or changes what it matched.
LEMMA SeesOwnStep == TypeOK /\ SeesOwn /\ [Next]_vars => SeesOwn'
<1> SUFFICES ASSUME TypeOK, SeesOwn, [Next]_vars, NEW w \in Workers,
                    worker'[w].pc = "replacing", NEW c \in worker'[w].sees
             PROVE  c.file = FileOf(w)'
    BY DEF SeesOwn
<1>1. CASE worker'[w] = worker[w]
  BY <1>1 DEF SeesOwn, FileOf, TaskOf
<1>2. CASE worker'[w] # worker[w]
  <2>1. \E v \in Workers : WorkerStep(v)
    <3>1. CASE Next /\ ~ \E v \in Workers : WorkerStep(v)
      BY <1>2, <3>1, SyncTypes
    <3>2. CASE UNCHANGED vars
      BY <1>2, <3>2 DEF vars
    <3>3. QED
      BY <3>1, <3>2
  <2>2. PICK v \in Workers : WorkerStep(v)
    BY <2>1
  <2>3. worker \in [Workers -> WorkerState]
    BY DEF TypeOK
  <2>4. BeginReplace(w)
    <3>1. v = w
      BY <1>2, <2>2, <2>3 DEF WorkerStep, Take, UpsertRow, Extract, MarkStatus,
         SaveExtracted, BeginReplace, CommitReplace, TaskDies, Free
    <3>2. QED
      BY <2>2, <2>3, <3>1 DEF WorkerStep, Take, UpsertRow, Extract, MarkStatus,
         SaveExtracted, BeginReplace, CommitReplace, TaskDies, Free, FreeWorker,
         WorkerState
  <2>5. /\ worker'[w].task = worker[w].task
        /\ worker'[w].sees = {d \in chunks : d.file = FileOf(w) /\ d.gen = worker[w].gen}
    BY <2>3, <2>4 DEF BeginReplace, WorkerState
  <2>6. QED
    BY <2>5 DEF FileOf, TaskOf
<1>3. QED
  BY <1>1, <1>2

\* The cascade of a removal deletes chunks of the row it collected only.
CascadeOwn ==
    \A s \in Syncs : sync[s].pc = "cascading" =>
        \A c \in sync[s].sees : c.file \in sync[s].file /\ c.gen = sync[s].gen

\* No other step enters the cascade, or changes what it matched.
LEMMA CascadeOwnStep == TypeOK /\ WorkersHold /\ CascadeOwn /\ [Next]_vars => CascadeOwn'
<1> SUFFICES ASSUME TypeOK, WorkersHold, CascadeOwn, [Next]_vars, NEW r \in Syncs,
                    sync'[r].pc = "cascading", NEW c \in sync'[r].sees
             PROVE  c.file \in sync'[r].file /\ c.gen = sync'[r].gen
    BY DEF CascadeOwn
<1>1. CASE sync'[r] = sync[r]
  BY <1>1 DEF CascadeOwn
<1>2. CASE sync'[r] # sync[r]
  <2>1. sync \in [Syncs -> SyncState]
    BY DEF TypeOK
  <2>2. PICK f \in sync[r].file : Cascade(r, f)
    <3>1. ~ UNCHANGED vars
      BY <1>2 DEF vars
    <3>2. CASE \E s \in Syncs : \E f \in sync[s].file : Cascade(s, f)
      <4>1. PICK s \in Syncs : \E f \in sync[s].file : Cascade(s, f)
        BY <3>2
      <4>2. s = r
        BY <1>2, <2>1, <4>1 DEF Cascade
      <4>3. QED
        BY <4>1, <4>2
    <3>3. CASE ~ \E s \in Syncs : \E f \in sync[s].file : Cascade(s, f)
      <4>1. CASE \E s \in Syncs : StartIncremental(s) \/ StartFull(s) \/ GetStartToken(s)
        BY <1>2, <2>1, <4>1 DEF StartIncremental, StartFull, GetStartToken, SyncState
      <4>2. CASE \E s \in Syncs : \E last \in 0..log : DrainPage(s, last)
        BY <1>2, <2>1, <4>2 DEF DrainPage, SyncState
      <4>3. CASE \E s \in Syncs : \E e \in sync[s].todo :
                     ApplyEdit(s, e) \/ ApplyRemoval(s, e)
        BY <1>2, <2>1, <4>3 DEF ApplyEdit, ApplyRemoval, NextChange, SyncState
      <4>4. CASE \E s \in Syncs : \E f \in sync[s].list : ListFile(s, f)
        BY <1>2, <2>1, <4>4 DEF ListFile, SyncState
      <4>5. CASE \E s \in Syncs : \/ RemoveRow(s) \/ SyncDies(s)
                                  \/ FinishIncremental(s) \/ FinishFull(s)
        BY <1>2, <2>1, <4>5 DEF RemoveRow, SyncDies, FinishIncremental, FinishFull,
                                SyncOver, SyncState
      <4>6. CASE sync' = sync
        BY <1>2, <4>6
      <4>7. QED
        BY <3>1, <3>3, <4>1, <4>2, <4>3, <4>4, <4>5, <4>6, NextCases, WorkerFrame
           DEF DriveChange
    <3>4. QED
      BY <3>2, <3>3
  <2>3. /\ sync'[r].file = sync[r].file /\ sync'[r].gen = doc[f].gen
        /\ sync'[r].sees = ChunksOf(f)
    BY <2>1, <2>2 DEF Cascade, SyncState
  <2>4. QED
    BY <2>2, <2>3 DEF ChunksOf
<1>3. QED
  BY <1>1, <1>2

\* The chunks of a row that a removal does not delete are not touched by it.
LEMMA RemovesOwn ==
    ASSUME CascadeOwn, NEW s \in Syncs, RemoveRow(s), NEW f \in Files,
           f \notin Collected(s)
    PROVE  ChunksOf(f) \subseteq chunks' /\ doc'[f] = doc[f]
<1>1. \A c \in ChunksOf(f) : c \notin sync[s].sees
  BY DEF CascadeOwn, RemoveRow, ChunksOf, Collected
<1>2. QED
  BY <1>1 DEF RemoveRow, ChunksOf

\* The present step is not the one that leaves f in the dark.
NotDark(f) ==
    ChunksOf(f) # {} /\ ChunksOf(f)' = {} /\ doc'[f] # NoDoc =>
        \E s \in Syncs : f \in sync'[s].file

\* A file whose row keeps its key and whose chunks stay is not in the dark.
LEMMA SameKey ==
    ASSUME NEW f \in Files, doc[f] # NoDoc => doc'[f].gen = doc[f].gen,
           TypeOK, ChunksOf(f) \subseteq chunks'
    PROVE  NotDark(f)
<1> SUFFICES ASSUME NEW c \in ChunksOf(f) PROVE c \in ChunksOf(f)'
    BY DEF NotDark
<1>1. c \in chunks /\ c.file = f /\ c.gen = doc[f].gen /\ c.gen # 0
  BY DEF ChunksOf, TypeOK, Chunks
<1>2. doc[f] # NoDoc
  BY <1>1 DEF NoDoc
<1>3. QED
  BY <1>1, <1>2 DEF ChunksOf

\* No step of a worker leaves a file in the dark.
LEMMA WorkerNotDark ==
    ASSUME TypeOK, WorkersHold, SeesOwn, NEW w \in Workers, WorkerStep(w),
           NEW f \in Files
    PROVE  NotDark(f)
<1>1. CASE UNCHANGED <<doc, chunks>>
  BY <1>1, SameKey DEF ChunksOf
<1>2. CASE UpsertRow(w)
  <2>1. FileOf(w) \in Files /\ TaskOf(w).ver \in Nat
    BY <1>2, TaskTyped DEF UpsertRow, Task
  <2>2. Upsert(FileOf(w), TaskOf(w).ver) /\ chunks' = chunks
    BY <1>2 DEF UpsertRow
  <2>3. doc[f] # NoDoc => doc'[f].gen = doc[f].gen
    BY <2>1, <2>2, UpsertTyped
  <2>4. QED
    BY <2>2, <2>3, SameKey DEF ChunksOf
<1>3. CASE MarkStatus(w)
  <2>1. doc'[f].gen = doc[f].gen
    BY <1>3 DEF MarkStatus, TypeOK, Document, NoDoc
  <2>2. QED
    BY <1>3, <2>1, SameKey DEF MarkStatus, ChunksOf
<1>4. CASE SaveExtracted(w)
  <2>1. doc[f] # NoDoc => doc'[f].gen = doc[f].gen
    BY <1>4 DEF SaveExtracted, HoldsRow, TypeOK
  <2>2. QED
    BY <1>4, <2>1, SameKey DEF SaveExtracted, ChunksOf
<1>5. CASE CommitReplace(w)
  <2>1. FileOf(w) \in Files
    BY <1>5, TaskTyped DEF CommitReplace
  <2>2. doc'[f].gen = doc[f].gen
    BY <1>5 DEF CommitReplace, TypeOK, Document, NoDoc
  <2>3. CASE f = FileOf(w)
    <3>1. NewChunks(w) \in chunks'
      BY <1>5 DEF CommitReplace
    <3>2. NewChunks(w).file = f /\ NewChunks(w).gen = doc'[f].gen
      BY <1>5, <2>2, <2>3 DEF CommitReplace, NewChunks, HoldsRow
    <3>3. NewChunks(w) \in ChunksOf(f)'
      BY <3>1, <3>2 DEF ChunksOf
    <3>4. QED
      BY <3>3 DEF NotDark
  <2>4. CASE f # FileOf(w)
    <3>1. \A c \in chunks : c.file = f => c \in chunks'
      BY <1>5, <2>4 DEF CommitReplace, SeesOwn
    <3>2. QED
      BY <2>2, <3>1, SameKey DEF ChunksOf
  <2>5. QED
    BY <2>3, <2>4
<1>6. QED
  BY <1>1, <1>2, <1>3, <1>4, <1>5 DEF WorkerStep, Take, Extract, BeginReplace,
     TaskDies, indexVars

\* No step of Drive or of a sync does, but for the removal of the file.
LEMMA SyncNotDark ==
    ASSUME TypeOK, CascadeOwn, Next, ~ \E w \in Workers : WorkerStep(w), NEW f \in Files
    PROVE  NotDark(f)
<1>1. CASE UNCHANGED <<doc, chunks>>
  BY <1>1, SameKey DEF ChunksOf
<1>2. CASE \E s \in Syncs : \E e \in sync[s].todo : ApplyRemoval(s, e)
  <2>1. PICK s \in Syncs : \E e \in sync[s].todo : ApplyRemoval(s, e)
    BY <1>2
  <2>2. PICK e \in sync[s].todo : ApplyRemoval(s, e)
    BY <2>1
  <2>3. sync'[s].file = {e.file}
    BY <2>2 DEF ApplyRemoval, TypeOK, SyncState
  <2>4. CASE f = e.file
    BY <2>3, <2>4 DEF NotDark
  <2>5. CASE f # e.file
    <3>1. \A c \in chunks : c.file = f => c \in chunks'
      BY <2>2, <2>5 DEF ApplyRemoval, ChunksOf
    <3>2. QED
      BY <2>2, <3>1, SameKey DEF ApplyRemoval, ChunksOf
  <2>6. QED
    BY <2>4, <2>5
<1>3. CASE \E s \in Syncs : RemoveRow(s)
  <2>1. PICK s \in Syncs : RemoveRow(s)
    BY <1>3
  <2>2. CASE f \in Collected(s)
    BY <2>1, <2>2 DEF RemoveRow, NotDark
  <2>3. CASE f \notin Collected(s)
    BY <2>1, <2>3, RemovesOwn, SameKey
  <2>4. QED
    BY <2>2, <2>3
<1>4. CASE \E s \in Syncs : \E g \in sync[s].list : ListFile(s, g)
  <2>1. PICK s \in Syncs : \E g \in sync[s].list : ListFile(s, g)
    BY <1>4
  <2>2. PICK g \in sync[s].list : ListFile(s, g)
    BY <2>1
  <2>3. g \in Files /\ drive[g].ver \in Nat /\ chunks' = chunks
    BY <2>2, SyncNextTyped DEF TypeOK, ListFile
  <2>4. doc' = doc \/ Upsert(g, drive[g].ver)
    BY <2>2 DEF ListFile
  <2>5. doc[f] # NoDoc => doc'[f].gen = doc[f].gen
    BY <2>3, <2>4, UpsertTyped
  <2>6. QED
    BY <2>3, <2>5, SameKey DEF ChunksOf
<1>5. QED
  BY <1>1, <1>2, <1>3, <1>4, NextCases DEF DriveChange, StartIncremental, DrainPage,
     ApplyEdit, Cascade, FinishIncremental, StartFull, GetStartToken, FinishFull,
     SyncDies, indexVars

\* Indexing a file again never takes its text out of the search, whatever tasks
\* overlap, fail or die: only a removal leaves a row without its chunks.
THEOREM ReindexIsNeverDark == Spec => NoDarkReindex
<1>1. Init => SeesOwn /\ CascadeOwn
  BY DEF Init, SeesOwn, CascadeOwn, FreeWorker, SyncOver
<1>2. TypeOK /\ WorkersHold /\ SeesOwn /\ CascadeOwn /\ [Next]_vars =>
        [\A f \in Files : NotDark(f)]_vars
  BY WorkerNotDark, SyncNotDark
<1>3. [\A f \in Files : NotDark(f)]_vars =>
        [\A f \in Files :
            ChunksOf(f) # {} /\ ChunksOf(f)' = {} /\ doc'[f] # NoDoc =>
                \E s \in Syncs : f \in sync'[s].file]_vars
  BY DEF NotDark
<1>4. QED
  BY <1>1, <1>2, <1>3, TypeInit, TypeStep, SeesOwnStep, CascadeOwnStep, PTL
     DEF Spec, NoDarkReindex
-----------------------------------------------------------------------------
(* The index at rest.                                                      *)
(*                                                                         *)
(* QuietIndexIsFresh speaks of the end of a file's story. On the way there  *)
(* a file that is not disturbed has at most one thing under way: a task in  *)
(* the queue, a worker, or a removal. Each of them is on course to leave    *)
(* the file fresh, should it turn out to act upon the file's last change    *)
(* (Caught); when it does not, a later change acts again.                  *)

\* A worker that runs holds exactly one task, a free one holds none.
TaskHeld ==
    \A w \in Workers : /\ worker[w].pc = "free" => worker[w].task = {}
                       /\ worker[w].pc # "free" => worker[w].task = {TaskOf(w)}

\* A file is held only between the two deletes of remove_document.
FileHeld ==
    \A s \in Syncs : sync[s].pc \notin {"removing", "cascading"} => sync[s].file = {}

\* A sync removes one file at a time.
OneFile == \A s \in Syncs : \A f, g \in sync[s].file : f = g

\* A sync knows the newest version of a file as it is.
EntriesTrue ==
    \A s \in Syncs : \A e \in sync[s].todo :
        e.ver = drive[e.file].ver => e.gone = drive[e.file].gone

\* The text of an unsupported file is never extracted.
OnlyMetadata ==
    /\ \A f \in Files \ Supported :
          /\ doc[f] = NoDoc \/ doc[f].status \in {"pending", "skipped"}
          /\ {c \in chunks : c.file = f} = {}
    /\ \A w \in Workers : worker[w].pc # "free" =>
          FileOf(w) \in Supported \/ worker[w].pc \in {"taken", "skipping"}

\* Version ver of f had a text, or had none.
HadText(f, ver) == ver <= drive[f].ver /\ (ver = drive[f].ver => drive[f].empty = FALSE)
HadNone(f, ver) == ver <= drive[f].ver /\ (ver = drive[f].ver => drive[f].empty = TRUE)

\* What the extraction of worker w gave, until its task is over.
FoundText(w) == worker[w].pc \in {"extracted", "embedding", "replacing"}
FoundNone(w) == worker[w].pc = "skipping" /\ FileOf(w) \in Supported

\* Workers know, and the index holds, the texts of the files as they were.
TextsTrue ==
    /\ \A c \in chunks : HadText(c.file, c.ver)
    /\ \A w \in Workers : /\ FoundText(w) => HadText(FileOf(w), worker[w].text)
                          /\ FoundNone(w) => HadNone(FileOf(w), worker[w].text)

\* What is under way for f.
QueuedFor(f)   == {t \in queue : t.file = f}
RunningFor(f)  == {w \in Workers : worker[w].pc # "free" /\ FileOf(w) = f}
RemovingFor(f) == {s \in Syncs : f \in sync[s].file}

\* The last change of f is acted upon.
Caught(f) == applied[f] = drive[f].ver

\* Worker w is about to index its file with what it read, and nobody else
\* changes the row or the chunks of the file.
OnCourse(w) ==
    LET f == FileOf(w) IN
    /\ TaskOf(w).ver = applied[f]
    /\ worker[w].pc # "taken" => HoldsRow(w) /\ doc[f].meta = applied[f]
    /\ f \in Supported => worker[w].pc # "failing"
    /\ FoundText(w) \/ FoundNone(w) => applied[f] <= worker[w].text
    /\ worker[w].pc \in {"embedding", "replacing"} => doc[f].text = worker[w].text
    /\ worker[w].pc = "replacing" => worker[w].sees = ChunksOf(f)

Resting(f) ==
    /\ QueuedFor(f) = {} /\ RunningFor(f) = {} /\ RemovingFor(f) = {}
    /\ Caught(f) => Fresh(f)

Queued(f) ==
    /\ \E t \in queue : QueuedFor(f) = {t} /\ t.ver = applied[f]
    /\ RunningFor(f) = {} /\ RemovingFor(f) = {}
    /\ Caught(f) => ~drive[f].gone

Running(f) ==
    /\ \E w \in Workers : RunningFor(f) = {w} /\ OnCourse(w)
    /\ QueuedFor(f) = {} /\ RemovingFor(f) = {}
    /\ Caught(f) => ~drive[f].gone

Removing(f) ==
    /\ \E s \in Syncs : RemovingFor(f) = {s}
                      /\ (sync[s].pc = "cascading" => sync[s].gen = doc[f].gen)
    /\ QueuedFor(f) = {} /\ RunningFor(f) = {}
    /\ Caught(f) => drive[f].gone

Orderly(f) == Resting(f) \/ Queued(f) \/ Running(f) \/ Removing(f)

Held == /\ TaskHeld /\ FileHeld /\ OneFile
        /\ EntriesTrue /\ OnlyMetadata /\ TextsTrue

IndexInv == /\ Held
            /\ \A f \in Files \ disturbed : Orderly(f)
            /\ \A f \in Files \ orphaned : NothingLeft(f)

Good == IInv /\ SeesOwn /\ CascadeOwn /\ Held

\* A step of a worker is that of one worker.
LEMMA WorkerElse ==
    ASSUME TypeOK, NEW w \in Workers, WorkerStep(w), NEW v \in Workers \ {w}
    PROVE  worker'[v] = worker[v]
  BY DEF TypeOK, WorkerStep, Take, UpsertRow, Extract, MarkStatus, SaveExtracted,
         BeginReplace, CommitReplace, TaskDies, Free

\* Where a worker's step leads, and with which task.
LEMMA WorkerMoves ==
    ASSUME TypeOK, TaskHeld, NEW w \in Workers, WorkerStep(w)
    PROVE  \/ worker'[w] = FreeWorker
           \/ /\ worker[w].pc # "free" /\ worker'[w].pc # "free"
              /\ worker'[w].task = worker[w].task
           \/ /\ worker[w].pc = "free" /\ worker'[w].pc = "taken"
              /\ \E t \in queue : Take(w, t) /\ worker'[w].task = {t}
<1>1. worker \in [Workers -> WorkerState]
  BY DEF TypeOK
<1>2. CASE MarkStatus(w) \/ CommitReplace(w) \/ TaskDies(w)
  BY <1>1, <1>2 DEF MarkStatus, CommitReplace, TaskDies, Free
<1>3. CASE UpsertRow(w) \/ SaveExtracted(w) \/ BeginReplace(w)
  BY <1>1, <1>3 DEF UpsertRow, SaveExtracted, BeginReplace, WorkerState
<1>4. CASE \E outcome \in {"extracted", "failing", "skipping"} : Extract(w, outcome)
  BY <1>1, <1>4 DEF Extract, WorkerState
<1>5. CASE \E t \in queue : Take(w, t)
  <2>1. PICK t \in queue : Take(w, t)
    BY <1>5
  <2>2. worker'[w].pc = "taken" /\ worker'[w].task = {t} /\ worker[w].pc = "free"
    BY <1>1, <2>1 DEF Take, WorkerState
  <2>3. QED
    BY <2>1, <2>2
<1>6. QED
  BY <1>2, <1>3, <1>4, <1>5 DEF WorkerStep

\* Workers hold one task each after every step.
LEMMA TaskHeldStep ==
    ASSUME TypeOK, TaskHeld, Next PROVE TaskHeld'
<1>1. CASE ~ \E w \in Workers : WorkerStep(w)
  BY <1>1, SyncTypes DEF TaskHeld, TaskOf
<1>2. ASSUME NEW w \in Workers, WorkerStep(w) PROVE TaskHeld'
  <2> SUFFICES ASSUME NEW v \in Workers
               PROVE  /\ worker'[v].pc = "free" => worker'[v].task = {}
                      /\ worker'[v].pc # "free" => worker'[v].task = {TaskOf(v)'}
    BY DEF TaskHeld
  <2>1. CASE worker'[v].task = worker[v].task
             /\ (worker'[v].pc = "free" <=> worker[v].pc = "free")
    BY <2>1 DEF TaskHeld, TaskOf
  <2>2. CASE worker'[v] = FreeWorker
    BY <2>2 DEF FreeWorker
  <2>3. CASE worker'[v].pc = "taken" /\ \E t \in queue : worker'[v].task = {t}
    BY <2>3 DEF TaskOf
  <2>4. v # w => worker'[v] = worker[v]
    BY <1>2, WorkerElse
  <2>5. QED
    BY <1>2, <2>1, <2>2, <2>3, <2>4, WorkerMoves
<1>3. QED
  BY <1>1, <1>2

\* Only a removal holds a file, and it lets go of it when it is over.
LEMMA FileHeldStep ==
    ASSUME TypeOK, FileHeld, Next PROVE FileHeld'
<1>1. sync \in [Syncs -> SyncState]
  BY DEF TypeOK
<1> SUFFICES ASSUME NEW r \in Syncs, sync'[r].pc \notin {"removing", "cascading"}
             PROVE  sync'[r].file = {}
    BY DEF FileHeld
<1>2. CASE sync' = sync
  BY <1>2 DEF FileHeld
<1>3. CASE \E s \in Syncs : StartIncremental(s) \/ StartFull(s) \/ GetStartToken(s)
  BY <1>1, <1>3 DEF FileHeld, StartIncremental, StartFull, GetStartToken, SyncState
<1>4. CASE \E s \in Syncs : \E last \in 0..log : DrainPage(s, last)
  BY <1>1, <1>4 DEF FileHeld, DrainPage, SyncState
<1>5. CASE \E s \in Syncs : \E e \in sync[s].todo : ApplyEdit(s, e) \/ ApplyRemoval(s, e)
  BY <1>1, <1>5 DEF FileHeld, ApplyEdit, ApplyRemoval, NextChange, SyncState
<1>6. CASE \E s \in Syncs : \E f \in sync[s].list : ListFile(s, f)
  BY <1>1, <1>6 DEF FileHeld, ListFile, SyncState
<1>7. CASE \E s \in Syncs : \/ RemoveRow(s) \/ SyncDies(s)
                            \/ FinishIncremental(s) \/ FinishFull(s)
  BY <1>1, <1>7 DEF FileHeld, RemoveRow, SyncDies, FinishIncremental, FinishFull,
                    SyncOver, SyncState
<1>9. CASE \E s \in Syncs : \E f \in sync[s].file : Cascade(s, f)
  <2>1. PICK s \in Syncs : \E f \in sync[s].file : Cascade(s, f)
    BY <1>9
  <2>2. PICK f \in sync[s].file : Cascade(s, f)
    BY <2>1
  <2>3. sync'[s].pc = "cascading" /\ \A o \in Syncs \ {s} : sync'[o] = sync[o]
    BY <1>1, <2>2 DEF Cascade, SyncState
  <2>4. QED
    BY <2>3 DEF FileHeld
<1>8. QED
  BY <1>2, <1>3, <1>4, <1>5, <1>6, <1>7, <1>9, NextCases, WorkerFrame DEF DriveChange

\* A removal takes on a file only when it has none.
LEMMA OneFileStep ==
    ASSUME TypeOK, OneFile, Next PROVE OneFile'
<1>1. sync \in [Syncs -> SyncState]
  BY DEF TypeOK
<1>2. ASSUME NEW r \in Syncs
      PROVE  sync'[r].file \subseteq sync[r].file \/ \E g : sync'[r].file = {g}
  <2>1. CASE sync' = sync
    BY <2>1
  <2>2. CASE \E s \in Syncs : StartIncremental(s) \/ StartFull(s) \/ GetStartToken(s)
    BY <1>1, <2>2 DEF StartIncremental, StartFull, GetStartToken, SyncState
  <2>3. CASE \E s \in Syncs : \E last \in 0..log : DrainPage(s, last)
    BY <1>1, <2>3 DEF DrainPage, SyncState
  <2>4. CASE \E s \in Syncs : \E e \in sync[s].todo : ApplyEdit(s, e) \/ ApplyRemoval(s, e)
    BY <1>1, <2>4 DEF ApplyEdit, ApplyRemoval, SyncState
  <2>5. CASE \E s \in Syncs : \E f \in sync[s].file : Cascade(s, f)
    <3>1. PICK s \in Syncs : \E f \in sync[s].file : Cascade(s, f)
      BY <2>5
    <3>2. PICK f \in sync[s].file : Cascade(s, f)
      BY <3>1
    <3>3. sync'[r].file = sync[r].file
      BY <1>1, <3>2 DEF Cascade, SyncState
    <3>4. QED
      BY <3>3
  <2>6. CASE \E s \in Syncs : \E f \in sync[s].list : ListFile(s, f)
    BY <1>1, <2>6 DEF ListFile, SyncState
  <2>7. CASE \E s \in Syncs : \/ RemoveRow(s) \/ SyncDies(s)
                              \/ FinishIncremental(s) \/ FinishFull(s)
    BY <1>1, <2>7 DEF RemoveRow, SyncDies, FinishIncremental, FinishFull, SyncOver,
                      SyncState
  <2>8. QED
    BY <2>1, <2>2, <2>3, <2>4, <2>5, <2>6, <2>7, NextCases, WorkerFrame
       DEF DriveChange
<1>3. QED
  BY <1>2 DEF OneFile

\* What syncs have drained stays true: a newer change has a newer version.
LEMMA EntriesTrueStep ==
    ASSUME IInv, EntriesTrue, Next PROVE EntriesTrue'
<1>1. sync \in [Syncs -> SyncState] /\ log \in Nat /\ TypeOK
  BY DEF IInv, TypeOK
<1> SUFFICES ASSUME NEW r \in Syncs, NEW e \in sync'[r].todo,
                    e.ver = drive'[e.file].ver
             PROVE  e.gone = drive'[e.file].gone
    BY DEF EntriesTrue
<1>2. ASSUME drive' = drive, sync'[r].todo \subseteq sync[r].todo
      PROVE  e.gone = drive'[e.file].gone
  BY <1>2 DEF EntriesTrue
<1>3. CASE \E f \in Files, gone, empty \in BOOLEAN :
                  DriveChange(f, gone, empty)
  <2>1. PICK f \in Files, gone, empty \in BOOLEAN :
                  DriveChange(f, gone, empty)
    BY <1>3
  <2>2. sync' = sync /\ e \in sync[r].todo
    BY <2>1 DEF DriveChange
  <2>3. /\ e.file \in Files /\ e.ver \in Nat
        /\ e.ver <= drive[e.file].ver /\ drive[e.file].ver <= log
        /\ drive[e.file].ver \in Nat
    BY <1>1, <2>2, SyncNextTyped DEF IInv, LogOrdered, Entry, TypeOK
  <2>4. e.file # f
    <3>1. drive'[f].ver = log + 1
      BY <1>1, <2>1 DEF DriveChange, TypeOK
    <3>2. QED
      BY <1>1, <2>3, <3>1
  <2>5. drive'[e.file] = drive[e.file]
    BY <1>1, <2>1, <2>3, <2>4 DEF DriveChange, TypeOK
  <2>6. QED
    BY <2>2, <2>5 DEF EntriesTrue
<1>4. CASE \E s \in Syncs : StartIncremental(s) \/ StartFull(s) \/ GetStartToken(s)
  BY <1>1, <1>2, <1>4 DEF StartIncremental, StartFull, GetStartToken, SyncState,
                          driveVars
<1>5. CASE \E s \in Syncs : \E last \in 0..log : DrainPage(s, last)
  <2>1. PICK s \in Syncs : \E last \in 0..log : DrainPage(s, last)
    BY <1>5
  <2>2. PICK last \in 0..log : DrainPage(s, last)
    BY <2>1
  <2>3. drive' = drive
    BY <2>2 DEF DrainPage, driveVars
  <2>4. e \in sync[r].todo \/ e \in PageOfChanges(sync[s].next, last)
    BY <1>1, <2>2 DEF DrainPage, SyncState
  <2>5. CASE e \in sync[r].todo
    BY <2>3, <2>5 DEF EntriesTrue
  <2>6. CASE e \in PageOfChanges(sync[s].next, last)
    <3>1. PICK g \in Files : e = Seen(g)
      BY <2>6 DEF PageOfChanges
    <3>2. QED
      BY <1>1, <2>3, <3>1, SeenTyped
  <2>7. QED
    BY <2>4, <2>5, <2>6
<1>6. CASE \E s \in Syncs : \E f \in sync[s].todo : ApplyEdit(s, f) \/ ApplyRemoval(s, f)
  BY <1>1, <1>2, <1>6 DEF ApplyEdit, ApplyRemoval, SyncState, driveVars
<1>7. CASE \E s \in Syncs : \E f \in sync[s].list : ListFile(s, f)
  BY <1>1, <1>2, <1>7 DEF ListFile, SyncState, driveVars
<1>8. CASE \E s \in Syncs : \/ RemoveRow(s) \/ SyncDies(s)
                            \/ FinishIncremental(s) \/ FinishFull(s)
  BY <1>1, <1>2, <1>8 DEF RemoveRow, SyncDies, FinishIncremental, FinishFull,
                          SyncOver, SyncState, driveVars
<1>11. CASE \E s \in Syncs : \E f \in sync[s].file : Cascade(s, f)
  <2>1. PICK s \in Syncs : \E f \in sync[s].file : Cascade(s, f)
    BY <1>11
  <2>2. PICK f \in sync[s].file : Cascade(s, f)
    BY <2>1
  <2>3. sync'[r].todo = sync[r].todo /\ drive' = drive
    BY <1>1, <2>2 DEF Cascade, SyncState, driveVars
  <2>4. QED
    BY <1>2, <2>3
<1>9. CASE \E w \in Workers : WorkerStep(w)
  BY <1>2, <1>9, WorkerFrame DEF driveVars
<1>10. QED
  BY <1>3, <1>4, <1>5, <1>6, <1>7, <1>8, <1>9, <1>11, NextCases

\* The index of the unsupported files holds rows only, of two statuses.
MetadataOf(f) ==
    /\ doc[f] = NoDoc \/ doc[f].status \in {"pending", "skipped"}
    /\ {c \in chunks : c.file = f} = {}

\* An upsert makes a pending row or keeps the status of the row.
LEMMA UpsertStatus ==
    ASSUME TypeOK, NEW f \in Files, NEW ver \in Nat, Upsert(f, ver),
           doc[f] = NoDoc \/ doc[f].status \in {"pending", "skipped"}
    PROVE  doc'[f].status \in {"pending", "skipped"} /\ doc'[f] # NoDoc
<1>1. doc'[f] = Upserted(f, ver)
  BY DEF Upsert, TypeOK
<1>2. Upserted(f, ver).status \in {"pending", "skipped"}
  BY DEF Upserted, TypeOK, Document
<1>3. QED
  BY <1>1, <1>2 DEF NoDoc

\* A step of a worker treats an unsupported file as such.
LEMMA WorkerMetadata ==
    ASSUME TypeOK, WorkersHold, TaskHeld, OnlyMetadata,
           NEW w \in Workers, WorkerStep(w)
    PROVE  OnlyMetadata'
<1>1. ASSUME NEW f \in Files \ Supported PROVE MetadataOf(f)'
  <2>1. MetadataOf(f)
    BY DEF OnlyMetadata, MetadataOf
  <2>2. CASE UpsertRow(w)
    <3>1. FileOf(w) \in Files /\ TaskOf(w).ver \in Nat
      BY <2>2, TaskTyped DEF UpsertRow, Task
    <3>2. Upsert(FileOf(w), TaskOf(w).ver) /\ chunks' = chunks
      BY <2>2 DEF UpsertRow
    <3>3. QED
      BY <2>1, <3>1, <3>2, UpsertTyped, UpsertStatus DEF MetadataOf
  <2>3. CASE MarkStatus(w)
    <3>1. FileOf(w) = f => worker[w].pc = "skipping"
      BY <2>3 DEF MarkStatus, OnlyMetadata
    <3>2. chunks' = chunks
          /\ (doc'[f] = doc[f] \/ (FileOf(w) = f /\ doc'[f].status = "skipped"))
      BY <2>3, <3>1 DEF MarkStatus, TypeOK, Document, NoDoc
    <3>3. QED
      BY <2>1, <3>2 DEF MetadataOf
  <2>4. CASE SaveExtracted(w)
    <3>1. FileOf(w) # f
      BY <2>4 DEF SaveExtracted, OnlyMetadata
    <3>2. doc'[f] = doc[f] /\ chunks' = chunks
      BY <2>4, <3>1 DEF SaveExtracted, TypeOK
    <3>3. QED
      BY <2>1, <3>2 DEF MetadataOf
  <2>5. CASE CommitReplace(w)
    <3>1. FileOf(w) # f
      BY <2>5 DEF CommitReplace, OnlyMetadata
    <3>2. doc'[f] = doc[f] /\ chunks' \subseteq chunks \cup {NewChunks(w)}
      BY <2>5, <3>1 DEF CommitReplace, TypeOK
    <3>3. NewChunks(w).file # f
      BY <3>1 DEF NewChunks
    <3>4. QED
      BY <2>1, <3>2, <3>3 DEF MetadataOf
  <2>6. CASE UNCHANGED <<doc, chunks>>
    BY <2>1, <2>6 DEF MetadataOf
  <2>7. QED
    BY <2>2, <2>3, <2>4, <2>5, <2>6 DEF WorkerStep, Take, Extract, BeginReplace,
       TaskDies, indexVars
<1>2. ASSUME NEW v \in Workers, worker'[v].pc # "free"
      PROVE  FileOf(v)' \in Supported \/ worker'[v].pc \in {"taken", "skipping"}
  <2>1. CASE worker'[v] = worker[v]
    BY <1>2, <2>1 DEF OnlyMetadata, FileOf, TaskOf
  <2>2. CASE worker'[v].pc = "taken"
    BY <2>2
  <2>3. CASE v = w /\ worker[w].pc # "free" /\ worker'[w].task = worker[w].task
    <3>1. FileOf(v)' = FileOf(v)
      BY <2>3 DEF FileOf, TaskOf
    <3>2. FileOf(v) \in Supported \/ worker[v].pc \in {"taken", "skipping"}
      BY <2>3 DEF OnlyMetadata
    <3>3. worker \in [Workers -> WorkerState]
      BY DEF TypeOK
    <3>4. FileOf(v) \in Supported \/ worker'[v].pc \in {"free", "skipping"}
      BY <2>3, <3>2, <3>3 DEF WorkerStep, Take, UpsertRow, Extract, MarkStatus,
         SaveExtracted, BeginReplace, CommitReplace, TaskDies, Free, FreeWorker,
         WorkerState
    <3>5. QED
      BY <1>2, <3>1, <3>4
  <2>4. QED
    BY <1>2, <2>1, <2>2, <2>3, WorkerElse, WorkerMoves DEF FreeWorker
<1>3. QED
  BY <1>1, <1>2 DEF OnlyMetadata, MetadataOf

\* So does a step of Drive or of a sync.
LEMMA SyncMetadata ==
    ASSUME TypeOK, OnlyMetadata, Next, ~ \E w \in Workers : WorkerStep(w)
    PROVE  OnlyMetadata'
<1>1. worker' = worker
  BY SyncTypes
<1>2. ASSUME NEW f \in Files \ Supported PROVE MetadataOf(f)'
  <2>1. MetadataOf(f)
    BY DEF OnlyMetadata, MetadataOf
  <2>2. CASE \E s \in Syncs : \E g \in sync[s].list : ListFile(s, g)
    <3>1. PICK s \in Syncs : \E g \in sync[s].list : ListFile(s, g)
      BY <2>2
    <3>2. PICK g \in sync[s].list : ListFile(s, g)
      BY <3>1
    <3>3. g \in Files /\ drive[g].ver \in Nat /\ chunks' = chunks
      BY <3>2, SyncNextTyped DEF TypeOK, ListFile
    <3>4. doc' = doc \/ Upsert(g, drive[g].ver)
      BY <3>2 DEF ListFile
    <3>5. QED
      BY <2>1, <3>3, <3>4, UpsertTyped, UpsertStatus DEF MetadataOf
  <2>3. CASE chunks' \subseteq chunks /\ doc'[f] \in {doc[f], NoDoc}
    BY <2>1, <2>3 DEF MetadataOf
  <2>4. CASE \E s \in Syncs : RemoveRow(s)
    BY <2>3, <2>4 DEF RemoveRow
  <2>5. CASE \E s \in Syncs : \E e \in sync[s].todo : ApplyRemoval(s, e)
    BY <2>3, <2>5 DEF ApplyRemoval
  <2>6. QED
    BY <2>2, <2>3, <2>4, <2>5, NextCases DEF DriveChange, StartIncremental, DrainPage,
       ApplyEdit, Cascade, FinishIncremental, StartFull, GetStartToken, FinishFull, SyncDies,
       indexVars
<1>3. QED
  BY <1>1, <1>2 DEF OnlyMetadata, MetadataOf, FileOf, TaskOf

\* What a worker holds of its file is true of the file, under any names.
LEMMA TextAt ==
    ASSUME TextsTrue, NEW w \in Workers, NEW f, NEW ver,
           f = FileOf(w), ver = worker[w].text
    PROVE  /\ FoundText(w) => HadText(f, ver)
           /\ FoundNone(w) => HadNone(f, ver)
<1>1. FoundText(w) => HadText(FileOf(w), worker[w].text)
  BY Zenon DEF TextsTrue
<1>2. FoundNone(w) => HadNone(FileOf(w), worker[w].text)
  BY Zenon DEF TextsTrue
<1>3. FoundText(w) => HadText(f, ver)
  BY <1>1 DEF HadText
<1>4. FoundNone(w) => HadNone(f, ver)
  BY <1>2 DEF HadNone
<1>5. QED
  BY <1>3, <1>4

\* A newer change has a newer version: what was read stays true.
LEMMA DriveTexts ==
    ASSUME IInv, TaskHeld, TextsTrue, NEW g \in Files, NEW gone \in BOOLEAN,
           NEW empty \in BOOLEAN, DriveChange(g, gone, empty)
    PROVE  TextsTrue'
<1>1. TypeOK /\ LogOrdered /\ WorkersHold
  BY DEF IInv
<1>2. chunks' = chunks /\ worker' = worker
  BY DEF DriveChange, indexVars
<1>3. ASSUME NEW f \in Files, NEW ver \in Nat
      PROVE  /\ HadText(f, ver) => HadText(f, ver)'
             /\ HadNone(f, ver) => HadNone(f, ver)'
  <2>1. drive[f].ver \in Nat /\ log \in Nat /\ drive[f].ver <= log
    BY <1>1 DEF TypeOK, LogOrdered
  <2>2. drive'[f] = drive[f] \/ drive'[f].ver = log + 1
    BY <1>1 DEF DriveChange, TypeOK
  <2>3. CASE drive'[f] = drive[f]
    BY <2>3 DEF HadText, HadNone
  <2>4. CASE drive'[f].ver = log + 1
    <3>1. ver <= drive[f].ver => ver <= drive'[f].ver /\ ver # drive'[f].ver
      BY <2>1, <2>4
    <3>2. QED
      BY <3>1 DEF HadText, HadNone
  <2>5. QED
    BY <2>2, <2>3, <2>4
<1>4. \A c \in chunks : c.file \in Files /\ c.ver \in Nat
  BY <1>1 DEF TypeOK, Chunks
<1>5. \A w \in Workers : /\ worker[w].pc # "free" => FileOf(w) \in Files
                         /\ worker[w].text \in Nat
  BY <1>1, TaskTyped DEF TypeOK, WorkerState
<1>6. \A w \in Workers : /\ FileOf(w)' = FileOf(w)
                         /\ (FoundText(w)' <=> FoundText(w))
                         /\ (FoundNone(w)' <=> FoundNone(w))
  BY <1>2 DEF FileOf, TaskOf, FoundText, FoundNone
<1>7. \A c \in chunks' : HadText(c.file, c.ver)'
  BY <1>2, <1>3, <1>4 DEF TextsTrue
<1>8. ASSUME NEW w \in Workers
      PROVE  /\ FoundText(w)' => HadText(FileOf(w), worker[w].text)'
             /\ FoundNone(w)' => HadNone(FileOf(w), worker[w].text)'
  <2>1. PICK f : f = FileOf(w)
    OBVIOUS
  <2>2. PICK ver : ver = worker[w].text
    OBVIOUS
  <2>3. FoundText(w) \/ FoundNone(w) => f \in Files /\ ver \in Nat
    BY <1>5, <2>1, <2>2 DEF FoundText, FoundNone
  <2>4. FileOf(w)' = f /\ worker'[w].text = ver
    BY <1>2, <1>6, <2>1, <2>2
  <2>5. CASE FoundText(w)
    <3>1. HadText(f, ver)
      BY <2>1, <2>2, <2>5, TextAt
    <3>2. HadText(f, ver)'
      BY <1>3, <2>3, <2>5, <3>1
    <3>3. ~FoundNone(w)
      BY <2>5 DEF FoundText, FoundNone
    <3>4. QED
      BY <1>6, <2>4, <3>2, <3>3 DEF HadText
  <2>6. CASE FoundNone(w)
    <3>1. HadNone(f, ver)
      BY <2>1, <2>2, <2>6, TextAt
    <3>2. HadNone(f, ver)'
      BY <1>3, <2>3, <2>6, <3>1
    <3>3. ~FoundText(w)
      BY <2>6 DEF FoundText, FoundNone
    <3>4. QED
      BY <1>6, <2>4, <3>2, <3>3 DEF HadNone
  <2>7. QED
    BY <1>6, <2>5, <2>6
<1>9. QED
  BY <1>7, <1>8 DEF TextsTrue

\* A worker writes down what it read of the file.
LEMMA WorkerTexts ==
    ASSUME TypeOK, WorkersHold, TaskHeld, TextsTrue, NEW w \in Workers, WorkerStep(w)
    PROVE  TextsTrue'
<1>1. drive' = drive /\ worker \in [Workers -> WorkerState]
  BY WorkerFrame DEF driveVars, TypeOK
<1>2. \A v \in Workers \ {w} : worker'[v] = worker[v]
  BY WorkerElse
<1>3. \A f, ver : /\ (HadText(f, ver)' <=> HadText(f, ver))
                  /\ (HadNone(f, ver)' <=> HadNone(f, ver))
  BY <1>1 DEF HadText, HadNone
<1>4. ASSUME NEW c \in chunks' PROVE HadText(c.file, c.ver)
  <2>1. CASE c \in chunks
    BY <2>1 DEF TextsTrue
  <2>2. CASE c \notin chunks
    <3>1. CommitReplace(w)
      BY <2>2 DEF WorkerStep, Take, UpsertRow, Extract, MarkStatus, SaveExtracted,
         BeginReplace, CommitReplace, TaskDies, indexVars
    <3>2. c = NewChunks(w) /\ FoundText(w)
      BY <2>2, <3>1 DEF CommitReplace, FoundText
    <3>3. c.file = FileOf(w) /\ c.ver = worker[w].text
      BY <3>2 DEF NewChunks
    <3>4. QED
      BY <3>2, <3>3 DEF TextsTrue, HadText
  <2>3. QED
    BY <2>1, <2>2
<1>5. ASSUME NEW v \in Workers
      PROVE  /\ FoundText(v)' => HadText(FileOf(v)', worker'[v].text)
             /\ FoundNone(v)' => HadNone(FileOf(v)', worker'[v].text)
  <2>1. CASE worker'[v] = worker[v]
    BY <2>1 DEF TextsTrue, HadText, HadNone, FoundText, FoundNone, FileOf, TaskOf
  <2>2. CASE v = w /\ \E outcome \in {"extracted", "failing", "skipping"} :
                       Extract(w, outcome)
    <3>1. PICK outcome \in {"extracted", "failing", "skipping"} : Extract(w, outcome)
      BY <2>2
    <3>2. /\ worker'[w].pc = outcome /\ worker'[w].text = drive[FileOf(w)].ver
          /\ worker'[w].task = worker[w].task
      BY <1>1, <3>1 DEF Extract, WorkerState
    <3>3. FileOf(w)' = FileOf(w)
      BY <3>2 DEF FileOf, TaskOf
    <3>4. /\ drive[FileOf(w)].ver \in Nat
          /\ drive[FileOf(w)].empty \in BOOLEAN
      <4>1. FileOf(w) \in Files
        BY <3>1, TaskTyped DEF Extract
      <4>2. QED
        BY <4>1 DEF TypeOK
    <3>5. /\ outcome = "extracted" => ~drive[FileOf(w)].empty
          /\ outcome = "skipping" => drive[FileOf(w)].empty
      BY <3>1, Zenon DEF Extract
    <3>6. /\ outcome = "extracted" => HadText(FileOf(w), drive[FileOf(w)].ver)
          /\ outcome = "skipping" => HadNone(FileOf(w), drive[FileOf(w)].ver)
      <4>1. drive[FileOf(w)].ver <= drive[FileOf(w)].ver
        BY <3>4
      <4>2. QED
        BY <3>5, <4>1 DEF HadText, HadNone
    <3>7. /\ FoundText(w)' => outcome = "extracted"
          /\ FoundNone(w)' => outcome = "skipping"
      BY <3>2 DEF FoundText, FoundNone
    <3>8. QED
      BY <2>2, <3>2, <3>3, <3>6, <3>7
  <2>3. CASE v = w /\ (SaveExtracted(w) \/ BeginReplace(w))
    <3>1. /\ FoundText(w) /\ worker'[w].pc \in {"embedding", "replacing"}
          /\ worker'[w].text = worker[w].text /\ worker'[w].task = worker[w].task
      BY <1>1, <2>3 DEF SaveExtracted, BeginReplace, FoundText, WorkerState
    <3>2. FileOf(w)' = FileOf(w)
      BY <3>1 DEF FileOf, TaskOf
    <3>3. ~FoundNone(w)'
      BY <3>1 DEF FoundNone
    <3>4. QED
      BY <2>3, <3>1, <3>2, <3>3 DEF TextsTrue, HadText
  <2>4. CASE v = w /\ UpsertRow(w)
    <3>1. /\ worker'[w].pc = IF FileOf(w) \in Supported THEN "upserted" ELSE "skipping"
          /\ worker'[w].task = worker[w].task
      BY <1>1, <2>4 DEF UpsertRow, WorkerState
    <3>2. FileOf(w)' = FileOf(w)
      BY <3>1 DEF FileOf, TaskOf
    <3>3. QED
      BY <2>4, <3>1, <3>2 DEF FoundText, FoundNone
  <2>5. CASE v = w /\ worker'[w].pc \in {"free", "taken"}
    BY <2>5 DEF FoundText, FoundNone
  <2>6. MarkStatus(w) \/ CommitReplace(w) \/ TaskDies(w) \/ (\E t \in queue : Take(w, t))
          => worker'[w].pc \in {"free", "taken"}
    BY <1>1 DEF MarkStatus, CommitReplace, TaskDies, Take, Free, FreeWorker, WorkerState
  <2>7. QED
    BY <1>2, <2>1, <2>2, <2>3, <2>4, <2>5, <2>6 DEF WorkerStep
<1>6. \A c \in chunks' : HadText(c.file, c.ver)'
  BY <1>3, <1>4
<1>7. ASSUME NEW v \in Workers
      PROVE  /\ FoundText(v)' => HadText(FileOf(v), worker[v].text)'
             /\ FoundNone(v)' => HadNone(FileOf(v), worker[v].text)'
  BY <1>1, <1>5 DEF HadText, HadNone
<1>8. QED
  BY <1>6, <1>7 DEF TextsTrue

\* A sync reads no text and only removes chunks.
LEMMA SyncTexts ==
    ASSUME TypeOK, TextsTrue, Next, ~ \E w \in Workers : WorkerStep(w),
           ~ \E f \in Files, gone, empty \in BOOLEAN : DriveChange(f, gone, empty)
    PROVE  TextsTrue'
<1>1. worker' = worker
  BY SyncTypes
<1>2. drive' = drive /\ chunks' \subseteq chunks
  BY NextCases DEF StartIncremental, DrainPage, ApplyEdit, ApplyRemoval, Cascade,
     RemoveRow, FinishIncremental, StartFull, GetStartToken, ListFile, FinishFull,
     SyncDies, driveVars, indexVars
<1>3. QED
  BY <1>1, <1>2 DEF TextsTrue, HadText, HadNone, FoundText, FoundNone, FileOf, TaskOf

\* So the texts are true after every step.
LEMMA TextsTrueStep ==
    ASSUME IInv, TaskHeld, TextsTrue, Next PROVE TextsTrue'
<1>1. TypeOK /\ WorkersHold
  BY DEF IInv
<1>2. QED
  BY <1>1, DriveTexts, WorkerTexts, SyncTexts

\* What a file, a task and an entry are held for, after every step.
LEMMA HeldStep == IInv /\ Held /\ [Next]_vars => Held'
<1> SUFFICES ASSUME IInv, Held, [Next]_vars PROVE Held'
    OBVIOUS
<1>1. /\ TypeOK /\ WorkersHold /\ TaskHeld /\ FileHeld /\ OneFile /\ EntriesTrue
      /\ OnlyMetadata /\ TextsTrue
  BY DEF IInv, Held
<1>2. CASE Next
  BY <1>1, <1>2, TaskHeldStep, FileHeldStep, OneFileStep, EntriesTrueStep, WorkerMetadata,
     SyncMetadata, TextsTrueStep DEF Held
<1>3. CASE UNCHANGED vars
  BY <1>3 DEF Held, TaskHeld, FileHeld, OneFile, EntriesTrue, OnlyMetadata, TextsTrue,
              HadText, HadNone,
              FoundText, FoundNone, TaskOf, FileOf, vars
<1>4. QED
  BY <1>2, <1>3

-----------------------------------------------------------------------------
(* Chunks without their row.                                               *)

\* While the row of a file keeps its key and no chunks are added, none are left
\* over. A file without a row has none that could be.
LEMMA NoneLeftOver ==
    ASSUME TypeOK, NEW f \in Files, NothingLeft(f),
           doc[f] # NoDoc => doc'[f].gen = doc[f].gen,
           \A c \in chunks' : c.file = f => c \in chunks
    PROVE  NothingLeft(f)'
<1> SUFFICES ASSUME NEW c \in chunks', c.file = f PROVE c.gen = doc'[f].gen
    BY DEF NothingLeft, ChunksOf
<1>1. c \in chunks /\ c.gen = doc[f].gen /\ c.gen # 0
  BY DEF NothingLeft, ChunksOf, TypeOK, Chunks
<1>2. doc[f] # NoDoc
  BY <1>1 DEF NoDoc
<1>3. QED
  BY <1>1, <1>2

\* A worker writes chunks only under the key its row has.
LEMMA WorkerLeavesNone ==
    ASSUME TypeOK, WorkersHold, NEW w \in Workers, WorkerStep(w),
           NEW f \in Files, NothingLeft(f)
    PROVE  NothingLeft(f)'
<1>1. CASE UNCHANGED <<doc, chunks>>
  BY <1>1, NoneLeftOver
<1>2. CASE UpsertRow(w)
  <2>1. FileOf(w) \in Files /\ TaskOf(w).ver \in Nat
    BY <1>2, TaskTyped DEF UpsertRow, Task
  <2>2. Upsert(FileOf(w), TaskOf(w).ver) /\ chunks' = chunks
    BY <1>2 DEF UpsertRow
  <2>3. doc[f] # NoDoc => doc'[f].gen = doc[f].gen
    BY <2>1, <2>2, UpsertTyped
  <2>4. QED
    BY <2>2, <2>3, NoneLeftOver
<1>3. CASE MarkStatus(w)
  <2>1. doc'[f].gen = doc[f].gen
    BY <1>3 DEF MarkStatus, TypeOK, Document, NoDoc
  <2>2. QED
    BY <1>3, <2>1, NoneLeftOver DEF MarkStatus
<1>4. CASE SaveExtracted(w)
  <2>1. doc[f] # NoDoc => doc'[f].gen = doc[f].gen
    BY <1>4 DEF SaveExtracted, HoldsRow, TypeOK
  <2>2. QED
    BY <1>4, <2>1, NoneLeftOver DEF SaveExtracted
<1>5. CASE CommitReplace(w)
  <2>1. doc'[f].gen = doc[f].gen
    BY <1>5 DEF CommitReplace, TypeOK, Document, NoDoc
  <2>2. HoldsRow(w) /\ chunks' \subseteq chunks \cup {NewChunks(w)}
    BY <1>5 DEF CommitReplace
  <2>3. NewChunks(w).file = f => NewChunks(w).gen = doc[f].gen
    BY <2>2 DEF NewChunks, HoldsRow
  <2>4. QED
    BY <2>1, <2>2, <2>3 DEF NothingLeft, ChunksOf
<1>6. QED
  BY <1>1, <1>2, <1>3, <1>4, <1>5 DEF WorkerStep, Take, Extract, BeginReplace,
     TaskDies, indexVars

\* A removal that finds chunks of the row it deletes is on record, and no other
\* step of a sync moves a row from its chunks.
LEMMA SyncLeavesNone ==
    ASSUME TypeOK, CascadeOwn, Next, ~ \E w \in Workers : WorkerStep(w),
           NEW f \in Files, f \notin orphaned', NothingLeft(f)
    PROVE  NothingLeft(f)'
<1>1. CASE UNCHANGED <<doc, chunks>>
  BY <1>1, NoneLeftOver
<1>2. CASE \E s \in Syncs : \E e \in sync[s].todo : ApplyRemoval(s, e)
  BY <1>2, NoneLeftOver DEF ApplyRemoval
<1>3. CASE \E s \in Syncs : RemoveRow(s)
  <2>1. PICK s \in Syncs : RemoveRow(s)
    BY <1>3
  <2>2. CASE f \in Collected(s)
    <3>1. ChunksOf(f) \subseteq sync[s].sees
      BY <2>1, <2>2 DEF RemoveRow
    <3>2. {c \in chunks' : c.file = f} = {}
      BY <2>1, <3>1 DEF RemoveRow, NothingLeft
    <3>3. QED
      BY <3>2 DEF NothingLeft
  <2>3. CASE f \notin Collected(s)
    BY <2>1, <2>3, NoneLeftOver, RemovesOwn DEF RemoveRow
  <2>4. QED
    BY <2>2, <2>3
<1>4. CASE \E s \in Syncs : \E g \in sync[s].list : ListFile(s, g)
  <2>1. PICK s \in Syncs : \E g \in sync[s].list : ListFile(s, g)
    BY <1>4
  <2>2. PICK g \in sync[s].list : ListFile(s, g)
    BY <2>1
  <2>3. g \in Files /\ drive[g].ver \in Nat /\ chunks' = chunks
    BY <2>2, SyncNextTyped DEF TypeOK, ListFile
  <2>4. doc' = doc \/ Upsert(g, drive[g].ver)
    BY <2>2 DEF ListFile
  <2>5. doc[f] # NoDoc => doc'[f].gen = doc[f].gen
    BY <2>3, <2>4, UpsertTyped
  <2>6. QED
    BY <2>3, <2>5, NoneLeftOver
<1>5. QED
  BY <1>1, <1>2, <1>3, <1>4, NextCases DEF DriveChange, StartIncremental, DrainPage,
     ApplyEdit, Cascade, FinishIncremental, StartFull, GetStartToken, FinishFull, SyncDies,
     indexVars

\* A file once on record as orphaned stays on record.
LEMMA OrphanedGrows ==
    ASSUME TypeOK, Next PROVE orphaned \subseteq orphaned'
  BY NextCases DEF DriveChange, StartIncremental, DrainPage, ApplyEdit, ApplyRemoval,
     RemoveRow, Cascade, FinishIncremental, StartFull, GetStartToken, ListFile, FinishFull,
     SyncDies, WorkerStep, Take, UpsertRow, Extract, MarkStatus, SaveExtracted,
     BeginReplace, CommitReplace, TaskDies, Enqueue, Act, history

-----------------------------------------------------------------------------
(* One thing at a time is under way for a file that is not disturbed.       *)

\* Something is under way for a file when it is queued, run or removed.
LEMMA BusyIs ==
    ASSUME TaskHeld, NEW f \in Files
    PROVE  Busy(f) <=> QueuedFor(f) # {} \/ RunningFor(f) # {} \/ RemovingFor(f) # {}
<1>1. ASSUME NEW w \in Workers
      PROVE  (\E t \in worker[w].task : t.file = f) <=>
                 worker[w].pc # "free" /\ FileOf(w) = f
  BY DEF TaskHeld, FileOf
<1>2. (\E w \in Workers : \E t \in worker[w].task : t.file = f) <=> RunningFor(f) # {}
  BY <1>1 DEF RunningFor
<1>3. QED
  BY <1>2 DEF Busy, QueuedFor, RemovingFor

\* A step that touches neither f nor what is under way for it keeps its order.
LEMMA StillOrderly ==
    ASSUME NEW f \in Files, Orderly(f),
           drive'[f] = drive[f], applied'[f] = applied[f], doc'[f] = doc[f],
           ChunksOf(f)' = ChunksOf(f), QueuedFor(f)' = QueuedFor(f),
           RunningFor(f)' = RunningFor(f), RemovingFor(f)' = RemovingFor(f),
           \A w \in RunningFor(f) : worker'[w] = worker[w],
           \A s \in RemovingFor(f) : /\ sync'[s].pc = sync[s].pc
                                     /\ sync'[s].gen = sync[s].gen
    PROVE  Orderly(f)'
<1>1. Caught(f)' = Caught(f) /\ Fresh(f)' = Fresh(f)
  BY DEF Caught, Fresh
<1>2. CASE Resting(f)
  BY <1>1, <1>2 DEF Resting, Orderly
<1>3. CASE Queued(f)
  <2>1. PICK t \in queue : QueuedFor(f) = {t} /\ t.ver = applied[f]
    BY <1>3 DEF Queued
  <2>2. t \in queue' /\ QueuedFor(f)' = {t}
    BY <2>1 DEF QueuedFor
  <2>3. QED
    BY <1>1, <1>3, <2>2 DEF Queued, Orderly
<1>4. CASE Running(f)
  <2>1. PICK w \in Workers : RunningFor(f) = {w} /\ OnCourse(w)
    BY <1>4 DEF Running
  <2>2. /\ worker'[w] = worker[w] /\ FileOf(w)' = f /\ FileOf(w) = f
        /\ TaskOf(w)' = TaskOf(w)
    BY <2>1 DEF RunningFor, FileOf, TaskOf
  <2>3. OnCourse(w)'
    BY <2>1, <2>2 DEF OnCourse, HoldsRow, FoundText, FoundNone
  <2>4. QED
    BY <1>1, <1>4, <2>1, <2>3 DEF Running, Orderly
<1>5. CASE Removing(f)
  <2>1. PICK s \in Syncs : /\ RemovingFor(f) = {s}
                           /\ (sync[s].pc = "cascading" => sync[s].gen = doc[f].gen)
    BY <1>5 DEF Removing
  <2>2. sync'[s].pc = sync[s].pc /\ sync'[s].gen = sync[s].gen
    BY <2>1
  <2>3. QED
    BY <1>1, <1>5, <2>1, <2>2 DEF Removing, Orderly
<1>6. QED
  BY <1>2, <1>3, <1>4, <1>5 DEF Orderly

\* The step of a worker that neither ran nor runs a task of f.
LEMMA WorkerElsewhere ==
    ASSUME Good, NEW w \in Workers, WorkerStep(w), NEW f \in Files, Orderly(f),
           worker[w].pc # "free" => FileOf(w) # f,
           worker'[w].pc # "free" => FileOf(w)' # f
    PROVE  Orderly(f)'
<1>1. TypeOK /\ WorkersHold /\ TaskHeld /\ SeesOwn
  BY DEF Good, IInv, Held
<1>2. drive'[f] = drive[f] /\ applied'[f] = applied[f] /\ sync' = sync
  BY WorkerFrame DEF driveVars
<1>3. RemovingFor(f)' = RemovingFor(f)
  BY <1>2 DEF RemovingFor
<1>4. \A v \in Workers \ {w} : worker'[v] = worker[v]
  BY <1>1, WorkerElse
<1>5. \A v \in Workers \ {w} : FileOf(v)' = FileOf(v)
  BY <1>4 DEF FileOf, TaskOf
<1>6. /\ RunningFor(f)' = RunningFor(f)
      /\ \A v \in RunningFor(f) : worker'[v] = worker[v]
  BY <1>4, <1>5 DEF RunningFor
<1>7. CASE \E t \in queue : Take(w, t)
  <2>1. PICK t \in queue : Take(w, t)
    BY <1>7
  <2>2. worker'[w].task = {t} /\ worker'[w].pc = "taken"
    BY <1>1, <2>1 DEF Take, TypeOK, WorkerState
  <2>3. t.file # f
    BY <2>2 DEF FileOf, TaskOf
  <2>4. QueuedFor(f)' = QueuedFor(f)
    BY <2>1, <2>3 DEF Take, QueuedFor
  <2>5. doc' = doc /\ chunks' = chunks
    BY <2>1 DEF Take, indexVars
  <2>6. ChunksOf(f)' = ChunksOf(f)
    BY <2>5 DEF ChunksOf
  <2>7. QED
    BY <1>2, <1>3, <1>6, <2>4, <2>5, <2>6, StillOrderly
<1>8. CASE ~ \E t \in queue : Take(w, t)
  <2>1. worker[w].pc # "free" /\ queue' = queue
    BY <1>8 DEF WorkerStep, UpsertRow, Extract, MarkStatus, SaveExtracted,
       BeginReplace, CommitReplace, TaskDies
  <2>2. QueuedFor(f)' = QueuedFor(f)
    BY <2>1 DEF QueuedFor
  <2>3. FileOf(w) # f
    BY <2>1
  <2>4. doc'[f] = doc[f]
    BY <1>1, <1>8, <2>3 DEF WorkerStep, UpsertRow, Upsert, Extract, MarkStatus,
       SaveExtracted, BeginReplace, CommitReplace, TaskDies, indexVars, TypeOK
  <2>5. \A c : c.file = f => (c \in chunks' <=> c \in chunks)
    BY <1>1, <1>8, <2>3 DEF WorkerStep, UpsertRow, Extract, MarkStatus,
       SaveExtracted, BeginReplace, CommitReplace, TaskDies, indexVars,
       SeesOwn, NewChunks
  <2>6. ChunksOf(f)' = ChunksOf(f)
    BY <2>4, <2>5 DEF ChunksOf
  <2>7. QED
    BY <1>2, <1>3, <1>6, <2>2, <2>4, <2>6, StillOrderly
<1>9. QED
  BY <1>7, <1>8

\* An upsert gives the row the metadata it is called with.
LEMMA UpsertMeta ==
    ASSUME TypeOK, NEW f \in Files, NEW ver \in Nat, Upsert(f, ver)
    PROVE  doc'[f].meta = ver
<1>1. doc'[f] = Upserted(f, ver) /\ doc[f] \in Document \cup {NoDoc}
  BY DEF Upsert, TypeOK
<1>2. QED
  BY <1>1 DEF Upserted, Document

\* A worker that takes the one task of f is the one thing under way for it.
LEMMA TakeOrderly ==
    ASSUME Good, NEW w \in Workers, NEW t \in queue, Take(w, t),
           NEW f \in Files, t.file = f, Orderly(f)
    PROVE  Orderly(f)'
<1>1. TypeOK /\ worker \in [Workers -> WorkerState] /\ worker[w].pc = "free"
  BY DEF Good, IInv, TypeOK, Take
<1>2. Queued(f)
  BY DEF Orderly, Resting, Running, Removing, QueuedFor
<1>3. QueuedFor(f)' = {} /\ RunningFor(f) = {} /\ RemovingFor(f) = {}
  BY <1>2 DEF Queued, QueuedFor, Take
<1>4. worker'[w].pc = "taken" /\ worker'[w].task = {t}
  BY <1>1 DEF Take, WorkerState
<1>5. FileOf(w)' = f /\ TaskOf(w)' = t
  BY <1>4 DEF FileOf, TaskOf
<1>6. \A v \in Workers \ {w} : worker'[v] = worker[v]
  BY <1>1 DEF Take
<1>7. \A v \in Workers \ {w} : FileOf(v)' = FileOf(v)
  BY <1>6 DEF FileOf, TaskOf
<1>8. RunningFor(f)' = {w}
  BY <1>3, <1>4, <1>5, <1>6, <1>7 DEF RunningFor
<1>9. OnCourse(w)'
  <2>1. t.ver = applied[f]
    BY <1>2 DEF Queued, QueuedFor
  <2>2. applied' = applied
    BY DEF Take, history
  <2>3. QED
    BY <1>4, <1>5, <2>1, <2>2 DEF OnCourse, FoundText, FoundNone
<1>10. RemovingFor(f)' = {} /\ Caught(f)' = Caught(f) /\ drive' = drive
  BY <1>3 DEF Take, RemovingFor, Caught, driveVars, history
<1>11. Running(f)'
  BY <1>2, <1>3, <1>8, <1>9, <1>10 DEF Running, Queued
<1>12. QED
  BY <1>11 DEF Orderly

\* A running worker's file, and what else is under way for it: nothing.
LEMMA RunsAlone ==
    ASSUME Good, NEW w \in Workers, worker[w].pc # "free", Orderly(FileOf(w))
    PROVE  LET f == FileOf(w) IN
           /\ RunningFor(f) = {w} /\ OnCourse(w)
           /\ QueuedFor(f) = {} /\ RemovingFor(f) = {}
           /\ Caught(f) => ~drive[f].gone
  BY DEF Orderly, Resting, Queued, Running, Removing, RunningFor

\* While it keeps its task the worker is the one thing under way for its file.
LEMMA GoesOn ==
    ASSUME Good, NEW w \in Workers, WorkerStep(w), worker[w].pc # "free",
           worker'[w].pc # "free", worker'[w].task = worker[w].task,
           queue' = queue, NEW f \in Files, f = FileOf(w), Orderly(f), OnCourse(w)'
    PROVE  Orderly(f)'
<1>1. TypeOK
  BY DEF Good, IInv
<1>2. drive' = drive /\ applied' = applied /\ sync' = sync
  BY WorkerFrame DEF driveVars
<1>3. /\ RunningFor(f) = {w} /\ QueuedFor(f) = {} /\ RemovingFor(f) = {}
      /\ Caught(f) => ~drive[f].gone
  BY RunsAlone
<1>4. FileOf(w)' = f
  BY DEF FileOf, TaskOf
<1>5. \A v \in Workers \ {w} : worker'[v] = worker[v]
  BY <1>1, WorkerElse
<1>6. \A v \in Workers \ {w} : FileOf(v)' = FileOf(v)
  BY <1>5 DEF FileOf, TaskOf
<1>7. RunningFor(f)' = {w}
  BY <1>3, <1>4, <1>5, <1>6 DEF RunningFor
<1>8. QueuedFor(f)' = {} /\ RemovingFor(f)' = {} /\ Caught(f)' = Caught(f)
  BY <1>2, <1>3 DEF QueuedFor, RemovingFor, Caught
<1>9. Running(f)'
  BY <1>2, <1>3, <1>7, <1>8 DEF Running
<1>10. QED
  BY <1>9 DEF Orderly

\* When the worker is done nothing is under way for its file.
LEMMA IsDone ==
    ASSUME Good, NEW w \in Workers, WorkerStep(w), worker[w].pc # "free",
           worker'[w] = FreeWorker, queue' = queue,
           NEW f \in Files, f = FileOf(w), Orderly(f),
           Caught(f) /\ ~drive[f].gone => Fresh(f)'
    PROVE  Orderly(f)'
<1>1. TypeOK
  BY DEF Good, IInv
<1>2. drive' = drive /\ applied' = applied /\ sync' = sync
  BY WorkerFrame DEF driveVars
<1>3. /\ RunningFor(f) = {w} /\ QueuedFor(f) = {} /\ RemovingFor(f) = {}
      /\ Caught(f) => ~drive[f].gone
  BY RunsAlone
<1>4. \A v \in Workers \ {w} : worker'[v] = worker[v]
  BY <1>1, WorkerElse
<1>5. \A v \in Workers \ {w} : FileOf(v)' = FileOf(v)
  BY <1>4 DEF FileOf, TaskOf
<1>6. RunningFor(f)' = {}
  BY <1>3, <1>4, <1>5 DEF RunningFor, FreeWorker
<1>7. QueuedFor(f)' = {} /\ RemovingFor(f)' = {} /\ Caught(f)' = Caught(f)
  BY <1>2, <1>3 DEF QueuedFor, RemovingFor, Caught
<1>8. Resting(f)'
  BY <1>3, <1>6, <1>7 DEF Resting
<1>9. QED
  BY <1>8 DEF Orderly

\* Every step of the worker itself keeps it on course, unless the task fails.
LEMMA WorkerOrderly ==
    ASSUME Good, NEW w \in Workers, WorkerStep(w), worker[w].pc # "free",
           NEW f \in Files, f = FileOf(w), f \notin disturbed', Orderly(f)
    PROVE  Orderly(f)'
<1>1. /\ TypeOK /\ WorkersHold /\ LogOrdered /\ OnlyMetadata /\ TextsTrue
      /\ worker \in [Workers -> WorkerState]
  BY DEF Good, IInv, Held, TypeOK
<1>2. /\ OnCourse(w)
      /\ Caught(f) => ~drive[f].gone
  BY RunsAlone
<1>3. /\ drive' = drive /\ applied' = applied
      /\ applied[f] \in Nat /\ drive[f].ver \in Nat /\ applied[f] <= drive[f].ver
  BY <1>1, WorkerFrame DEF driveVars, TypeOK, LogOrdered
<1>4. worker'[w].task = worker[w].task => FileOf(w)' = f
  BY DEF FileOf, TaskOf
<1>5. CASE UpsertRow(w)
  <2>1. /\ worker'[w].pc = IF f \in Supported THEN "upserted" ELSE "skipping"
        /\ worker'[w].gen = doc'[f].gen /\ worker'[w].task = worker[w].task
        /\ queue' = queue
    BY <1>1, <1>5 DEF UpsertRow, WorkerState
  <2>2. TaskOf(w)' = TaskOf(w) /\ TaskOf(w).ver = applied[f]
    BY <1>2, <2>1 DEF OnCourse, TaskOf
  <2>3. doc'[f].meta = applied[f]
    <3>1. Upsert(f, TaskOf(w).ver) /\ TaskOf(w).ver \in Nat
      BY <1>1, <1>3, <1>5, <2>2 DEF UpsertRow
    <3>2. doc'[f].meta = TaskOf(w).ver
      BY <1>1, <3>1, UpsertMeta
    <3>3. QED
      BY <2>2, <3>2
  <2>4. OnCourse(w)'
    BY <1>3, <1>4, <2>1, <2>2, <2>3 DEF OnCourse, HoldsRow, FoundText, FoundNone
  <2>5. QED
    BY <2>1, <2>4, GoesOn
<1>6. CASE \E outcome \in {"extracted", "failing", "skipping"} : Extract(w, outcome)
  <2>1. PICK outcome \in {"extracted", "skipping"} : Extract(w, outcome)
    BY <1>6 DEF Extract
  <2>2. /\ worker[w].pc = "upserted" /\ worker'[w].pc = outcome
        /\ worker'[w].text = drive[f].ver /\ worker'[w].gen = worker[w].gen
        /\ worker'[w].task = worker[w].task /\ queue' = queue /\ doc' = doc
    BY <1>1, <2>1 DEF Extract, WorkerState, indexVars
  <2>3. OnCourse(w)'
    <3>1. TaskOf(w)' = TaskOf(w)
      BY <2>2 DEF TaskOf
    <3>2. QED
      BY <1>2, <1>3, <1>4, <2>2, <3>1 DEF OnCourse, HoldsRow
  <2>4. QED
    BY <2>2, <2>3, GoesOn
<1>7. CASE MarkStatus(w)
  <2>1. /\ worker'[w] = FreeWorker /\ queue' = queue /\ chunks' = chunks
        /\ doc'[f] = [doc[f] EXCEPT !.status =
                         IF worker[w].pc = "failing" THEN "failed" ELSE "skipped"]
        /\ doc[f] \in Document
    BY <1>1, <1>7 DEF MarkStatus, Free, HoldsRow, TypeOK, WorkersHold, NoDoc
  <2>2. worker[w].pc = "skipping" /\ doc[f].meta = applied[f]
    BY <1>1, <1>2, <1>7 DEF MarkStatus, OnCourse, OnlyMetadata
  <2>3. /\ doc'[f].status = "skipped" /\ doc'[f].meta = applied[f]
        /\ ChunksOf(f)' = ChunksOf(f)
    BY <2>1, <2>2 DEF Document, ChunksOf
  <2>4. Caught(f) /\ ~drive[f].gone => Fresh(f)'
    <3>1. CASE f \notin Supported
      <4>1. ChunksOf(f) = {}
        BY <1>1, <3>1 DEF OnlyMetadata, ChunksOf
      <4>2. QED
        BY <1>3, <2>3, <3>1, <4>1 DEF Fresh, Caught
    <3>2. CASE f \in Supported
      <4>1. FoundNone(w)
        BY <2>2, <3>2 DEF FoundNone
      <4>2. applied[f] <= worker[w].text /\ HadNone(f, worker[w].text)
        <5>1. applied[f] <= worker[w].text
          BY <1>2, <4>1 DEF OnCourse
        <5>2. HadNone(f, worker[w].text)
          BY <1>1, <4>1 DEF TextsTrue, HadNone
        <5>3. QED
          BY <5>1, <5>2
      <4>3. Caught(f) => worker[w].text = drive[f].ver
        <5>1. worker[w].text \in Nat /\ worker[w].text <= drive[f].ver
          BY <1>1, <4>2 DEF WorkerState, HadNone
        <5>2. QED
          BY <1>3, <4>2, <5>1 DEF Caught
      <4>4. Caught(f) => drive[f].empty
        BY <4>2, <4>3 DEF HadNone
      <4>5. Caught(f) => \A c \in ChunksOf(f) : c.ver < drive[f].ver
        <5>1. \A c \in ChunksOf(f) : c.ver \in Nat /\ c.file = f /\ HadText(f, c.ver)
          BY <1>1 DEF ChunksOf, TypeOK, Chunks, TextsTrue
        <5>2. Caught(f) => \A c \in ChunksOf(f) : c.ver # drive[f].ver
          BY <4>4, <5>1 DEF HadText
        <5>3. \A c \in ChunksOf(f) : c.ver <= drive[f].ver
          BY <5>1 DEF HadText
        <5>4. QED
          BY <1>3, <5>1, <5>2, <5>3
      <4>6. QED
        BY <1>3, <2>3, <3>2, <4>4, <4>5, Zenon DEF Fresh, Caught
    <3>3. QED
      BY <3>1, <3>2
  <2>5. QED
    BY <2>1, <2>4, IsDone
<1>8. CASE SaveExtracted(w)
  <2>1. /\ worker[w].pc = "extracted" /\ worker'[w].pc = "embedding"
        /\ worker'[w].text = worker[w].text /\ worker'[w].gen = worker[w].gen
        /\ worker'[w].task = worker[w].task /\ queue' = queue
        /\ doc'[f].gen = worker[w].gen /\ doc'[f].text = worker[w].text
        /\ doc'[f].meta = TaskOf(w).ver
    BY <1>1, <1>8 DEF SaveExtracted, WorkerState, TypeOK
  <2>2. OnCourse(w)'
    <3>1. TaskOf(w)' = TaskOf(w) /\ FoundText(w)
      BY <2>1 DEF TaskOf, FoundText
    <3>2. QED
      BY <1>2, <1>3, <1>4, <2>1, <3>1 DEF OnCourse, HoldsRow
  <2>3. QED
    BY <2>1, <2>2, GoesOn
<1>9. CASE BeginReplace(w)
  <2>1. /\ worker[w].pc = "embedding" /\ worker'[w].pc = "replacing"
        /\ worker'[w].text = worker[w].text /\ worker'[w].gen = worker[w].gen
        /\ worker'[w].task = worker[w].task /\ queue' = queue
        /\ doc' = doc /\ chunks' = chunks
        /\ worker'[w].sees = {c \in chunks : c.file = f /\ c.gen = worker[w].gen}
    BY <1>1, <1>9 DEF BeginReplace, WorkerState, indexVars
  <2>2. doc[f].gen = worker[w].gen
    BY <1>2, <2>1 DEF OnCourse, HoldsRow
  <2>3. OnCourse(w)'
    <3>1. TaskOf(w)' = TaskOf(w) /\ FoundText(w)
      BY <2>1 DEF TaskOf, FoundText
    <3>2. QED
      BY <1>2, <1>3, <1>4, <2>1, <2>2, <3>1 DEF OnCourse, HoldsRow, ChunksOf
  <2>4. QED
    BY <2>1, <2>3, GoesOn
<1>10. CASE CommitReplace(w)
  <2>1. /\ worker[w].pc = "replacing" /\ doc[f].gen = worker[w].gen
        /\ worker'[w] = FreeWorker /\ queue' = queue
        /\ chunks' = (chunks \ worker[w].sees) \cup {NewChunks(w)}
    BY <1>1, <1>10 DEF CommitReplace, HoldsRow, Free
  <2>2. /\ doc[f].text = worker[w].text /\ worker[w].sees = ChunksOf(f)
        /\ applied[f] <= worker[w].text /\ HadText(f, worker[w].text)
        /\ f \in Supported /\ doc[f].meta = applied[f] /\ TaskOf(w).ver = applied[f]
    <3>1. FoundText(w)
      BY <2>1 DEF FoundText
    <3>2. HadText(f, worker[w].text)
      BY <1>1, <3>1 DEF TextsTrue, HadText
    <3>3. QED
      BY <1>1, <1>2, <2>1, <3>1, <3>2 DEF OnCourse, OnlyMetadata
  <2>3. /\ doc'[f].gen = doc[f].gen /\ doc'[f].text = doc[f].text
        /\ doc'[f].status = "indexed" /\ doc'[f].meta = doc[f].meta
    BY <1>1, <1>10 DEF CommitReplace, TypeOK, Document, NoDoc
  <2>4. /\ NewChunks(w).file = f /\ NewChunks(w).gen = doc[f].gen
        /\ NewChunks(w).ver = worker[w].text /\ NewChunks(w).by = TaskOf(w)
    BY <2>1 DEF NewChunks
  <2>5. ChunksOf(f)' = {NewChunks(w)}
    BY <2>1, <2>2, <2>3, <2>4 DEF ChunksOf
  <2>6. Cardinality({NewChunks(w)}) = 1
    BY FS_Singleton
  <2>7. Caught(f) => worker[w].text = drive[f].ver
    <3>1. worker[w].text \in Nat /\ worker[w].text <= drive[f].ver
      BY <1>1, <2>2 DEF WorkerState, HadText
    <3>2. QED
      BY <1>3, <2>2, <3>1 DEF Caught
  <2>8. Caught(f) /\ ~drive[f].gone => Fresh(f)'
    <3>1. Caught(f) => ~drive[f].empty
      BY <2>2, <2>7 DEF HadText
    <3>2. Cardinality(ChunksOf(f)') = 1
      BY <2>5, <2>6
    <3>3. Caught(f) => \A c \in ChunksOf(f)' :
                           c.ver = drive[f].ver /\ c.by.ver = drive[f].ver
      BY <2>2, <2>4, <2>5, <2>7 DEF Caught
    <3>4. QED
      BY <1>3, <2>2, <2>3, <2>7, <3>1, <3>2, <3>3, ZenonT(30) DEF Fresh, Caught
  <2>9. QED
    BY <2>1, <2>8, IsDone
<1>11. CASE TaskDies(w)
  BY <1>11 DEF TaskDies
<1>12. QED
  BY <1>5, <1>6, <1>7, <1>8, <1>9, <1>10, <1>11 DEF WorkerStep, Take

\* A change in Drive makes the file one that is not caught up with. What was
\* under way for it goes on; a file left in disorder starts anew when at rest.
LEMMA DriveOrderly ==
    ASSUME Good, NEW g \in Files, NEW gone \in BOOLEAN, NEW empty \in BOOLEAN,
           DriveChange(g, gone, empty),
           NEW f \in Files, f \notin disturbed', f \notin disturbed => Orderly(f)
    PROVE  Orderly(f)'
<1>1. /\ TypeOK /\ LogOrdered /\ TaskHeld /\ log \in Nat
      /\ drive \in [Files -> [ver : Nat, gone : BOOLEAN, empty : BOOLEAN]]
  BY DEF Good, IInv, Held, TypeOK
<1>2. /\ queue' = queue /\ worker' = worker /\ sync' = sync
      /\ doc' = doc /\ chunks' = chunks /\ applied' = applied
  BY DEF DriveChange, indexVars
<1>3. /\ QueuedFor(f)' = QueuedFor(f) /\ RunningFor(f)' = RunningFor(f)
      /\ RemovingFor(f)' = RemovingFor(f) /\ ChunksOf(f)' = ChunksOf(f)
  BY <1>2 DEF QueuedFor, RunningFor, RemovingFor, ChunksOf, FileOf, TaskOf
<1>4. CASE f # g
  <2>1. drive'[f] = drive[f] /\ f \notin disturbed
    BY <1>1, <1>4 DEF DriveChange
  <2>2. QED
    BY <1>2, <1>3, <2>1, StillOrderly
<1>5. CASE f = g
  <2>1. drive'[f].ver = log + 1 /\ applied[f] \in Nat /\ drive[f].ver \in Nat
        /\ applied[f] <= drive[f].ver /\ drive[f].ver <= log
    BY <1>1, <1>5 DEF DriveChange, LogOrdered, TypeOK
  <2>2. ~Caught(f)'
    BY <1>1, <1>2, <2>1 DEF Caught
  <2>3. CASE f \in disturbed
    <3>1. ~Busy(f)
      BY <1>5, <2>3 DEF DriveChange
    <3>2. QueuedFor(f) = {} /\ RunningFor(f) = {} /\ RemovingFor(f) = {}
      BY <1>1, <3>1, BusyIs
    <3>3. QED
      BY <1>3, <2>2, <3>2 DEF Resting, Orderly
  <2>4. CASE Resting(f)
    BY <1>3, <2>2, <2>4 DEF Resting, Orderly
  <2>5. CASE Queued(f)
    BY <1>2, <1>3, <2>2, <2>5 DEF Queued, Orderly
  <2>6. CASE Running(f)
    <3>1. PICK w \in Workers : RunningFor(f) = {w} /\ OnCourse(w)
      BY <2>6 DEF Running
    <3>2. FileOf(w) = f /\ FileOf(w)' = f /\ TaskOf(w)' = TaskOf(w)
      BY <1>2, <3>1 DEF RunningFor, FileOf, TaskOf
    <3>5. OnCourse(w)'
      BY <1>2, <1>3, <3>1, <3>2 DEF OnCourse, HoldsRow, FoundText, FoundNone
    <3>6. QED
      BY <1>3, <2>2, <2>6, <3>1, <3>5 DEF Running, Orderly
  <2>7. CASE Removing(f)
    BY <1>2, <1>3, <2>2, <2>7 DEF Removing, Orderly
  <2>8. QED
    BY <2>3, <2>4, <2>5, <2>6, <2>7 DEF Orderly
<1>6. QED
  BY <1>4, <1>5

\* Acting on a change of a file that stays undisturbed: nothing was under way,
\* and the change is the newest that anybody acted upon.
LEMMA ActInOrder ==
    ASSUME Good, NEW e \in Entry, NEW f \in Files, e.file = f, Act(e),
           f \notin disturbed', f \notin disturbed => Orderly(f)
    PROVE  /\ QueuedFor(f) = {} /\ RunningFor(f) = {} /\ RemovingFor(f) = {}
           /\ applied'[f] = e.ver
<1>1. TypeOK /\ TaskHeld
  BY DEF Good, IInv, Held
<1>2. ~Busy(f) /\ ~(e.ver < applied[f])
  BY DEF Act
<1>3. applied[f] \in Nat /\ e.ver \in Nat
  BY <1>1 DEF TypeOK, Entry
<1>4. applied'[f] = IF applied[f] < e.ver THEN e.ver ELSE applied[f]
  BY <1>1 DEF Act, TypeOK
<1>5. applied'[f] = e.ver
  BY <1>2, <1>3, <1>4
<1>6. QED
  BY <1>1, <1>2, <1>5, BusyIs

\* Acting on a change of another file leaves the record of f alone.
LEMMA ActElsewhere ==
    ASSUME TypeOK, NEW e \in Entry, NEW f \in Files, e.file # f, Act(e)
    PROVE  applied'[f] = applied[f] /\ (f \in disturbed' <=> f \in disturbed)
  BY DEF Act, TypeOK

\* A queued task is the one thing under way for its file.
LEMMA EnqueueOrderly ==
    ASSUME Good, NEW s \in Syncs, NEW e \in Entry, Enqueue(s, e), ~e.gone,
           e.ver = drive[e.file].ver => e.gone = drive[e.file].gone,
           UNCHANGED <<drive, worker, doc, chunks>>,
           \A r \in Syncs : sync'[r].file = sync[r].file,
           \A r \in Syncs : sync[r].file # {} =>
               sync'[r].pc = sync[r].pc /\ sync'[r].gen = sync[r].gen,
           NEW f \in Files, f \notin disturbed', f \notin disturbed => Orderly(f)
    PROVE  Orderly(f)'
<1>1. TypeOK /\ Act(e)
  BY DEF Good, IInv, Enqueue
<1>2. /\ RunningFor(f)' = RunningFor(f) /\ RemovingFor(f)' = RemovingFor(f)
      /\ ChunksOf(f)' = ChunksOf(f)
  BY DEF RunningFor, RemovingFor, ChunksOf, FileOf, TaskOf
<1>3. CASE e.file # f
  <2>1. QueuedFor(f)' = QueuedFor(f)
    BY <1>3 DEF QueuedFor, Enqueue
  <2>2. applied'[f] = applied[f] /\ f \notin disturbed
    BY <1>1, <1>3, ActElsewhere
  <2>3. \A r \in RemovingFor(f) : sync'[r].pc = sync[r].pc /\ sync'[r].gen = sync[r].gen
    BY DEF RemovingFor
  <2>4. QED
    BY <1>2, <2>1, <2>2, <2>3, StillOrderly
<1>4. CASE e.file = f
  <2>1. /\ QueuedFor(f) = {} /\ RunningFor(f) = {} /\ RemovingFor(f) = {}
        /\ applied'[f] = e.ver
    BY <1>1, <1>4, ActInOrder
  <2>2. PICK t \in queue' : QueuedFor(f)' = {t} /\ t.ver = e.ver
    <3>1. PICK t : t = [file |-> e.file, ver |-> e.ver, by |-> s]
      OBVIOUS
    <3>2. queue' = queue \cup {t} /\ t.file = f /\ t.ver = e.ver
      BY <1>4, <3>1 DEF Enqueue
    <3>3. QueuedFor(f)' = {t}
      BY <2>1, <3>2 DEF QueuedFor
    <3>4. QED
      BY <3>2, <3>3
  <2>3. Caught(f)' => ~drive'[f].gone
    BY <1>4, <2>1 DEF Caught
  <2>4. QED
    BY <1>2, <2>1, <2>2, <2>3 DEF Queued, Orderly
<1>5. QED
  BY <1>3, <1>4

\* So is a removal.
LEMMA RemovalOrderly ==
    ASSUME Good, NEW s \in Syncs, NEW e \in sync[s].todo, ApplyRemoval(s, e),
           NEW f \in Files, f \notin disturbed', f \notin disturbed => Orderly(f)
    PROVE  Orderly(f)'
<1>1. /\ TypeOK /\ Act(e) /\ e \in Entry /\ EntriesTrue /\ e.gone
      /\ sync \in [Syncs -> SyncState]
  BY SyncNextTyped DEF Good, IInv, Held, ApplyRemoval, TypeOK
<1>2. drive' = drive /\ doc' = doc /\ worker' = worker /\ queue' = queue
  BY DEF ApplyRemoval, driveVars
<1>3. QueuedFor(f)' = QueuedFor(f) /\ RunningFor(f)' = RunningFor(f)
  BY <1>2 DEF QueuedFor, RunningFor, FileOf, TaskOf
<1>4. sync[s].file = {}
  BY DEF Good, Held, FileHeld, ApplyRemoval, NextChange
<1>5. /\ sync'[s].file = {e.file}
      /\ \A r \in Syncs \ {s} : sync'[r].file = sync[r].file
  BY <1>1 DEF ApplyRemoval, SyncState
<1>6. CASE e.file # f
  <2>1. RemovingFor(f)' = RemovingFor(f)
    BY <1>4, <1>5, <1>6 DEF RemovingFor
  <2>2. ChunksOf(f)' = ChunksOf(f)
    BY <1>2, <1>6 DEF ChunksOf, ApplyRemoval
  <2>3. applied'[f] = applied[f] /\ f \notin disturbed
    BY <1>1, <1>6, ActElsewhere
  <2>4. \A r \in RemovingFor(f) : sync'[r] = sync[r]
    BY <1>1, <1>4 DEF RemovingFor, ApplyRemoval
  <2>5. QED
    BY <1>2, <1>3, <2>1, <2>2, <2>3, <2>4, StillOrderly
<1>7. CASE e.file = f
  <2>1. /\ QueuedFor(f) = {} /\ RunningFor(f) = {} /\ RemovingFor(f) = {}
        /\ applied'[f] = e.ver
    BY <1>1, <1>7, ActInOrder
  <2>2. RemovingFor(f)' = {s}
    BY <1>5, <1>7, <2>1 DEF RemovingFor
  <2>3. Caught(f)' => drive'[f].gone
    BY <1>1, <1>2, <1>7, <2>1 DEF Caught, EntriesTrue
  <2>4. sync'[s].pc = "removing"
    BY <1>1 DEF ApplyRemoval, SyncState
  <2>5. QED
    BY <1>3, <2>1, <2>2, <2>3, <2>4 DEF Removing, Orderly
<1>8. QED
  BY <1>6, <1>7

\* The cascade collects the row of the file as it is.
LEMMA CascadeOrderly ==
    ASSUME Good, NEW s \in Syncs, NEW g \in sync[s].file, Cascade(s, g),
           NEW f \in Files, Orderly(f)
    PROVE  Orderly(f)'
<1>1. sync \in [Syncs -> SyncState] /\ OneFile
  BY DEF Good, IInv, Held, TypeOK
<1>2. /\ drive' = drive /\ worker' = worker /\ queue' = queue
      /\ doc' = doc /\ applied' = applied /\ chunks' = chunks
  BY DEF Cascade, driveVars, indexVars, history
<1>3. /\ QueuedFor(f)' = QueuedFor(f) /\ RunningFor(f)' = RunningFor(f)
      /\ ChunksOf(f)' = ChunksOf(f)
  BY <1>2 DEF QueuedFor, RunningFor, ChunksOf, FileOf, TaskOf
<1>4. /\ sync'[s].file = sync[s].file /\ sync'[s].gen = doc[g].gen
      /\ \A r \in Syncs \ {s} : sync'[r] = sync[r]
  BY <1>1 DEF Cascade, SyncState
<1>5. RemovingFor(f)' = RemovingFor(f)
  BY <1>4 DEF RemovingFor
<1>6. CASE f \notin sync[s].file
  <2>1. \A r \in RemovingFor(f) : sync'[r] = sync[r]
    BY <1>4, <1>6 DEF RemovingFor
  <2>2. QED
    BY <1>2, <1>3, <1>5, <2>1, StillOrderly
<1>7. CASE f \in sync[s].file
  <2>1. s \in RemovingFor(f) /\ f = g
    BY <1>1, <1>7 DEF RemovingFor, OneFile
  <2>2. Removing(f)
    BY <2>1 DEF Orderly, Resting, Queued, Running
  <2>3. RemovingFor(f) = {s}
    BY <2>1, <2>2 DEF Removing
  <2>4. Caught(f)' => drive'[f].gone
    BY <1>2, <2>2 DEF Removing, Caught
  <2>5. QED
    BY <1>2, <1>3, <1>4, <1>5, <2>1, <2>2, <2>3, <2>4 DEF Removing, Orderly
<1>8. QED
  BY <1>6, <1>7

\* The row of a file is deleted: nothing of it is left, as its last change says.
LEMMA RemoveRowOrderly ==
    ASSUME Good, NEW s \in Syncs, RemoveRow(s), NEW f \in Files, Orderly(f)
    PROVE  Orderly(f)'
<1>1. sync \in [Syncs -> SyncState] /\ CascadeOwn /\ sync[s].pc = "cascading"
  BY DEF Good, IInv, TypeOK, RemoveRow
<1>2. /\ drive' = drive /\ worker' = worker /\ queue' = queue
      /\ applied' = applied
  BY DEF RemoveRow, driveVars
<1>3. QueuedFor(f)' = QueuedFor(f) /\ RunningFor(f)' = RunningFor(f)
  BY <1>2 DEF QueuedFor, RunningFor, FileOf, TaskOf
<1>4. /\ sync'[s].file = {}
      /\ \A r \in Syncs \ {s} : sync'[r] = sync[r]
  BY <1>1 DEF RemoveRow, SyncState
<1>5. CASE f \notin sync[s].file
  <2>1. RemovingFor(f)' = RemovingFor(f)
        /\ \A r \in RemovingFor(f) : sync'[r] = sync[r]
    BY <1>4, <1>5 DEF RemovingFor
  <2>2. doc'[f] = doc[f]
    BY <1>5 DEF RemoveRow, Collected
  <2>3. \A c : c.file = f => (c \in chunks' <=> c \in chunks)
    BY <1>1, <1>5 DEF RemoveRow, CascadeOwn
  <2>4. ChunksOf(f)' = ChunksOf(f)
    BY <2>2, <2>3 DEF ChunksOf
  <2>5. QED
    BY <1>2, <1>3, <2>1, <2>2, <2>4, StillOrderly
<1>6. CASE f \in sync[s].file
  <2>1. s \in RemovingFor(f)
    BY <1>6 DEF RemovingFor
  <2>2. Removing(f)
    BY <2>1 DEF Orderly, Resting, Queued, Running
  <2>3. RemovingFor(f) = {s} /\ sync[s].gen = doc[f].gen
    BY <1>1, <2>1, <2>2 DEF Removing
  <2>4. RemovingFor(f)' = {}
    BY <1>4, <2>3 DEF RemovingFor
  <2>5. doc'[f] = NoDoc
    BY <1>6, <2>3 DEF RemoveRow, Collected
  <2>6. Caught(f)' => Fresh(f)'
    BY <1>2, <2>2, <2>5 DEF Removing, Caught, Fresh
  <2>7. QED
    BY <1>3, <2>2, <2>4, <2>6 DEF Removing, Resting, Orderly
<1>7. QED
  BY <1>5, <1>6

\* The listing queues a file, records its metadata or passes it over.
LEMMA ListOrderly ==
    ASSUME Good, NEW s \in Syncs, NEW g \in sync[s].list, ListFile(s, g),
           NEW f \in Files, f \notin disturbed', f \notin disturbed => Orderly(f)
    PROVE  Orderly(f)'
<1>1. TypeOK /\ OnlyMetadata /\ g \in Files /\ sync \in [Syncs -> SyncState]
  BY SyncNextTyped DEF Good, IInv, Held, TypeOK
<1>2. drive' = drive /\ worker' = worker /\ chunks' = chunks
  BY DEF ListFile, driveVars
<1>3. \A r \in Syncs : sync'[r].file = sync[r].file
  BY <1>1 DEF ListFile, SyncState
<1>4. Seen(g) \in Entry /\ Seen(g).file = g /\ Seen(g).ver = drive[g].ver
      /\ Seen(g).gone = drive[g].gone
  BY <1>1, SeenTyped
<1>5. RunningFor(f)' = RunningFor(f) /\ RemovingFor(f)' = RemovingFor(f)
  BY <1>2, <1>3 DEF RunningFor, RemovingFor, FileOf, TaskOf
<1>10. \A r \in Syncs : sync[r].file # {} => sync'[r] = sync[r]
  <2>1. sync[s].file = {}
    BY DEF Good, Held, FileHeld, ListFile
  <2>2. QED
    BY <1>1, <2>1 DEF ListFile
<1>11. \A r \in RemovingFor(f) : sync'[r] = sync[r]
  BY <1>10 DEF RemovingFor
<1>6. CASE drive[g].gone
  <2>1. queue' = queue /\ doc' = doc /\ applied' = applied /\ disturbed' = disturbed
    BY <1>6 DEF ListFile, history
  <2>2. QueuedFor(f)' = QueuedFor(f) /\ ChunksOf(f)' = ChunksOf(f)
    BY <1>2, <2>1 DEF QueuedFor, ChunksOf
  <2>3. QED
    BY <1>2, <1>5, <1>11, <2>1, <2>2, StillOrderly
<1>7. CASE ~drive[g].gone /\ g \in Supported
  <2>1. Enqueue(s, Seen(g)) /\ doc' = doc
    BY <1>7 DEF ListFile
  <2>2. QED
    BY <1>2, <1>3, <1>4, <1>7, <1>10, <2>1, EnqueueOrderly
<1>8. CASE ~drive[g].gone /\ g \notin Supported
  <2>1. Upsert(g, drive[g].ver) /\ Act(Seen(g)) /\ queue' = queue
    BY <1>8 DEF ListFile
  <2>2. QueuedFor(f)' = QueuedFor(f)
    BY <2>1 DEF QueuedFor
  <2>3. CASE f # g
    <3>1. doc'[f] = doc[f]
      BY <1>1, <2>1, <2>3 DEF Upsert, TypeOK
    <3>2. ChunksOf(f)' = ChunksOf(f)
      BY <1>2, <3>1 DEF ChunksOf
    <3>3. applied'[f] = applied[f] /\ f \notin disturbed
      BY <1>1, <1>4, <2>1, <2>3, ActElsewhere
    <3>4. QED
      BY <1>2, <1>5, <1>11, <2>2, <3>1, <3>2, <3>3, StillOrderly
  <2>4. CASE f = g
    <3>1. QueuedFor(f) = {} /\ RunningFor(f) = {} /\ RemovingFor(f) = {}
      BY <1>4, <2>1, <2>4, ActInOrder
    <3>2. doc'[f].status \in {"pending", "skipped"}
      <4>1. drive[f].ver \in Nat
        BY <1>1 DEF TypeOK
      <4>2. doc[f] = NoDoc \/ doc[f].status \in {"pending", "skipped"}
        BY <1>1, <1>8, <2>4 DEF OnlyMetadata
      <4>3. QED
        BY <1>1, <2>1, <2>4, <4>1, <4>2, UpsertStatus
    <3>3. ChunksOf(f)' = {}
      BY <1>1, <1>2, <1>8, <2>4 DEF OnlyMetadata, ChunksOf
    <3>6. doc'[f].meta = drive[f].ver
      BY <1>1, <2>1, <2>4, UpsertMeta DEF TypeOK
    <3>4. Fresh(f)'
      BY <1>2, <1>8, <2>4, <3>2, <3>3, <3>6 DEF Fresh
    <3>5. QED
      BY <1>5, <2>2, <3>1, <3>4 DEF Resting, Orderly
  <2>5. QED
    BY <2>3, <2>4
<1>9. QED
  BY <1>6, <1>7, <1>8

\* The other steps of a sync read Drive, move the cursor or end it.
LEMMA SyncElsewhere ==
    ASSUME Good, NEW s \in Syncs,
           \/ StartIncremental(s) \/ StartFull(s) \/ GetStartToken(s)
           \/ \E last \in 0..log : DrainPage(s, last)
           \/ FinishIncremental(s) \/ FinishFull(s) \/ SyncDies(s),
           NEW f \in Files, f \notin disturbed', f \notin disturbed => Orderly(f)
    PROVE  Orderly(f)'
<1>1. sync \in [Syncs -> SyncState] /\ FileHeld
  BY DEF Good, IInv, Held, TypeOK
<1>2. /\ drive' = drive /\ worker' = worker /\ queue' = queue /\ doc' = doc
      /\ chunks' = chunks /\ applied' = applied /\ disturbed \subseteq disturbed'
  BY DEF StartIncremental, StartFull, GetStartToken, DrainPage, FinishIncremental,
     FinishFull, SyncDies, driveVars, indexVars, history
<1>3. \A r \in Syncs \ {s} : sync'[r] = sync[r]
  BY <1>1 DEF StartIncremental, StartFull, GetStartToken, DrainPage,
     FinishIncremental, FinishFull, SyncDies
<1>4. f \in sync'[s].file <=> f \in sync[s].file
  <2>1. CASE StartIncremental(s) \/ StartFull(s)
    BY <1>1, <2>1 DEF StartIncremental, StartFull, SyncState
  <2>2. CASE FinishIncremental(s) \/ FinishFull(s)
    BY <1>1, <2>2 DEF FinishIncremental, FinishFull, SyncOver, FileHeld
  <2>3. CASE SyncDies(s)
    BY <1>1, <2>3 DEF SyncDies, SyncOver
  <2>4. CASE GetStartToken(s)
    BY <1>1, <2>4 DEF GetStartToken, SyncState
  <2>5. CASE \E last \in 0..log : DrainPage(s, last)
    <3>1. PICK last \in 0..log : DrainPage(s, last)
      BY <2>5
    <3>2. sync'[s].file = sync[s].file
      BY <1>1, <3>1 DEF DrainPage, SyncState
    <3>3. QED
      BY <3>2
  <2>6. QED
    BY <2>1, <2>2, <2>3, <2>4, <2>5
<1>5. RemovingFor(f)' = RemovingFor(f)
  BY <1>3, <1>4 DEF RemovingFor
<1>6. /\ QueuedFor(f)' = QueuedFor(f) /\ RunningFor(f)' = RunningFor(f)
      /\ ChunksOf(f)' = ChunksOf(f)
  BY <1>2 DEF QueuedFor, RunningFor, ChunksOf, FileOf, TaskOf
<1>7. \A r \in RemovingFor(f) : sync'[r] = sync[r]
  <2>1. sync[s].file = {} \/ SyncDies(s)
    BY <1>1 DEF FileHeld, StartIncremental, StartFull, GetStartToken, DrainPage,
       FinishIncremental, FinishFull
  <2>2. f \notin sync[s].file
    BY <1>4, <2>1 DEF SyncDies
  <2>3. QED
    BY <1>3, <2>2 DEF RemovingFor
<1>8. QED
  BY <1>2, <1>5, <1>6, <1>7, StillOrderly

\* A change of a file that is there, of an incremental run.
LEMMA EditOrderly ==
    ASSUME Good, NEW s \in Syncs, NEW e \in sync[s].todo, ApplyEdit(s, e),
           NEW f \in Files, f \notin disturbed', f \notin disturbed => Orderly(f)
    PROVE  Orderly(f)'
<1>1. /\ sync \in [Syncs -> SyncState] /\ e \in Entry
      /\ e.ver = drive[e.file].ver => e.gone = drive[e.file].gone
  BY SyncNextTyped DEF Good, IInv, Held, TypeOK, EntriesTrue
<1>2. \A r \in Syncs : sync'[r].file = sync[r].file
  BY <1>1 DEF ApplyEdit, SyncState
<1>3. /\ Enqueue(s, e) /\ ~e.gone
      /\ UNCHANGED <<drive, worker, doc, chunks>>
  BY DEF ApplyEdit, driveVars, indexVars
<1>4. \A r \in Syncs : sync[r].file # {} => sync'[r] = sync[r]
  <2>1. sync[s].file = {}
    BY DEF Good, Held, FileHeld, ApplyEdit, NextChange
  <2>2. QED
    BY <1>1, <2>1 DEF ApplyEdit
<1>5. QED
  BY <1>1, <1>2, <1>3, <1>4, EnqueueOrderly

\* Only a change made in Drive takes a file off the record of the disturbed.
LEMMA WorkerDisturbs ==
    ASSUME NEW w \in Workers, WorkerStep(w) PROVE disturbed \subseteq disturbed'
  BY DEF WorkerStep, Take, UpsertRow, Extract, MarkStatus, SaveExtracted,
     BeginReplace, CommitReplace, TaskDies, history

\* A step of a worker, whatever file it is about.
LEMMA AnyWorkerOrderly ==
    ASSUME Good, NEW w \in Workers, WorkerStep(w),
           NEW f \in Files, f \notin disturbed', f \notin disturbed => Orderly(f)
    PROVE  Orderly(f)'
<1>1. Orderly(f) /\ TypeOK /\ TaskHeld
  BY WorkerDisturbs DEF Good, IInv, Held
<1>2. CASE worker[w].pc # "free" /\ FileOf(w) = f
  BY <1>1, <1>2, WorkerOrderly
<1>3. CASE worker[w].pc # "free" /\ FileOf(w) # f
  <2>1. worker'[w].pc # "free" => FileOf(w)' = FileOf(w)
    <3>1. worker'[w].pc # "free" => worker'[w].task = worker[w].task
      BY <1>1, <1>3, WorkerMoves DEF FreeWorker
    <3>2. QED
      BY <3>1 DEF FileOf, TaskOf
  <2>2. QED
    BY <1>1, <1>3, <2>1, WorkerElsewhere
<1>4. CASE worker[w].pc = "free"
  <2>1. CASE worker'[w] = FreeWorker
    BY <1>1, <1>4, <2>1, WorkerElsewhere DEF FreeWorker
  <2>2. CASE \E t \in queue : Take(w, t) /\ worker'[w].task = {t}
    <3>1. PICK t \in queue : Take(w, t) /\ worker'[w].task = {t}
      BY <2>2
    <3>2. FileOf(w)' = t.file
      BY <3>1 DEF FileOf, TaskOf
    <3>3. QED
      BY <1>1, <1>4, <3>1, <3>2, TakeOrderly, WorkerElsewhere
  <2>3. QED
    BY <1>1, <1>4, <2>1, <2>2, WorkerMoves
<1>5. QED
  BY <1>2, <1>3, <1>4

\* No step disorders a file but one that puts it on record as disturbed.
LEMMA OrderStep ==
    ASSUME Good, Next, NEW f \in Files, f \notin disturbed',
           f \notin disturbed => Orderly(f)
    PROVE  Orderly(f)'
<1>1. CASE \E g \in Files, gone, empty \in BOOLEAN : DriveChange(g, gone, empty)
  BY <1>1, DriveOrderly
<1>2. CASE \E s \in Syncs : \E last \in 0..log :
               sync[s].next <= last + 1 /\ DrainPage(s, last)
  BY <1>2, SyncElsewhere
<1>3. CASE \E s \in Syncs : \/ StartIncremental(s) \/ StartFull(s)
                            \/ GetStartToken(s) \/ FinishIncremental(s)
                            \/ FinishFull(s) \/ SyncDies(s)
  BY <1>3, SyncElsewhere
<1>4. CASE \E s \in Syncs : \E e \in sync[s].todo : ApplyEdit(s, e)
  BY <1>4, EditOrderly
<1>5. CASE \E s \in Syncs : \E e \in sync[s].todo : ApplyRemoval(s, e)
  BY <1>5, RemovalOrderly
<1>6. CASE \E s \in Syncs : RemoveRow(s)
  BY <1>6, RemoveRowOrderly DEF RemoveRow
<1>10. CASE \E s \in Syncs : \E g \in sync[s].file : Cascade(s, g)
  <2>1. PICK s \in Syncs : \E g \in sync[s].file : Cascade(s, g)
    BY <1>10
  <2>2. PICK g \in sync[s].file : Cascade(s, g)
    BY <2>1
  <2>3. disturbed' = disturbed
    BY <2>2 DEF Cascade, history
  <2>4. QED
    BY <2>2, <2>3, CascadeOrderly
<1>7. CASE \E s \in Syncs : \E g \in sync[s].list : ListFile(s, g)
  BY <1>7, ListOrderly
<1>8. CASE \E w \in Workers : WorkerStep(w)
  BY <1>8, AnyWorkerOrderly
<1>9. QED
  BY <1>1, <1>2, <1>3, <1>4, <1>5, <1>6, <1>7, <1>8, <1>10, NextCases

\* A new domain is empty, and so is its index.
LEMMA IndexInit == Init => SeesOwn /\ CascadeOwn /\ IndexInv
<1> SUFFICES ASSUME Init PROVE SeesOwn /\ CascadeOwn /\ IndexInv
    OBVIOUS
<1>1. SeesOwn /\ CascadeOwn
  BY DEF Init, SeesOwn, CascadeOwn, FreeWorker, SyncOver
<1>2. TaskHeld /\ FileHeld /\ OneFile /\ EntriesTrue /\ OnlyMetadata /\ TextsTrue
  BY DEF Init, TaskHeld, FileHeld, OneFile, EntriesTrue, OnlyMetadata, TextsTrue, FoundText,
         FoundNone, FreeWorker, SyncOver
<1>3. ASSUME NEW f \in Files PROVE Orderly(f) /\ NothingLeft(f)
  <2>1. QueuedFor(f) = {} /\ RunningFor(f) = {} /\ RemovingFor(f) = {}
    BY DEF Init, QueuedFor, RunningFor, RemovingFor, FreeWorker, SyncOver
  <2>2. Fresh(f) /\ NothingLeft(f)
    BY DEF Init, Fresh, NothingLeft
  <2>3. QED
    BY <2>1, <2>2 DEF Resting, Orderly
<1>4. QED
  BY <1>1, <1>2, <1>3 DEF IndexInv, Held

\* The invariant of the index survives every step.
LEMMA IndexStep ==
    IInv /\ SeesOwn /\ CascadeOwn /\ IndexInv /\ [Next]_vars => IndexInv'
<1> SUFFICES ASSUME IInv, SeesOwn, CascadeOwn, IndexInv, [Next]_vars PROVE IndexInv'
    OBVIOUS
<1>1. Good /\ TypeOK /\ WorkersHold
  BY DEF Good, IndexInv, IInv
<1>2. Held'
  BY <1>1, HeldStep DEF Good
<1>3. CASE Next
  <2>1. ASSUME NEW f \in Files \ disturbed' PROVE Orderly(f)'
    BY <1>1, <1>3, OrderStep DEF IndexInv
  <2>2. ASSUME NEW f \in Files \ orphaned' PROVE NothingLeft(f)'
    <3>1. NothingLeft(f)
      BY <1>1, <1>3, OrphanedGrows DEF IndexInv
    <3>2. QED
      BY <1>1, <1>3, <3>1, WorkerLeavesNone, SyncLeavesNone
  <2>3. QED
    BY <1>2, <2>1, <2>2 DEF IndexInv
<1>4. CASE UNCHANGED vars
  <2>1. ASSUME NEW f \in Files PROVE Orderly(f) => Orderly(f)'
    <3>1. /\ QueuedFor(f)' = QueuedFor(f) /\ RunningFor(f)' = RunningFor(f)
          /\ RemovingFor(f)' = RemovingFor(f) /\ ChunksOf(f)' = ChunksOf(f)
      BY <1>4 DEF vars, QueuedFor, RunningFor, RemovingFor, ChunksOf, FileOf, TaskOf
    <3>2. QED
      BY <1>4, <3>1, StillOrderly DEF vars
  <2>2. ASSUME NEW f \in Files PROVE NothingLeft(f) => NothingLeft(f)'
    BY <1>4 DEF vars, NothingLeft, ChunksOf
  <2>3. QED
    BY <1>2, <1>4, <2>1, <2>2 DEF IndexInv, vars
<1>5. QED
  BY <1>3, <1>4

\* When the system is quiet, nothing is under way and every file is caught up
\* with, or its removal was swallowed.
LEMMA QuietIsFresh == IInv /\ IndexInv => QuietIndexIsFresh
<1> SUFFICES ASSUME IInv, IndexInv PROVE QuietIndexIsFresh
    OBVIOUS
<1>1. ASSUME Quiet, NEW f \in Files \ (disturbed \cup swallowed) PROVE Fresh(f)
  <2>1. TypeOK /\ LogOrdered /\ CursorCoversApplied /\ Held /\ Orderly(f)
    BY DEF IInv, IndexInv
  <2>2. QueuedFor(f) = {} /\ RunningFor(f) = {}
    BY <1>1 DEF Quiet, QueuedFor, RunningFor
  <2>3. RemovingFor(f) = {}
    BY <1>1, <2>1 DEF Quiet, Held, FileHeld, RemovingFor
  <2>4. Resting(f)
    BY <2>1, <2>2, <2>3 DEF Orderly, Queued, Running, Removing
  <2>5. /\ applied[f] \in Nat /\ drive[f].ver \in Nat /\ cursor \in Nat /\ log \in Nat
        /\ applied[f] <= drive[f].ver /\ drive[f].ver <= log /\ log < cursor
    BY <1>1, <2>1 DEF TypeOK, LogOrdered, Quiet
  <2>6. 0 < drive[f].ver => applied[f] = drive[f].ver
    <3>1. drive[f].ver < cursor
      BY <2>5
    <3>2. QED
      BY <2>1, <3>1 DEF CursorCoversApplied
  <2>7. Caught(f)
    BY <2>5, <2>6 DEF Caught
  <2>8. QED
    BY <2>4, <2>7 DEF Resting
<1>2. QED
  BY <1>1 DEF QuietIndexIsFresh, IndexInv

\* Whatever syncs and workers do at the same time and wherever they die, once the
\* system is quiet every file that was not disturbed or swallowed is indexed as it
\* is in Drive, metadata and text, or marked as skipped where it lost its text;
\* chunks are left without a row only by a removal that a task overlapped between
\* its cascade and its end.
THEOREM QuietIndexIsComplete == Spec => []QuietIndexIsFresh
<1>1. IInv /\ SeesOwn /\ CascadeOwn /\ [Next]_vars => SeesOwn' /\ CascadeOwn'
  BY SeesOwnStep, CascadeOwnStep DEF IInv
<1>2. QED
  BY <1>1, InvInit, InvStep, IndexInit, IndexStep, QuietIsFresh, PTL DEF Spec
=============================================================================
