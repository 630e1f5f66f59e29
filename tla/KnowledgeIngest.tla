-------------------------- MODULE KnowledgeIngest --------------------------
(***************************************************************************)
(* The Google Drive knowledge index: apps/data_access/knowledge/tasks.py,   *)
(* indexer.py and discovery.py.                                            *)
(*                                                                         *)
(* A sync is one execution of full_ingest_workspace or                     *)
(* incremental_ingest_workspace. It finds out which files changed, queues  *)
(* an ingest_drive_file task for each that is there, removes the document  *)
(* of each that is gone and at the end moves the Drive cursor. Workers run *)
(* the queued tasks: upsert the document row, extract its text, save it,   *)
(* and replace its chunks. Syncs and workers run at the same time and any   *)
(* of them may die between two steps.                                      *)
(*                                                                         *)
(* The change log of the Drive Changes API is a counter: the n-th change   *)
(* of the domain has position n, a page token t stands for the changes at  *)
(* positions t and later, and the version of a file is the position of its  *)
(* last change. A cursor of 0 is the empty string.                         *)
(*                                                                         *)
(* One tenant is modelled, and its tasks run in its schema. That is what   *)
(* the code is written for and what eager tasks do; that a task queued by   *)
(* .delay carries no schema is the matter of BeatDispatch.                 *)
(***************************************************************************)
EXTENDS Naturals, FiniteSets

CONSTANTS
    Files,        \* the Drive files of the domain
    Supported,    \* those whose mime type is in SUPPORTED_MIMES
    Syncs,        \* executions of a full or an incremental ingest
    Workers,      \* Celery workers that run ingest_drive_file
    MaxChanges    \* bound: changes made in Drive

ASSUME IngestAssumption ==
    /\ Supported \subseteq Files
    /\ MaxChanges \in Nat

VARIABLES
    drive,      \* drive[f]: the file, its version, is it gone, has it no text
    log,        \* number of changes in the Drive change log
    cursor,     \* IngestionCursor.cursor of "drive_changes"
    sync,       \* sync[s]: where sync s stands and what it holds
    queue,      \* ingest_drive_file tasks in the broker
    worker,     \* worker[w]: where worker w stands and what it holds
    doc,        \* doc[f]: the WorkspaceDocument row of f, or NoDoc
    gens,       \* gens[f]: how many rows were inserted for f (primary keys)
    chunks,     \* the knowledge chunks, one element for all chunks of one text
    applied,    \* history: version of the newest change of f acted upon
    swallowed,  \* history: gone files whose removal a full ingest jumped over
    disturbed,  \* history: files with a failed, overlapping or outdated task
    orphaned    \* history: files whose row was deleted over chunks of it

vars == <<drive, log, cursor, sync, queue, worker, doc, gens, chunks,
          applied, swallowed, disturbed, orphaned>>

driveVars == <<drive, log>>
indexVars == <<doc, gens, chunks>>
history   == <<applied, swallowed, disturbed, orphaned>>

-----------------------------------------------------------------------------
\* A change as a sync sees it.
Entry == [file : Files, ver : Nat, gone : BOOLEAN]

Task == [file : Files, ver : Nat, by : Syncs]

\* The chunks one task made of one text; gen is the primary key of their row.
Chunks == [file : Files, gen : Nat \ {0}, ver : Nat, by : Task]

Status == {"pending", "extracted", "indexed", "failed", "skipped"}

NoDoc == [gen |-> 0, meta |-> 0, text |-> 0, status |-> "absent"]

Document == [gen : Nat \ {0}, meta : Nat, text : Nat, status : Status]

\* "drain" asks for pages of changes and "token" for a start token, "applying"
\* and "listing" work through what Drive returned, "removing" is between the
\* two deletes of remove_document and "cascading" inside the second.
SyncState ==
    [pc   : {"idle", "drain", "applying", "removing", "cascading", "token",
             "listing", "over"},
     next : Nat,             \* the page token it will ask for, or write
     todo : SUBSET Entry,    \* changes drained and not yet acted upon
     list : SUBSET Files,    \* files not yet listed
     file : SUBSET Files,    \* the file being removed
     gen  : Nat,             \* primary key of the row qs.delete() collected
     sees : SUBSET Chunks]   \* chunks its cascade matched

WorkerState ==
    [pc   : {"free", "taken", "upserted", "extracted", "failing", "skipping",
             "embedding", "replacing"},
     task : SUBSET Task,     \* the task it runs
     gen  : Nat,             \* primary key of the row it holds
     text : Nat,             \* version of the text it extracted
     sees : SUBSET Chunks]   \* chunks its DELETE matched

TypeOK ==
    /\ drive \in [Files -> [ver : Nat, gone : BOOLEAN, empty : BOOLEAN]]
    /\ log \in Nat
    /\ cursor \in Nat
    /\ sync \in [Syncs -> SyncState]
    /\ queue \subseteq Task
    /\ worker \in [Workers -> WorkerState]
    /\ doc \in [Files -> Document \cup {NoDoc}]
    /\ gens \in [Files -> Nat]
    /\ chunks \subseteq Chunks
    /\ applied \in [Files -> Nat]
    /\ swallowed \subseteq Files
    /\ disturbed \subseteq Files
    /\ orphaned \subseteq Files

SyncOver == [pc |-> "over", next |-> 0, todo |-> {}, list |-> {}, file |-> {},
             gen |-> 0, sees |-> {}]

FreeWorker == [pc |-> "free", task |-> {}, gen |-> 0, text |-> 0, sees |-> {}]

\* A new domain: no file exists yet and nothing is indexed.
Init ==
    /\ drive = [f \in Files |-> [ver |-> 0, gone |-> TRUE, empty |-> FALSE]]
    /\ log = 0
    /\ cursor = 0
    /\ sync = [s \in Syncs |-> [SyncOver EXCEPT !.pc = "idle"]]
    /\ queue = {}
    /\ worker = [w \in Workers |-> FreeWorker]
    /\ doc = [f \in Files |-> NoDoc]
    /\ gens = [f \in Files |-> 0]
    /\ chunks = {}
    /\ applied = [f \in Files |-> 0]
    /\ swallowed = {}
    /\ disturbed = {}
    /\ orphaned = {}

-----------------------------------------------------------------------------
(* Drive.                                                                  *)

\* A task for f is queued or running, or the document of f is being removed.
Busy(f) ==
    \/ \E t \in queue : t.file = f
    \/ \E w \in Workers : \E t \in worker[w].task : t.file = f
    \/ \E s \in Syncs : f \in sync[s].file

\* A file is created, edited or restored, with or without a text an extractor
\* finds in it, or else it is trashed or deleted.
DriveChange(f, gone, empty) ==
    /\ log < MaxChanges
    /\ IF gone THEN ~drive[f].gone /\ empty = drive[f].empty
               ELSE empty => f \in Supported
    /\ log' = log + 1
    /\ drive' = [drive EXCEPT ![f] = [ver |-> log', gone |-> gone, empty |-> empty]]
    /\ swallowed' = swallowed \ {f}
    /\ disturbed' = IF Busy(f) THEN disturbed ELSE disturbed \ {f}
    /\ UNCHANGED <<cursor, sync, queue, worker, indexVars, applied, orphaned>>

Seen(f) == [file |-> f, ver |-> drive[f].ver, gone |-> drive[f].gone]

-----------------------------------------------------------------------------
(* Acting on a change: history first.                                      *)

\* The change e of a file is acted upon: out of order when a newer one already
\* was, overlapping when a task of the file is still under way.
Act(e) ==
    /\ applied' = [applied EXCEPT ![e.file] = IF @ < e.ver THEN e.ver ELSE @]
    /\ disturbed' = IF Busy(e.file) \/ e.ver < applied[e.file]
                      THEN disturbed \cup {e.file} ELSE disturbed
    /\ UNCHANGED <<swallowed, orphaned>>

\* ingest_drive_file.delay(f), with the metadata Drive returned.
Enqueue(s, e) ==
    /\ queue' = queue \cup {[file |-> e.file, ver |-> e.ver, by |-> s]}
    /\ Act(e)

\* Mutation: update without create.
UpsertedOnlyIfThere(f, ver) == [doc[f] EXCEPT !.meta = ver]

\* upsert_drive_file: update_or_create by (source, external_id). A new row is
\* PENDING; an existing row keeps its status, text and chunks.
Upserted(f, ver) ==
    IF doc[f] = NoDoc
      THEN [gen |-> gens[f] + 1, meta |-> ver, text |-> 0, status |-> "pending"]
      ELSE [doc[f] EXCEPT !.meta = ver]

Upsert(f, ver) ==
    /\ doc' = [doc EXCEPT ![f] = Upserted(f, ver)]
    /\ gens' = IF doc[f] = NoDoc THEN [gens EXCEPT ![f] = @ + 1] ELSE gens

-----------------------------------------------------------------------------
(* incremental_ingest_workspace.                                           *)

\* The cursor row is read; without a cursor the run falls back to a full one.
StartIncremental(s) ==
    /\ sync[s].pc = "idle"
    /\ sync' = [sync EXCEPT ![s].pc = IF cursor = 0 THEN "token" ELSE "drain",
                            ![s].next = cursor]
    /\ UNCHANGED <<driveVars, cursor, queue, worker, indexVars, history>>

\* The changes of one page: the files whose last change is in it, as they are.
PageOfChanges(first, last) ==
    {Seen(f) : f \in {g \in Files : first <= drive[g].ver /\ drive[g].ver <= last}}

\* iter_drive_changes: one changes.list request, up to the change at position
\* last. It goes on while there is a nextPageToken; the newStartPageToken comes
\* with the page that reaches the end of the log.
DrainPage(s, last) ==
    /\ sync[s].pc = "drain"
    /\ sync' = [sync EXCEPT
          ![s].pc = IF last = log THEN "applying" ELSE "drain",
          ![s].todo = @ \cup PageOfChanges(sync[s].next, last),
          ![s].next = last + 1]
    /\ UNCHANGED <<driveVars, cursor, queue, worker, indexVars, history>>

\* The changes are acted upon in the order of the log.
NextChange(s, e) ==
    /\ sync[s].pc = "applying"
    /\ e \in sync[s].todo
    /\ \A o \in sync[s].todo : e.ver <= o.ver

\* A change of a file that is there: queue its task.
ApplyEdit(s, e) ==
    /\ NextChange(s, e) /\ ~e.gone
    /\ Enqueue(s, e)
    /\ sync' = [sync EXCEPT ![s].todo = @ \ {e}]
    /\ UNCHANGED <<driveVars, cursor, worker, indexVars>>

ChunksOf(f) == {c \in chunks : c.file = f /\ c.gen = doc[f].gen}

\* A removed or trashed file: remove_document is called at once. Its first
\* statements delete the chunks of the row, if there is a row.
ApplyRemoval(s, e) ==
    /\ NextChange(s, e) /\ e.gone
    /\ Act(e)
    /\ chunks' = chunks \ ChunksOf(e.file)
    /\ sync' = [sync EXCEPT ![s].pc = "removing", ![s].todo = @ \ {e},
                            ![s].file = {e.file}]
    /\ UNCHANGED <<driveVars, cursor, queue, worker, doc, gens>>

\* qs.delete() collects the row, if there is one, and in a transaction deletes
\* its chunks first: KnowledgeChunk.document cascades.
Cascade(s, f) ==
    /\ sync[s].pc = "removing"
    /\ f \in sync[s].file
    /\ sync' = [sync EXCEPT ![s].pc = "cascading", ![s].gen = doc[f].gen,
                            ![s].sees = ChunksOf(f)]
    /\ UNCHANGED <<driveVars, cursor, queue, worker, indexVars, history>>

\* The files whose row still has the key the cascade of s collected.
Collected(s) == {f \in sync[s].file : doc[f].gen = sync[s].gen}

\* Then the row itself, and the transaction commits. Chunks committed since the
\* cascade stay without a row: the column that refers to it has no constraint.
RemoveRow(s) ==
    /\ sync[s].pc = "cascading"
    /\ chunks' = chunks \ sync[s].sees
    /\ doc' = [f \in Files |-> IF f \in Collected(s) THEN NoDoc ELSE doc[f]]
    /\ orphaned' = orphaned \cup
           {f \in Collected(s) : ~ ChunksOf(f) \subseteq sync[s].sees}
    /\ sync' = [sync EXCEPT ![s].pc = "applying", ![s].file = {}, ![s].gen = 0,
                            ![s].sees = {}]
    /\ UNCHANGED <<driveVars, cursor, queue, worker, gens, applied, swallowed,
                   disturbed>>

\* Every change is acted upon: the cursor row is saved, whatever it holds now.
FinishIncremental(s) ==
    /\ sync[s].pc = "applying"
    /\ sync[s].todo = {}
    /\ cursor' = sync[s].next
    /\ sync' = [sync EXCEPT ![s] = SyncOver]
    /\ UNCHANGED <<driveVars, queue, worker, indexVars, history>>

-----------------------------------------------------------------------------
(* full_ingest_workspace.                                                  *)

StartFull(s) ==
    /\ sync[s].pc = "idle"
    /\ sync' = [sync EXCEPT ![s].pc = "token"]
    /\ UNCHANGED <<driveVars, cursor, queue, worker, indexVars, history>>

\* get_start_page_token, before the first page of files.list.
GetStartToken(s) ==
    /\ sync[s].pc = "token"
    /\ sync' = [sync EXCEPT ![s].pc = "listing", ![s].next = log + 1,
                            ![s].list = Files]
    /\ UNCHANGED <<driveVars, cursor, queue, worker, indexVars, history>>

\* files.list comes to f: a file that is gone is not listed, a supported one is
\* queued, of another only the metadata is recorded.
ListFile(s, f) ==
    /\ sync[s].pc = "listing"
    /\ f \in sync[s].list
    /\ sync' = [sync EXCEPT ![s].list = @ \ {f}]
    /\ \/ /\ drive[f].gone
          /\ UNCHANGED <<queue, doc, gens, history>>
       \/ /\ ~drive[f].gone /\ f \in Supported
          /\ Enqueue(s, Seen(f))
          /\ UNCHANGED <<doc, gens>>
       \/ /\ ~drive[f].gone /\ f \notin Supported
          /\ Upsert(f, drive[f].ver)
          /\ Act(Seen(f))
          /\ UNCHANGED queue
    /\ UNCHANGED <<driveVars, cursor, worker, chunks>>

\* Mutation: the start token is asked for after the listing.
FinishFullLateToken(s) ==
    /\ sync[s].pc = "listing"
    /\ sync[s].list = {}
    /\ cursor' = log + 1
    /\ swallowed' = swallowed \cup {f \in Files : drive[f].gone}
    /\ sync' = [sync EXCEPT ![s] = SyncOver]
    /\ UNCHANGED <<driveVars, queue, worker, indexVars, applied, disturbed,
                   orphaned>>

\* The listing is over: the cursor jumps to the start token. A removal before
\* that token which no incremental run applied will never be read again.
FinishFull(s) ==
    /\ sync[s].pc = "listing"
    /\ sync[s].list = {}
    /\ cursor' = sync[s].next
    /\ swallowed' = swallowed \cup
           {f \in Files : drive[f].gone /\ drive[f].ver < sync[s].next
                                        /\ applied[f] < drive[f].ver}
    /\ sync' = [sync EXCEPT ![s] = SyncOver]
    /\ UNCHANGED <<driveVars, queue, worker, indexVars, applied, disturbed,
                   orphaned>>

\* The task of a sync dies: a Drive request raises or the worker is killed.
SyncDies(s) ==
    /\ sync[s].pc \notin {"idle", "over"}
    /\ sync' = [sync EXCEPT ![s] = SyncOver]
    /\ disturbed' = disturbed \cup sync[s].file
    /\ UNCHANGED <<driveVars, cursor, queue, worker, indexVars, applied, swallowed,
                   orphaned>>

-----------------------------------------------------------------------------
(* ingest_drive_file.                                                      *)

TaskOf(w) == CHOOSE t \in worker[w].task : TRUE
FileOf(w) == TaskOf(w).file

Take(w, t) ==
    /\ worker[w].pc = "free"
    /\ t \in queue
    /\ queue' = queue \ {t}
    /\ worker' = [worker EXCEPT ![w].pc = "taken", ![w].task = {t}]
    /\ UNCHANGED <<driveVars, cursor, sync, indexVars, history>>

UpsertRow(w) ==
    /\ worker[w].pc = "taken"
    /\ Upsert(FileOf(w), TaskOf(w).ver)
    /\ worker' = [worker EXCEPT
          ![w].pc = IF FileOf(w) \in Supported THEN "upserted" ELSE "skipping",
          ![w].gen = doc'[FileOf(w)].gen]
    /\ UNCHANGED <<driveVars, cursor, sync, queue, chunks, history>>

\* extract: the text as it is in Drive now. A trashed file can still be read. A
\* file without a text is skipped, an exception is caught and recorded.
Extract(w, outcome) ==
    /\ worker[w].pc = "upserted"
    /\ outcome # "failing" => (outcome = "skipping" <=> drive[FileOf(w)].empty)
    /\ worker' = [worker EXCEPT ![w].pc = outcome,
                                ![w].text = drive[FileOf(w)].ver]
    /\ disturbed' = IF outcome = "failing" THEN disturbed \cup {FileOf(w)}
                    ELSE disturbed
    /\ UNCHANGED <<driveVars, cursor, sync, queue, indexVars, applied, swallowed,
                   orphaned>>

\* The row the worker holds is still there.
HoldsRow(w) == doc[FileOf(w)].gen = worker[w].gen

Free(w) == worker' = [worker EXCEPT ![w] = FreeWorker]

\* The outcome is saved, and nothing else: the text and the chunks of an earlier
\* version stay. save(update_fields=[status, ...]) of a row that is gone raises
\* DatabaseError and the task dies: see TaskDies.
MarkStatus(w) ==
    /\ worker[w].pc \in {"failing", "skipping"}
    /\ HoldsRow(w)
    /\ doc' = [doc EXCEPT ![FileOf(w)].status =
                  IF worker[w].pc = "failing" THEN "failed" ELSE "skipped"]
    /\ Free(w)
    /\ UNCHANGED <<driveVars, cursor, sync, queue, gens, chunks, history>>

\* document.save() of every column: it overwrites the metadata with those of
\* this task, and inserts the row again, under its old key, when it is gone.
\* A row with another key makes the insert fail on the unique constraint.
SaveExtracted(w) ==
    /\ worker[w].pc = "extracted"
    /\ HoldsRow(w) \/ doc[FileOf(w)] = NoDoc
    /\ doc' = [doc EXCEPT ![FileOf(w)] =
                  [gen |-> worker[w].gen, meta |-> TaskOf(w).ver,
                   text |-> worker[w].text, status |-> "extracted"]]
    /\ worker' = [worker EXCEPT ![w].pc = "embedding"]
    /\ UNCHANGED <<driveVars, cursor, sync, queue, gens, chunks, history>>

\* Mutation: the DELETE is committed at once, outside of a transaction.
BeginReplaceAutocommit(w) ==
    /\ worker[w].pc = "embedding"
    /\ worker' = [worker EXCEPT ![w].pc = "replacing"]
    /\ chunks' = chunks \ {c \in chunks : c.file = FileOf(w) /\ c.gen = worker[w].gen}
    /\ UNCHANGED <<driveVars, cursor, sync, queue, doc, gens, history>>

\* chunk_text and embed_texts are done and the transaction begins: its DELETE
\* matches the chunks committed by now.
BeginReplace(w) ==
    /\ worker[w].pc = "embedding"
    /\ worker' = [worker EXCEPT
          ![w].pc = "replacing",
          ![w].sees = {c \in chunks : c.file = FileOf(w) /\ c.gen = worker[w].gen}]
    /\ UNCHANGED <<driveVars, cursor, sync, queue, indexVars, history>>

NewChunks(w) == [file |-> FileOf(w), gen |-> worker[w].gen,
                 ver |-> worker[w].text, by |-> TaskOf(w)]

\* Mutation: the old chunks stay.
CommitWithoutDelete(w) ==
    /\ worker[w].pc = "replacing"
    /\ HoldsRow(w)
    /\ chunks' = chunks \cup {NewChunks(w)}
    /\ doc' = [doc EXCEPT ![FileOf(w)].status = "indexed"]
    /\ Free(w)
    /\ UNCHANGED <<driveVars, cursor, sync, queue, gens, history>>

\* The transaction commits: old chunks out, new ones in, INDEXED. The UPDATE of
\* a row that is gone raises and rolls back: see TaskDies.
CommitReplace(w) ==
    /\ worker[w].pc = "replacing"
    /\ HoldsRow(w)
    /\ chunks' = (chunks \ worker[w].sees) \cup {NewChunks(w)}
    /\ doc' = [doc EXCEPT ![FileOf(w)].status = "indexed"]
    /\ Free(w)
    /\ UNCHANGED <<driveVars, cursor, sync, queue, gens, history>>

\* The task ends before its last step: embed_texts or the database raises, or
\* the worker is killed. Tasks are acknowledged when taken, so it is not rerun.
TaskDies(w) ==
    /\ worker[w].pc # "free"
    /\ disturbed' = disturbed \cup {FileOf(w)}
    /\ Free(w)
    /\ UNCHANGED <<driveVars, cursor, sync, queue, indexVars, applied, swallowed,
                   orphaned>>

-----------------------------------------------------------------------------
SyncStep(s) ==
    \/ StartIncremental(s)
    \/ \E last \in 0..log : sync[s].next <= last + 1 /\ DrainPage(s, last)
    \/ \E e \in sync[s].todo : ApplyEdit(s, e) \/ ApplyRemoval(s, e)
    \/ \E f \in sync[s].file : Cascade(s, f)
    \/ RemoveRow(s)
    \/ FinishIncremental(s)
    \/ StartFull(s)
    \/ GetStartToken(s)
    \/ \E f \in sync[s].list : ListFile(s, f)
    \/ FinishFull(s)
    \/ SyncDies(s)

WorkerStep(w) ==
    \/ \E t \in queue : Take(w, t)
    \/ UpsertRow(w)
    \/ \E outcome \in {"extracted", "failing", "skipping"} : Extract(w, outcome)
    \/ MarkStatus(w)
    \/ SaveExtracted(w)
    \/ BeginReplace(w)
    \/ CommitReplace(w)
    \/ TaskDies(w)

Next ==
    \/ \E f \in Files, gone, empty \in BOOLEAN : DriveChange(f, gone, empty)
    \/ \E s \in Syncs : SyncStep(s)
    \/ \E w \in Workers : WorkerStep(w)

Spec == Init /\ [][Next]_vars

-----------------------------------------------------------------------------
(* Properties.                                                             *)

\* The cursor passes a change only after the change was acted upon: its task
\* was queued or its document removed. The one exception is a removal that a
\* full ingest jumps over. Overlapping and dying syncs, changes made while a
\* sync lists or drains, and cursors that move back do not break it: what is
\* "created during full sync is then picked up by the next incremental run".
CursorCoversApplied ==
    \A f \in Files :
        0 < drive[f].ver /\ drive[f].ver < cursor =>
            applied[f] = drive[f].ver \/ f \in swallowed

\* All syncs are over, all tasks done and every change is behind the cursor.
Quiet ==
    /\ queue = {}
    /\ \A w \in Workers : worker[w].pc = "free"
    /\ \A s \in Syncs : sync[s].pc \in {"idle", "over"}
    /\ log < cursor

\* The row of f is in the index with the newest metadata. The chunks are those
\* of its newest text, and carry the newest metadata too. A file that was
\* emptied is only marked: chunks of a text it had before may stay with its
\* row, and a search, which asks for no status, still finds them.
Fresh(f) ==
    IF drive[f].gone THEN doc[f] = NoDoc
    ELSE /\ doc[f].meta = drive[f].ver
         /\ \/ /\ f \notin Supported
               /\ doc[f].status \in {"pending", "skipped"} /\ ChunksOf(f) = {}
            \/ /\ f \in Supported /\ drive[f].empty
               /\ doc[f].status = "skipped"
               /\ \A c \in ChunksOf(f) : c.ver < drive[f].ver
            \/ /\ f \in Supported /\ ~drive[f].empty
               /\ doc[f].status = "indexed" /\ doc[f].text = drive[f].ver
               /\ Cardinality(ChunksOf(f)) = 1
               /\ \A c \in ChunksOf(f) :
                     c.ver = drive[f].ver /\ c.by.ver = drive[f].ver

\* No chunks are left of an earlier row, or of none.
NothingLeft(f) == {c \in chunks : c.file = f} \subseteq ChunksOf(f)

\* Once the system is quiet, every file is indexed exactly as it is in Drive,
\* with the metadata of its last change and one set of chunks of its newest
\* text, and no row is left of a file that is gone. A file that has no text any
\* more is marked as skipped. The exceptions are named: a task of the file
\* failed or died, two of its tasks overlapped or acted out of order, or a full
\* ingest swallowed its removal. Chunks without a row are left only where a
\* task committed them between the cascade of a removal and its row's end; no
\* search finds them, and nothing removes them.
QuietIndexIsFresh ==
    /\ Quiet => \A f \in Files \ (disturbed \cup swallowed) : Fresh(f)
    /\ \A f \in Files \ orphaned : NothingLeft(f)

\* Indexing a document again never takes it out of the search, whoever fails or
\* overlaps: only remove_document leaves a row that had chunks without any.
NoDarkReindex ==
    [][\A f \in Files :
          ChunksOf(f) # {} /\ ChunksOf(f)' = {} /\ doc'[f] # NoDoc =>
              \E s \in Syncs : f \in sync'[s].file]_vars
=============================================================================
