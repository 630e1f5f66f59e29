------------------------ MODULE ConnectorSyncProofs ------------------------
(***************************************************************************)
(* Proofs about ConnectorSync for every finite set of deals, every set of  *)
(* runs and every page size; and about TokenBucket, the bucket that paces  *)
(* the runs, for every set of workers, capacity and rate.                  *)
(*                                                                         *)
(* NoSilentLoss is not inductive: it speaks of the stored cursor only. The *)
(* invariant IInv adds the same claim for each place a cursor value rests  *)
(* between being read and being written back (RunKnows below), the order   *)
(* between times (TimesOrdered) and between versions (VersionsOrdered).    *)
(*                                                                         *)
(* BurstIsBounded speaks of the tokens taken; it is inductive once the     *)
(* tokens that are still there are added: what was taken and what an entry *)
(* holds are together no more than what came in until the entry's time     *)
(* (Covers). The same is so of what a worker has read, until another       *)
(* writes; and of no entry at all, as an entry is dropped only when the    *)
(* bucket would be full.                                                   *)
(***************************************************************************)
EXTENDS ConnectorSync, TokenBucket, FiniteSetTheorems, TLAPS

Newest(d) == [deal |-> d, ver |-> remote[d].ver, time |-> remote[d].time]

\* No time anyone holds is ahead of the remote clock.
TimesOrdered ==
    /\ cursor <= clock
    /\ \A d \in Deals : remote[d].time <= clock
    /\ \A r \in Runs : /\ ctx[r].before <= clock
                       /\ ctx[r].after <= clock
                       /\ \A i \in ctx[r].todo : i.time <= clock

\* No copy of a deal is newer than the deal.
VersionsOrdered ==
    /\ \A d \in Deals : mirror[d] <= remote[d].ver
    /\ \A r \in Runs : \A i \in ctx[r].todo : i.ver <= remote[i.deal].ver

\* The offset follows the location: there are deals behind it as long as run r
\* asks for more, or there were when it last looked.
PagesOrdered ==
    \A r \in Runs : /\ pc[r] \in {"idle", "cursor_read", "created"} => ctx[r].start = 0
                    /\ pc[r] = "fetching" => ctx[r].start < Cardinality(Deals)
                    /\ pc[r] = "finalized" => ctx[r].todo = {}

\* The cursor run r will write, once its remaining rows are persisted, exceeds t.
Reaches(r, t) == t < ctx[r].after \/ \E i \in ctx[r].todo : t < i.time

\* A change no run has missed is mirrored, or is among the rows r will persist.
Handled(r, d) ==
    d \in excused \/ d \in ctx[r].missed \/ Mirrored(d) \/ Newest(d) \in ctx[r].todo

RunKnows(r) ==
    /\ pc[r] \in {"cursor_read", "created", "fetching"} =>
         \A d \in Deals :
             Listed(d) /\ remote[d].time < ctx[r].before => d \in excused \/ Mirrored(d)
    /\ pc[r] = "fetching" =>
         \A d \in Deals : place[d] \in 1..ctx[r].start => Handled(r, d)
    /\ pc[r] \in {"persisting", "finalized"} =>
         \A d \in Deals : Listed(d) /\ Reaches(r, remote[d].time) => Handled(r, d)

IInv == /\ TypeOK
        /\ TimesOrdered
        /\ VersionsOrdered
        /\ PagesOrdered
        /\ NoSilentLoss
        /\ \A r \in Runs : RunKnows(r)

\* A SyncRun row is final only once its run is past the loop, and a finalized
\* run still holds the cursor it recorded.
RowsFollow ==
    \A r \in Runs :
        /\ pc[r] \in {"idle", "cursor_read", "created", "fetching", "persisting"} =>
             row[r].status \notin Terminal
        /\ pc[r] = "finalized" => /\ row[r].status \in {"completed", "partial"}
                                  /\ row[r].after = ctx[r].after

\* The counters of the context account for the rows handled so far.
ContextCounts ==
    \A r \in Runs :
        ctx[r].fetched = ctx[r].created + ctx[r].updated + ctx[r].errors

\* What a run fetched is not older than the cursor it started from.
NotOlder ==
    \A r \in Runs : /\ \A i \in ctx[r].todo : i.time >= ctx[r].before
                    /\ ctx[r].after # 0 => ctx[r].after >= ctx[r].before
                    /\ pc[r] = "idle" => ctx[r].todo = {} /\ ctx[r].after = 0
-----------------------------------------------------------------------------
(* A step of the system is one of these; every proof below splits on them.  *)

\* Next, unfolded into its actions with their parameters bound.
LEMMA NextCases ==
    ASSUME Next
    PROVE  \/ \E d \in Deals : RemoteWrite(d) \/ RemoteDelete(d)
           \/ \E r \in Runs : ReadCursor(r)
           \/ \E r \in Runs : CreateRun(r)
           \/ \E r \in Runs : StartRun(r)
           \/ \E r \in Runs : FetchPage(r)
           \/ \E r \in Runs : \E i \in ctx[r].todo : PersistRow(r, i)
           \/ \E r \in Runs : \E i \in ctx[r].todo, late \in BOOLEAN : RowFails(r, i, late)
           \/ \E r \in Runs : RunFails(r)
           \/ \E r \in Runs : FinishRun(r)
           \/ \E r \in Runs : WriteCursor(r)
           \/ \E r \in Runs : Crash(r)
  BY DEF Next, Step

\* A row leaves the todo of its run, stored or failed; the other runs stand.
LEMMA RowLeaves ==
    ASSUME TypeOK, NEW r \in Runs, NEW i \in ctx[r].todo,
           PersistRow(r, i) \/ \E late \in BOOLEAN : RowFails(r, i, late)
    PROVE  /\ \A q \in Runs : q # r => ctx'[q] = ctx[q]
           /\ ctx'[r].todo = ctx[r].todo \ {i}
           /\ ctx'[r].before = ctx[r].before
           /\ ctx'[r].after \in {ctx[r].after, CursorAfter(ctx[r].after, i.time)}
           /\ UNCHANGED <<remote, place, clock, cursor, row, pc>>
           /\ ctx'[r].fetched = ctx[r].fetched + 1
           /\ \/ /\ ctx'[r].created + ctx'[r].updated = ctx[r].created + ctx[r].updated + 1
                 /\ ctx'[r].errors = ctx[r].errors
              \/ /\ ctx'[r].created + ctx'[r].updated = ctx[r].created + ctx[r].updated
                 /\ ctx'[r].errors = ctx[r].errors + 1
<1>1. r \in DOMAIN ctx /\ ctx[r] \in SyncContext
  BY DEF TypeOK
<1>2. CASE PersistRow(r, i)
  BY <1>1, <1>2 DEF PersistRow, TypeOK, SyncContext
<1>3. ASSUME NEW late \in BOOLEAN, RowFails(r, i, late)
      PROVE  /\ \A q \in Runs : q # r => ctx'[q] = ctx[q]
             /\ ctx'[r].todo = ctx[r].todo \ {i}
             /\ ctx'[r].before = ctx[r].before
             /\ ctx'[r].after \in {ctx[r].after, CursorAfter(ctx[r].after, i.time)}
             /\ UNCHANGED <<remote, place, clock, cursor, row, pc>>
             /\ ctx'[r].fetched = ctx[r].fetched + 1
             /\ ctx'[r].created = ctx[r].created /\ ctx'[r].updated = ctx[r].updated
             /\ ctx'[r].errors = ctx[r].errors + 1
  BY <1>1, <1>3 DEF RowFails, TypeOK, SyncContext
<1>4. QED
  BY <1>2, <1>3

\* How many deals there are.
LEMMA DealsCounted ==
    /\ Cardinality(Deals) \in Nat /\ Cardinality(Deals) > 0
    /\ \A S \in SUBSET Deals : Cardinality(S) \in Nat /\ Cardinality(S) <= Cardinality(Deals)
    /\ \A S \in SUBSET Deals : S # Deals => Cardinality(S) < Cardinality(Deals)
<1>1. IsFiniteSet(Deals) /\ Deals # {}
  BY PagesAssumption
<1>2. QED
  BY <1>1, FS_CardinalityType, FS_EmptySet, FS_Subset

\* What happens at Pipedrive adds to what runs have missed, and changes nothing
\* else of theirs.
LEMMA RemoteQuiet ==
    ASSUME TypeOK, NEW d \in Deals, RemoteWrite(d) \/ RemoteDelete(d)
    PROVE  /\ UNCHANGED <<mirror, cursor, row, pc>>
           /\ ctx' \in [Runs -> SyncContext]
           /\ \A r \in Runs :
                 /\ ctx'[r].before = ctx[r].before /\ ctx'[r].after = ctx[r].after
                 /\ ctx'[r].start = ctx[r].start /\ ctx'[r].todo = ctx[r].todo
                 /\ ctx'[r].fetched = ctx[r].fetched /\ ctx'[r].created = ctx[r].created
                 /\ ctx'[r].updated = ctx[r].updated /\ ctx'[r].errors = ctx[r].errors
                 /\ ctx[r].missed \subseteq ctx'[r].missed
                 /\ RemoteWrite(d) => \A e \in Deals \ {d} :
                       e \in ctx'[r].missed <=> e \in ctx[r].missed
                 /\ RemoteWrite(d) /\ MidFetchPast(r, d) => d \in ctx'[r].missed
                 /\ RemoteDelete(d) => \A e \in Deals :
                       place[e] > ctx[r].start /\ MidFetchPast(r, e) => e \in ctx'[r].missed
<1>1. PICK outrun \in [Runs -> SUBSET Deals] :
        /\ Outruns(outrun)
        /\ RemoteWrite(d) => \A r \in Runs : outrun[r] = {e \in {d} : MidFetchPast(r, e)}
        /\ RemoteDelete(d) => \A r \in Runs :
              outrun[r] = {e \in Deals : place[e] > ctx[r].start /\ MidFetchPast(r, e)}
  <2>1. CASE RemoteWrite(d) /\ ~RemoteDelete(d)
    <3>1. PICK outrun : outrun = [r \in Runs |-> {e \in {d} : MidFetchPast(r, e)}]
      OBVIOUS
    <3>2. Outruns(outrun)
      BY <2>1, <3>1 DEF RemoteWrite
    <3>3. outrun \in [Runs -> SUBSET Deals]
      BY <3>1
    <3>4. QED
      BY <2>1, <3>1, <3>2, <3>3
  <2>2. CASE RemoteDelete(d) /\ ~RemoteWrite(d)
    <3>1. PICK outrun : outrun = [r \in Runs |->
              {e \in Deals : place[e] > ctx[r].start /\ MidFetchPast(r, e)}]
      OBVIOUS
    <3>2. Outruns(outrun)
      BY <2>2, <3>1 DEF RemoteDelete
    <3>3. outrun \in [Runs -> SUBSET Deals]
      BY <3>1
    <3>4. QED
      BY <2>2, <3>1, <3>2, <3>3
  <2>3. ~(RemoteWrite(d) /\ RemoteDelete(d))
    <3>1. RemoteWrite(d) => remote'[d].ver # remote[d].ver
      BY DEF RemoteWrite, TypeOK
    <3>2. RemoteDelete(d) => remote' = remote
      BY DEF RemoteDelete
    <3>3. QED
      BY <3>1, <3>2
  <2>4. QED
    BY <2>1, <2>2, <2>3
<1>2. UNCHANGED <<mirror, cursor, row, pc>>
  BY DEF RemoteWrite, RemoteDelete
<1>3. ASSUME NEW r \in Runs
      PROVE  LET new == ctx'[r] IN
             /\ new \in SyncContext
             /\ new.before = ctx[r].before /\ new.after = ctx[r].after
             /\ new.start = ctx[r].start /\ new.todo = ctx[r].todo
             /\ new.fetched = ctx[r].fetched /\ new.created = ctx[r].created
             /\ new.updated = ctx[r].updated /\ new.errors = ctx[r].errors
             /\ new.missed = ctx[r].missed \cup outrun[r]
  <2>1. PICK held \in SyncContext : held = ctx[r]
    BY DEF TypeOK
  <2>2. PICK more \in SUBSET Deals : more = outrun[r]
    BY <1>1
  <2>3. ctx'[r] = [held EXCEPT !.missed = held.missed \cup more]
    BY <1>1, <2>1, <2>2 DEF Outruns
  <2>4. held.missed \cup more \in SUBSET Deals
    BY <2>1 DEF SyncContext
  <2>5. QED
    BY <2>1, <2>2, <2>3, <2>4 DEF SyncContext
<1>4. ctx' \in [Runs -> SyncContext]
  BY <1>1, <1>3 DEF Outruns
<1>5. QED
  BY <1>1, <1>2, <1>3, <1>4

\* Every variable keeps its type: in particular a fetch never asks past the
\* last deal and a row never holds a status outside SyncStatus.
LEMMA TypeStep == TypeOK /\ PagesOrdered /\ [Next]_vars => TypeOK'
<1> SUFFICES ASSUME TypeOK, PagesOrdered, [Next]_vars PROVE TypeOK'
    OBVIOUS
<1> USE PagesAssumption
<1>1. CASE \E d \in Deals : RemoteWrite(d) \/ RemoteDelete(d)
  <2>1. PICK d \in Deals : RemoteWrite(d) \/ RemoteDelete(d)
    BY <1>1
  <2>2. /\ ctx' \in [Runs -> SyncContext] /\ UNCHANGED <<mirror, cursor, row, pc>>
        /\ \A r \in Runs : ctx'[r].start = ctx[r].start
    BY <2>1, RemoteQuiet
  <2>3. CASE RemoteWrite(d)
    <3>1. clock' \in Nat /\ remote' \in [Deals -> [ver : Nat, time : Nat]]
      BY <2>3 DEF RemoteWrite, TypeOK
    <3>2. PICK there \in SUBSET Deals : there = {e \in Deals : Listed(e)}
      OBVIOUS
    <3>3. place' = [place EXCEPT ![d] = IF Listed(d) THEN @ ELSE Cardinality(there) + 1]
      BY <2>3, <3>2 DEF RemoteWrite
    <3>4. ~Listed(d) => Cardinality(there) + 1 \in 0..Cardinality(Deals)
      BY <3>2, DealsCounted
    <3>5. place' \in [Deals -> 0..Cardinality(Deals)]
      BY <3>3, <3>4 DEF TypeOK
    <3>6. excused' \subseteq Deals
      BY <2>3 DEF RemoteWrite, TypeOK
    <3>7. QED
      BY <2>2, <3>1, <3>5, <3>6 DEF TypeOK
  <2>4. CASE RemoteDelete(d)
    <3>1. UNCHANGED <<remote, clock, excused>>
      BY <2>4 DEF RemoteDelete
    <3>2. \A e \in Deals : place[e] \in 0..Cardinality(Deals)
      BY DEF TypeOK
    <3>3. \A m \in 0..Cardinality(Deals), n \in Nat :
              m > n => m - 1 \in 0..Cardinality(Deals)
      BY DealsCounted
    <3>4. place' \in [Deals -> 0..Cardinality(Deals)]
      BY <2>4, <3>2, <3>3, DealsCounted DEF RemoteDelete, Listed
    <3>5. QED
      BY <2>2, <3>1, <3>4 DEF TypeOK
  <2>5. QED
    BY <2>1, <2>3, <2>4
<1>2. CASE \E r \in Runs : ReadCursor(r)
  <2>1. PICK r \in Runs : ReadCursor(r)
    BY <1>2
  <2>2. /\ ctx' \in [Runs -> SyncContext]
        /\ \A q \in Runs : ctx'[q].start < Cardinality(Deals) + PageSize
    <3>1. ctx[r] \in SyncContext /\ cursor \in Nat
      BY DEF TypeOK
    <3>2. PICK held \in SyncContext : held = ctx[r]
      BY <3>1
    <3>3. PICK new : new = [held EXCEPT !.before = cursor]
      OBVIOUS
    <3>4. new \in SyncContext /\ new.start = held.start
      BY <3>1, <3>3 DEF SyncContext
    <3>5. ctx' = [ctx EXCEPT ![r] = new]
      BY <2>1, <3>2, <3>3 DEF ReadCursor, TypeOK
    <3>6. QED
      BY <3>2, <3>4, <3>5 DEF TypeOK
  <2>3. pc' \in [Runs -> Location]
    BY <2>1 DEF ReadCursor, TypeOK, Location
  <2>4. QED
    BY <2>1, <2>2, <2>3 DEF ReadCursor, TypeOK
<1>3. CASE \E r \in Runs : CreateRun(r)
  BY <1>3 DEF TypeOK, CreateRun, SyncRunRow, Location
<1>4. CASE \E r \in Runs : StartRun(r)
  BY <1>4 DEF TypeOK, StartRun, SyncRunRow, Location
<1>5. CASE \E r \in Runs : FetchPage(r)
  <2>1. PICK r \in Runs : FetchPage(r)
    BY <1>5
  <2>2. KeptOfPage(ctx[r].start, ctx[r].before) \subseteq Item
    BY DEF KeptOfPage, Item, TypeOK
  <2>3. /\ ctx[r].start + PageSize \in Nat
        /\ ctx[r].start + PageSize < Cardinality(Deals) + PageSize
    <3>1. ctx[r].start \in Nat /\ ctx[r].start < Cardinality(Deals)
      BY <2>1 DEF FetchPage, PagesOrdered, TypeOK, SyncContext
    <3>2. QED
      BY <3>1, DealsCounted
  <2>4. ctx' \in [Runs -> SyncContext] /\ \A q \in Runs : ctx'[q].start < Cardinality(Deals) + PageSize
    <3>1. PICK held \in SyncContext : held = ctx[r]
      BY DEF TypeOK
    <3>2. PICK new : new = [held EXCEPT
              !.todo = held.todo \cup KeptOfPage(ctx[r].start, ctx[r].before),
              !.start = ctx[r].start + PageSize]
      OBVIOUS
    <3>3. new \in SyncContext /\ new.start = ctx[r].start + PageSize
      BY <2>2, <2>3, <3>2 DEF SyncContext
    <3>4. ctx' = [ctx EXCEPT ![r] = new]
      BY <2>1, <3>1, <3>2 DEF FetchPage, TypeOK
    <3>5. QED
      BY <2>3, <3>3, <3>4 DEF TypeOK
  <2>5. pc' \in [Runs -> Location]
    BY <2>1 DEF FetchPage, TypeOK, Location
  <2>6. QED
    BY <2>1, <2>4, <2>5 DEF FetchPage, TypeOK
<1>6. CASE \E r \in Runs : \E i \in ctx[r].todo : PersistRow(r, i)
  <2>0. PICK r \in Runs : \E i \in ctx[r].todo : PersistRow(r, i)
    BY <1>6
  <2>1. PICK i \in ctx[r].todo : PersistRow(r, i)
    BY <2>0
  <2>2. i \in Item
    BY DEF TypeOK, SyncContext
  <2>3. CursorAfter(ctx[r].after, i.time) \in Nat
    BY <2>2 DEF TypeOK, SyncContext, CursorAfter, Later, Item
  <2>4. /\ ctx' \in [Runs -> SyncContext]
        /\ \A q \in Runs : ctx'[q].start = ctx[q].start
    <3>1. PICK held \in SyncContext : held = ctx[r]
      BY DEF TypeOK
    <3>0. /\ CursorAfter(held.after, i.time) \in Nat
          /\ held.fetched \in Nat /\ held.created \in Nat /\ held.updated \in Nat
      BY <2>3, <3>1 DEF SyncContext
    <3>2. PICK a, f, c, u \in Nat :
            /\ a = CursorAfter(held.after, i.time) /\ f = held.fetched + 1
            /\ c = IF mirror[i.deal] = 0 THEN held.created + 1 ELSE held.created
            /\ u = IF mirror[i.deal] = 0 THEN held.updated ELSE held.updated + 1
      BY <3>0
    <3>3. PICK left \in SUBSET Item : left = held.todo \ {i}
      BY <3>1 DEF SyncContext
    <3>4. PICK new : new = [held EXCEPT
              !.todo = left, !.after = a, !.fetched = f, !.created = c, !.updated = u]
      OBVIOUS
    <3>5. new \in SyncContext /\ new.start = held.start
      BY <3>4 DEF SyncContext
    <3>6. ctx' = [ctx EXCEPT ![r] = new]
      BY <2>1, <3>1, <3>2, <3>3, <3>4 DEF PersistRow, TypeOK
    <3>7. QED
      BY <3>1, <3>5, <3>6 DEF TypeOK
  <2>5. mirror' \in [Deals -> Nat] /\ excused' \subseteq Deals
    BY <2>1, <2>2 DEF PersistRow, TypeOK, Item
  <2>6. QED
    BY <2>1, <2>4, <2>5 DEF PersistRow, TypeOK
<1>7. CASE \E r \in Runs : \E i \in ctx[r].todo, late \in BOOLEAN : RowFails(r, i, late)
  <2>0. PICK r \in Runs : \E i \in ctx[r].todo, late \in BOOLEAN : RowFails(r, i, late)
    BY <1>7
  <2>1. PICK i \in ctx[r].todo, late \in BOOLEAN : RowFails(r, i, late)
    BY <2>0
  <2>2. i \in Item
    BY DEF TypeOK, SyncContext
  <2>3. CursorAfter(ctx[r].after, i.time) \in Nat
    BY <2>2 DEF TypeOK, SyncContext, CursorAfter, Later, Item
  <2>4. /\ ctx' \in [Runs -> SyncContext]
        /\ \A q \in Runs : ctx'[q].start = ctx[q].start
    <3>1. PICK held \in SyncContext : held = ctx[r]
      BY DEF TypeOK
    <3>0. /\ CursorAfter(held.after, i.time) \in Nat /\ held.after \in Nat
          /\ held.fetched \in Nat /\ held.errors \in Nat
      BY <2>3, <3>1 DEF SyncContext
    <3>2. PICK a, f, n \in Nat :
            /\ a = IF late THEN CursorAfter(held.after, i.time) ELSE held.after
            /\ f = held.fetched + 1 /\ n = held.errors + 1
      BY <3>0
    <3>3. PICK left \in SUBSET Item, out \in SUBSET Deals :
            left = held.todo \ {i} /\ out = held.missed \cup {i.deal}
      BY <2>2, <3>1 DEF SyncContext, Item
    <3>4. PICK new : new = [held EXCEPT
              !.todo = left, !.after = a, !.fetched = f, !.errors = n, !.missed = out]
      OBVIOUS
    <3>5. new \in SyncContext /\ new.start = held.start
      BY <3>4 DEF SyncContext
    <3>6. ctx' = [ctx EXCEPT ![r] = new]
      BY <2>1, <3>1, <3>2, <3>3, <3>4 DEF RowFails, TypeOK
    <3>7. QED
      BY <3>1, <3>5, <3>6 DEF TypeOK
  <2>5. QED
    BY <2>1, <2>4 DEF RowFails, TypeOK
<1>8. CASE \E r \in Runs : RunFails(r)
  BY <1>8, DealsCounted DEF TypeOK, RunFails, Ends, Finalized, SyncRunRow, Terminal, Location,
              SyncContext, NoContext
<1>9. CASE \E r \in Runs : FinishRun(r)
  BY <1>9 DEF TypeOK, FinishRun, Finalized, SyncRunRow, Terminal, Location, SyncContext
<1>10. CASE \E r \in Runs : WriteCursor(r)
  BY <1>10, DealsCounted DEF TypeOK, WriteCursor, Ends, MarkMissed, Location, SyncContext, NoContext
<1>11. CASE \E r \in Runs : Crash(r)
  BY <1>11, DealsCounted DEF TypeOK, Crash, Ends, Location, SyncContext, NoContext
<1>12. CASE UNCHANGED vars
  BY <1>12 DEF TypeOK, vars
<1>13. QED
  BY <1>1, <1>2, <1>3, <1>4, <1>5, <1>6, <1>7, <1>8, <1>9, <1>10, <1>11, <1>12, NextCases

\* The offset is 0 until the fetch starts, and not behind all deals during it.
LEMMA PagesStep == TypeOK /\ PagesOrdered /\ [Next]_vars => PagesOrdered'
<1> SUFFICES ASSUME TypeOK, PagesOrdered, [Next]_vars PROVE PagesOrdered'
    OBVIOUS
<1> USE PagesAssumption DEF TypeOK, PagesOrdered, SyncContext
<1>1. CASE \E d \in Deals : RemoteWrite(d) \/ RemoteDelete(d)
  BY <1>1, RemoteQuiet
<1>2. CASE \E r \in Runs : ReadCursor(r)
  BY <1>2 DEF ReadCursor
<1>3. CASE \E r \in Runs : CreateRun(r)
  BY <1>3 DEF CreateRun
<1>4. CASE \E r \in Runs : StartRun(r)
  BY <1>4, DealsCounted DEF StartRun
<1>5. CASE \E r \in Runs : FetchPage(r)
  <2>1. PICK r \in Runs : FetchPage(r)
    BY <1>5
  <2>2. /\ \A q \in Runs \ {r} : pc'[q] = pc[q] /\ ctx'[q] = ctx[q]
        /\ ctx'[r].start = ctx[r].start + PageSize
        /\ pc'[r] \in {"fetching", "persisting"}
        /\ pc'[r] = "fetching" => ~LastPage(ctx[r].start)
    BY <2>1 DEF FetchPage
  <2>3. ASSUME ~LastPage(ctx[r].start)
        PROVE  ctx[r].start + PageSize < Cardinality(Deals)
    <3>1. PICK d \in Deals : place[d] > ctx[r].start + PageSize
      BY <2>3 DEF LastPage
    <3>2. place[d] \in 0..Cardinality(Deals) /\ ctx[r].start \in Nat
      OBVIOUS
    <3>3. QED
      BY <3>1, <3>2, DealsCounted
  <2>4. QED
    BY <2>2, <2>3
<1>6. CASE \E r \in Runs : \E i \in ctx[r].todo : PersistRow(r, i)
  BY <1>6 DEF PersistRow
<1>7. CASE \E r \in Runs : \E i \in ctx[r].todo, late \in BOOLEAN : RowFails(r, i, late)
  BY <1>7 DEF RowFails
<1>8. CASE \E r \in Runs : RunFails(r)
  BY <1>8 DEF RunFails, Ends
<1>9. CASE \E r \in Runs : FinishRun(r)
  BY <1>9 DEF FinishRun
<1>10. CASE \E r \in Runs : WriteCursor(r)
  BY <1>10 DEF WriteCursor, Ends
<1>11. CASE \E r \in Runs : Crash(r)
  BY <1>11 DEF Crash, Ends
<1>12. CASE UNCHANGED vars
  BY <1>12 DEF vars
<1>13. QED
  BY <1>1, <1>2, <1>3, <1>4, <1>5, <1>6, <1>7, <1>8, <1>9, <1>10, <1>11, <1>12, NextCases

\* The state every behaviour starts in is well typed and no page is read.
LEMMA TypeInit == Init => TypeOK /\ PagesOrdered
  BY PagesAssumption, DealsCounted DEF Init, TypeOK, PagesOrdered, NoContext, SyncContext,
     SyncRunRow, Location

\* Type correctness of a connector run's state.
THEOREM TypeCorrect == Spec => [](TypeOK /\ PagesOrdered)
<1>1. Init => TypeOK /\ PagesOrdered
  BY TypeInit
<1>2. TypeOK /\ PagesOrdered /\ [Next]_vars => (TypeOK /\ PagesOrdered)'
  BY TypeStep, PagesStep
<1>3. QED
  BY <1>1, <1>2, PTL DEF Spec

-----------------------------------------------------------------------------
(* Times and versions.                                                     *)

\* What a page of the fetch keeps: rows of deals that exist, as they are now.
LEMMA KeptRows ==
    ASSUME NEW p, NEW from, NEW i \in KeptOfPage(p, from)
    PROVE  /\ i.deal \in Deals
           /\ i = Newest(i.deal)
           /\ ChangedSince(i.deal, from)
  BY DEF KeptOfPage, Newest

\* Every time held in a cursor, a context or a fetched row was handed out.
LEMMA TimesStep ==
    TypeOK /\ TimesOrdered /\ [Next]_vars => TimesOrdered'
<1> SUFFICES ASSUME TypeOK, TimesOrdered, [Next]_vars PROVE TimesOrdered'
    OBVIOUS
<1> USE DEF TypeOK, TimesOrdered, SyncContext, Item
<1>0. ASSUME NEW r \in Runs, NEW i \in ctx[r].todo,
             PersistRow(r, i) \/ \E late \in BOOLEAN : RowFails(r, i, late)
      PROVE  TimesOrdered'
  <2>1. /\ \A q \in Runs : q # r => ctx'[q] = ctx[q]
        /\ ctx'[r].todo = ctx[r].todo \ {i} /\ ctx'[r].before = ctx[r].before
        /\ ctx'[r].after \in {ctx[r].after, CursorAfter(ctx[r].after, i.time)}
        /\ UNCHANGED <<cursor, clock, remote>>
    BY <1>0, RowLeaves
  <2>2. i.time \in Nat /\ i.time <= clock /\ ctx[r].after <= clock /\ ctx[r].before <= clock
    OBVIOUS
  <2>3. ctx'[r].after <= clock /\ ctx'[r].before <= clock
    BY <2>1, <2>2 DEF CursorAfter, Later
  <2>4. QED
    BY <2>1, <2>3
<1>1. CASE \E d \in Deals : RemoteWrite(d) \/ RemoteDelete(d)
  <2>1. PICK d \in Deals : RemoteWrite(d) \/ RemoteDelete(d)
    BY <1>1
  <2>2. clock' \in Nat /\ clock <= clock'
    BY <2>1 DEF RemoteWrite, RemoteDelete
  <2>3. \A e \in Deals : remote'[e].time <= clock'
    BY <2>1, <2>2 DEF RemoteWrite, RemoteDelete
  <2>4. \A r \in Runs : /\ ctx'[r].before = ctx[r].before
                        /\ ctx'[r].after = ctx[r].after
                        /\ ctx'[r].todo = ctx[r].todo
    BY <2>1, RemoteQuiet
  <2>5. UNCHANGED cursor
    BY <2>1, RemoteQuiet
  <2>6. \A t \in Nat : t <= clock => t <= clock'
    BY <2>2
  <2>7. QED
    BY <2>3, <2>4, <2>5, <2>6
<1>2. CASE \E r \in Runs : ReadCursor(r)
  BY <1>2 DEF ReadCursor
<1>3. CASE \E r \in Runs : CreateRun(r)
  BY <1>3 DEF CreateRun
<1>4. CASE \E r \in Runs : StartRun(r)
  BY <1>4 DEF StartRun
<1>5. CASE \E r \in Runs : FetchPage(r)
  <2>1. PICK r \in Runs : FetchPage(r)
    BY <1>5
  <2>2. \A i \in KeptOfPage(ctx[r].start, ctx[r].before) : i.time <= clock
    BY KeptRows DEF Newest
  <2>3. QED
    BY <2>1, <2>2 DEF FetchPage
<1>6. CASE \E r \in Runs : \E i \in ctx[r].todo : PersistRow(r, i)
  BY <1>0, <1>6
<1>7. CASE \E r \in Runs : \E i \in ctx[r].todo, late \in BOOLEAN : RowFails(r, i, late)
  BY <1>0, <1>7
<1>8. CASE \E r \in Runs : RunFails(r)
  BY <1>8 DEF RunFails, Ends, NoContext
<1>9. CASE \E r \in Runs : FinishRun(r)
  BY <1>9 DEF FinishRun
<1>10. CASE \E r \in Runs : WriteCursor(r)
  BY <1>10 DEF WriteCursor, Ends, NoContext
<1>11. CASE \E r \in Runs : Crash(r)
  BY <1>11 DEF Crash, Ends, NoContext
<1>12. CASE UNCHANGED vars
  BY <1>12 DEF vars
<1>13. QED
  BY <1>1, <1>2, <1>3, <1>4, <1>5, <1>6, <1>7, <1>8, <1>9, <1>10, <1>11, <1>12, NextCases

\* The mirror and the fetched rows hold versions the deal has had.
LEMMA VersionsStep ==
    TypeOK /\ VersionsOrdered /\ [Next]_vars => VersionsOrdered'
<1> SUFFICES ASSUME TypeOK, VersionsOrdered, [Next]_vars PROVE VersionsOrdered'
    OBVIOUS
<1> USE DEF TypeOK, VersionsOrdered, SyncContext, Item
<1>1. CASE \E d \in Deals : RemoteWrite(d) \/ RemoteDelete(d)
  <2>1. PICK d \in Deals : RemoteWrite(d) \/ RemoteDelete(d)
    BY <1>1
  <2>2. \A e \in Deals : remote[e].ver <= remote'[e].ver /\ remote'[e].ver \in Nat
    BY <2>1 DEF RemoteWrite, RemoteDelete
  <2>3. mirror' = mirror /\ \A r \in Runs : ctx'[r].todo = ctx[r].todo
    BY <2>1, RemoteQuiet
  <2>4. \A e \in Deals : mirror'[e] <= remote'[e].ver
    BY <2>2, <2>3
  <2>5. \A r \in Runs : \A i \in ctx'[r].todo : i.ver <= remote'[i.deal].ver
    BY <2>2, <2>3
  <2>6. QED
    BY <2>4, <2>5
<1>2. CASE \E r \in Runs : ReadCursor(r)
  BY <1>2 DEF ReadCursor
<1>3. CASE \E r \in Runs : CreateRun(r)
  BY <1>3 DEF CreateRun
<1>4. CASE \E r \in Runs : StartRun(r)
  BY <1>4 DEF StartRun
<1>5. CASE \E r \in Runs : FetchPage(r)
  <2>1. PICK r \in Runs : FetchPage(r)
    BY <1>5
  <2>2. \A i \in KeptOfPage(ctx[r].start, ctx[r].before) : i.ver <= remote[i.deal].ver
    BY KeptRows DEF Newest
  <2>3. QED
    BY <2>1, <2>2 DEF FetchPage
<1>6. CASE \E r \in Runs : \E i \in ctx[r].todo : PersistRow(r, i)
  BY <1>6 DEF PersistRow
<1>7. CASE \E r \in Runs : \E i \in ctx[r].todo, late \in BOOLEAN : RowFails(r, i, late)
  BY <1>7 DEF RowFails
<1>8. CASE \E r \in Runs : RunFails(r)
  BY <1>8 DEF RunFails, Ends, NoContext
<1>9. CASE \E r \in Runs : FinishRun(r)
  BY <1>9 DEF FinishRun
<1>10. CASE \E r \in Runs : WriteCursor(r)
  BY <1>10 DEF WriteCursor, Ends, NoContext
<1>11. CASE \E r \in Runs : Crash(r)
  BY <1>11 DEF Crash, Ends, NoContext
<1>12. CASE UNCHANGED vars
  BY <1>12 DEF vars
<1>13. QED
  BY <1>1, <1>2, <1>3, <1>4, <1>5, <1>6, <1>7, <1>8, <1>9, <1>10, <1>11, <1>12, NextCases

-----------------------------------------------------------------------------
(* No change is lost silently.                                             *)

\* A change that run r has not missed stays handled while some deal other than
\* its own changes nothing of it: what RunKnows and NoSilentLoss need of a step
\* that touches neither the remote deals, nor the mirror, nor the history.
LEMMA LossQuiet ==
    ASSUME IInv, NEW q \in Runs,
           UNCHANGED <<remote, place, mirror, cursor, excused>>,
           \A r \in Runs \ {q} : pc'[r] = pc[r] /\ ctx'[r] = ctx[r],
           RunKnows(q)'
    PROVE  NoSilentLoss' /\ \A r \in Runs : RunKnows(r)'
<1>1. NoSilentLoss'
  BY DEF IInv, NoSilentLoss, Mirrored, Listed
<1>2. ASSUME NEW r \in Runs \ {q} PROVE RunKnows(r)'
  BY <1>2 DEF IInv, RunKnows, Reaches, Handled, Mirrored, Newest, Listed
<1>3. QED
  BY <1>1, <1>2

\* A remote write makes the deal newer than every cursor, held or stored, and a
\* run that has read the deal's page takes note.
LEMMA LossRemoteWrite ==
    ASSUME IInv, NEW d \in Deals, RemoteWrite(d)
    PROVE  NoSilentLoss' /\ \A r \in Runs : RunKnows(r)'
<1> USE DEF IInv, TypeOK, SyncContext, Item
<1>1. clock' \in Nat /\ clock <= clock' /\ remote'[d].time = clock'
  BY DEF RemoteWrite
<1>2. \A e \in Deals \ {d} : /\ remote'[e] = remote[e]
                             /\ place'[e] = place[e]
                             /\ Newest(e)' = Newest(e)
                             /\ Mirrored(e)' <=> Mirrored(e)
                             /\ e \in excused' <=> e \in excused
  BY DEF RemoteWrite, Newest, Mirrored
<1>3. /\ \A r \in Runs : /\ pc'[r] = pc[r]
                         /\ ctx'[r].before = ctx[r].before
                         /\ ctx'[r].after = ctx[r].after
                         /\ ctx'[r].start = ctx[r].start
                         /\ ctx'[r].todo = ctx[r].todo
                         /\ \A e \in Deals \ {d} :
                               e \in ctx'[r].missed <=> e \in ctx[r].missed
                         /\ MidFetchPast(r, d) => d \in ctx'[r].missed
      /\ cursor' = cursor
  BY RemoteQuiet
<1>4. NoSilentLoss'
  BY <1>1, <1>2, <1>3 DEF NoSilentLoss, TimesOrdered, Mirrored, Listed
<1>5. ASSUME NEW r \in Runs PROVE RunKnows(r)'
  <2>1. ASSUME NEW e \in Deals, place'[e] > 0, remote'[e].time < ctx'[r].before,
               pc[r] \in {"cursor_read", "created", "fetching"}
        PROVE  e \in excused' \/ Mirrored(e)'
    BY <2>1, <1>1, <1>2, <1>3 DEF RunKnows, TimesOrdered, Listed
  <2>2. ASSUME NEW e \in Deals, pc[r] = "fetching", place'[e] \in 1..ctx[r].start
        PROVE  Handled(r, e)'
    BY <2>2, <1>2, <1>3 DEF RunKnows, Handled, MidFetchPast
  <2>3. ASSUME NEW e \in Deals, pc[r] \in {"persisting", "finalized"},
               place'[e] > 0, Reaches(r, remote[e].time)'
        PROVE  Handled(r, e)'
    <3>1. e # d
      BY <2>3, <1>1, <1>3 DEF Reaches, TimesOrdered
    <3>2. Reaches(r, remote[e].time) /\ Listed(e)
      BY <3>1, <2>3, <1>2, <1>3 DEF Reaches, Listed
    <3>3. Handled(r, e)
      BY <2>3, <3>2 DEF RunKnows
    <3>4. QED
      BY <3>1, <3>3, <1>2, <1>3 DEF Handled
  <2>4. QED
    BY <2>1, <2>2, <2>3, <1>3 DEF RunKnows, Listed
<1>6. QED
  BY <1>4, <1>5

\* A deletion only moves deals up. A run that has read the place a deal slides
\* to takes note of it.
LEMMA LossRemoteDelete ==
    ASSUME IInv, NEW d \in Deals, RemoteDelete(d)
    PROVE  NoSilentLoss' /\ \A r \in Runs : RunKnows(r)'
<1> USE DEF IInv, TypeOK, SyncContext, Item
<1>1. UNCHANGED <<remote, mirror, cursor, excused>>
  BY DEF RemoteDelete
<1>2. \A e \in Deals : /\ Listed(e)' => Listed(e)
                       /\ Newest(e)' = Newest(e)
                       /\ Mirrored(e)' <=> Mirrored(e)
  BY <1>1 DEF RemoteDelete, Listed, Newest, Mirrored
<1>3. \A r \in Runs : /\ pc'[r] = pc[r]
                      /\ ctx'[r].before = ctx[r].before
                      /\ ctx'[r].after = ctx[r].after
                      /\ ctx'[r].start = ctx[r].start
                      /\ ctx'[r].todo = ctx[r].todo
                      /\ ctx[r].missed \subseteq ctx'[r].missed
                      /\ \A e \in Deals :
                            place[e] > ctx[r].start /\ MidFetchPast(r, e)
                                => e \in ctx'[r].missed
  BY RemoteQuiet
<1>4. NoSilentLoss'
  BY <1>1, <1>2 DEF NoSilentLoss
<1>5. ASSUME NEW r \in Runs PROVE RunKnows(r)'
  <2>0. ASSUME NEW e \in Deals, Handled(r, e) PROVE Handled(r, e)'
    BY <2>0, <1>1, <1>2, <1>3 DEF Handled
  <2>1. ASSUME NEW e \in Deals, Listed(e)', remote'[e].time < ctx'[r].before,
               pc[r] \in {"cursor_read", "created", "fetching"}
        PROVE  e \in excused' \/ Mirrored(e)'
    BY <2>1, <1>1, <1>2, <1>3 DEF RunKnows
  <2>2. ASSUME NEW e \in Deals, pc[r] = "fetching", place'[e] \in 1..ctx[r].start
        PROVE  Handled(r, e)'
    <3>1. CASE place[e] > ctx[r].start
      BY <3>1, <2>2, <1>3 DEF MidFetchPast, Handled
    <3>2. CASE ~(place[e] > ctx[r].start)
      <4>1. place[e] \in Nat /\ ctx[r].start \in Nat /\ place[e] > 0
        BY <2>2, <1>2 DEF Listed
      <4>2. place[e] \in 1..ctx[r].start
        BY <3>2, <4>1
      <4>3. QED
        BY <2>2, <4>2, <2>0 DEF RunKnows
    <3>3. QED
      BY <3>1, <3>2
  <2>3. ASSUME NEW e \in Deals, pc[r] \in {"persisting", "finalized"},
               Listed(e)', Reaches(r, remote[e].time)'
        PROVE  Handled(r, e)'
    <3>1. Reaches(r, remote[e].time) /\ Listed(e)
      BY <2>3, <1>1, <1>2, <1>3 DEF Reaches
    <3>2. Handled(r, e)
      BY <2>3, <3>1 DEF RunKnows
    <3>3. QED
      BY <3>2, <2>0
  <2>4. QED
    BY <2>1, <2>2, <2>3, <1>3 DEF RunKnows
<1>6. QED
  BY <1>4, <1>5

\* A page read adds the newest version of each of its deals, or leaves out one
\* that was mirrored before the cursor this run read.
LEMMA LossFetchPage ==
    ASSUME IInv, NEW q \in Runs, FetchPage(q)
    PROVE  NoSilentLoss' /\ \A r \in Runs : RunKnows(r)'
<1> USE DEF IInv, TypeOK, SyncContext
<1>1. /\ UNCHANGED <<remote, place, mirror, cursor, excused>>
      /\ pc[q] = "fetching" /\ pc'[q] \in {"fetching", "persisting"}
      /\ \A r \in Runs \ {q} : pc'[r] = pc[r] /\ ctx'[r] = ctx[r]
      /\ ctx'[q].before = ctx[q].before /\ ctx'[q].missed = ctx[q].missed
      /\ ctx'[q].start = ctx[q].start + PageSize
      /\ ctx'[q].todo = ctx[q].todo \cup KeptOfPage(ctx[q].start, ctx[q].before)
      /\ pc'[q] = "persisting" => LastPage(ctx[q].start)
  BY DEF FetchPage
<1>0. ctx[q].start \in Nat /\ PageSize \in Nat /\ \A d \in Deals : place[d] \in Nat
  BY PagesAssumption
<1>2. ASSUME NEW d \in Deals, place[d] \in 1..(ctx[q].start + PageSize)
      PROVE  Handled(q, d)'
  <2>1. CASE place[d] \in 1..ctx[q].start
    BY <2>1, <1>1 DEF RunKnows, Handled, Mirrored, Newest
  <2>2. CASE place[d] \in ctx[q].start+1..ctx[q].start+PageSize /\ ChangedSince(d, ctx[q].before)
    <3>1. Newest(d) \in KeptOfPage(ctx[q].start, ctx[q].before)
      BY <2>2 DEF KeptOfPage, Newest
    <3>2. QED
      BY <3>1, <1>1 DEF Handled, Newest
  <2>3. CASE ~ChangedSince(d, ctx[q].before)
    <3>1. remote[d].time < ctx[q].before
      BY <2>3 DEF ChangedSince
    <3>2. Listed(d)
      BY <1>0, <1>2 DEF Listed
    <3>3. d \in excused \/ Mirrored(d)
      BY <3>1, <3>2, <1>1 DEF RunKnows
    <3>4. QED
      BY <3>3, <1>1 DEF Handled, Mirrored
  <2>4. place[d] \in 1..ctx[q].start \/ place[d] \in ctx[q].start+1..ctx[q].start+PageSize
    BY <1>0, <1>2
  <2>5. QED
    BY <2>1, <2>2, <2>3, <2>4
<1>3. \A d \in Deals : Listed(d)' /\ remote'[d].time < ctx'[q].before
                          => d \in excused' \/ Mirrored(d)'
  BY <1>1 DEF RunKnows, Mirrored, Listed
<1>4. pc'[q] = "persisting" => \A d \in Deals : Listed(d) => Handled(q, d)'
  <2>1. ASSUME LastPage(ctx[q].start), NEW d \in Deals, Listed(d)
        PROVE  place[d] \in 1..(ctx[q].start + PageSize)
    BY <2>1, <1>0 DEF LastPage, Listed
  <2>2. QED
    BY <1>1, <1>2, <2>1
<1>5. \A d \in Deals : /\ place'[d] = place[d]
                       /\ Listed(d)' <=> Listed(d)
  BY <1>1 DEF Listed
<1>6. RunKnows(q)'
  BY <1>1, <1>2, <1>3, <1>4, <1>5 DEF RunKnows
<1>7. QED
  BY <1>1, <1>6, LossQuiet

\* Persisting a row either mirrors the newest version of its deal or, when it
\* puts an older one over the newest, excuses the deal.
LEMMA LossPersistRow ==
    ASSUME IInv, NEW q \in Runs, NEW i \in ctx[q].todo, PersistRow(q, i)
    PROVE  NoSilentLoss' /\ \A r \in Runs : RunKnows(r)'
<1> USE DEF IInv, TypeOK, SyncContext
<1>1. i \in Item /\ i.deal \in Deals /\ i.ver <= remote[i.deal].ver
  BY DEF VersionsOrdered, Item
<1>2. /\ UNCHANGED <<remote, place, cursor, pc>>
      /\ \A r \in Runs \ {q} : ctx'[r] = ctx[r]
      /\ ctx'[q].todo = ctx[q].todo \ {i} /\ ctx'[q].missed = ctx[q].missed
      /\ ctx'[q].before = ctx[q].before /\ ctx'[q].start = ctx[q].start
      /\ ctx'[q].after = Later(ctx[q].after, i.time)
      /\ pc[q] = "persisting"
  BY DEF PersistRow, CursorAfter
<1>3. \A d \in Deals : /\ Newest(d)' = Newest(d)
                       /\ place'[d] = place[d] /\ (Listed(d)' <=> Listed(d))
  BY <1>2 DEF Newest, Listed
<1>4. ASSUME NEW d \in Deals, d \in excused \/ Mirrored(d)
      PROVE  d \in excused' \/ Mirrored(d)'
  <2>1. mirror' = [mirror EXCEPT ![i.deal] = i.ver] /\ remote' = remote
    BY DEF PersistRow
  <2>2. CASE d # i.deal
    <3>1. mirror'[d] = mirror[d] /\ (d \in excused => d \in excused')
      BY <1>1, <2>1, <2>2 DEF PersistRow
    <3>2. QED
      BY <1>4, <2>1, <3>1 DEF Mirrored
  <2>3. CASE d = i.deal /\ i.ver = remote[d].ver
    BY <1>1, <2>1, <2>3 DEF Mirrored
  <2>4. CASE d = i.deal /\ i.ver # remote[d].ver
    <3>1. i.ver < remote[d].ver
      <4>1. i.ver \in Nat /\ remote[d].ver \in Nat
        BY <1>1 DEF Item
      <4>2. i.ver <= remote[d].ver /\ i.ver # remote[d].ver
        BY <1>1, <2>4
      <4>3. \A m, n \in Nat : m <= n /\ m # n => m < n
        OBVIOUS
      <4>4. QED
        BY <4>1, <4>2, <4>3
    <3>2. excused' = IF Overwritten(d, i.ver) THEN excused \cup {d} ELSE excused
      BY <2>4 DEF PersistRow
    <3>3. QED
      BY <1>4, <3>1, <3>2 DEF Overwritten, Mirrored
  <2>5. QED
    BY <2>2, <2>3, <2>4
<1>5. NoSilentLoss'
  BY <1>2, <1>3, <1>4 DEF NoSilentLoss
<1>6. i = Newest(i.deal) => Mirrored(i.deal)'
  <2>1. mirror'[i.deal] = i.ver
    BY <1>1 DEF PersistRow
  <2>2. QED
    BY <1>2, <2>1 DEF Mirrored, Newest
<1>7. ASSUME NEW r \in Runs, NEW d \in Deals, Handled(r, d) PROVE Handled(r, d)'
  <2>1. CASE d \in excused \/ Mirrored(d)
    BY <2>1, <1>4 DEF Handled
  <2>2. CASE d \in ctx[r].missed
    BY <2>2, <1>2 DEF Handled
  <2>3. CASE Newest(d) \in ctx[r].todo
    <3>1. CASE r = q /\ i = Newest(d)
      <4>1. i.deal = d
        BY <3>1 DEF Newest
      <4>2. QED
        BY <3>1, <4>1, <1>6 DEF Handled
    <3>2. CASE ~(r = q /\ i = Newest(d))
      BY <2>3, <3>2, <1>2, <1>3 DEF Handled
    <3>3. QED
      BY <3>1, <3>2
  <2>4. QED
    BY <1>7, <2>1, <2>2, <2>3 DEF Handled
<1>8. ASSUME NEW r \in Runs, NEW d \in Deals, Reaches(r, remote[d].time)'
      PROVE  Reaches(r, remote[d].time)
  BY <1>8, <1>1, <1>2 DEF Reaches, Later, Item
<1>9. ASSUME NEW r \in Runs PROVE RunKnows(r)'
  <2>1. ctx'[r].before = ctx[r].before /\ ctx'[r].start = ctx[r].start
    BY <1>2
  <2>2. QED
    BY <1>2, <1>3, <1>4, <1>7, <1>8, <2>1 DEF RunKnows
<1>10. QED
  BY <1>5, <1>9

\* A row that fails is noted as missed by its run.
LEMMA LossRowFails ==
    ASSUME IInv, NEW q \in Runs, NEW i \in ctx[q].todo, NEW late \in BOOLEAN,
           RowFails(q, i, late)
    PROVE  NoSilentLoss' /\ \A r \in Runs : RunKnows(r)'
<1> USE DEF IInv, TypeOK, SyncContext
<1>1. i \in Item
  OBVIOUS
<1>2. /\ UNCHANGED <<remote, place, mirror, cursor, excused, pc>>
      /\ \A r \in Runs \ {q} : pc'[r] = pc[r] /\ ctx'[r] = ctx[r]
      /\ ctx'[q].todo = ctx[q].todo \ {i}
      /\ ctx'[q].missed = ctx[q].missed \cup {i.deal}
      /\ ctx'[q].after \in {ctx[q].after, Later(ctx[q].after, i.time)}
      /\ pc[q] = "persisting"
  BY DEF RowFails, CursorAfter
<1>3. ASSUME NEW d \in Deals, Handled(q, d) PROVE Handled(q, d)'
  BY <1>2, <1>3 DEF Handled, Newest, Mirrored
<1>4. ASSUME NEW d \in Deals, Reaches(q, remote[d].time)'
      PROVE  Reaches(q, remote[d].time)
  BY <1>1, <1>2, <1>4 DEF Reaches, Later, Item
<1>5. RunKnows(q)'
  BY <1>2, <1>3, <1>4 DEF RunKnows, Listed
<1>6. QED
  BY <1>2, <1>5, LossQuiet

\* The write of the cursor excuses exactly what the run missed.
LEMMA LossWriteCursor ==
    ASSUME IInv, NEW q \in Runs, WriteCursor(q)
    PROVE  NoSilentLoss' /\ \A r \in Runs : RunKnows(r)'
<1> USE DEF IInv, TypeOK, SyncContext
<1>1. /\ UNCHANGED <<remote, place, mirror>>
      /\ \A r \in Runs \ {q} : pc'[r] = pc[r] /\ ctx'[r] = ctx[r]
      /\ pc[q] = "finalized" /\ pc'[q] = "done"
      /\ excused \subseteq excused'
      /\ \/ UNCHANGED cursor
         \/ cursor' = ctx[q].after /\ ctx[q].missed \subseteq excused'
  BY DEF WriteCursor, Ends, MarkMissed
<1>2. ASSUME NEW d \in Deals, Listed(d)', d \notin excused', remote'[d].time < cursor'
      PROVE  Mirrored(d)'
  <2>1. CASE UNCHANGED cursor
    BY <2>1, <1>1, <1>2 DEF NoSilentLoss, Mirrored, Listed
  <2>2. CASE cursor' = ctx[q].after /\ ctx[q].missed \subseteq excused'
    <3>1. Reaches(q, remote[d].time) /\ Listed(d)
      BY <2>2, <1>1, <1>2 DEF Reaches, Listed
    <3>2. Handled(q, d) /\ ctx[q].todo = {}
      BY <3>1, <1>1 DEF RunKnows, PagesOrdered
    <3>3. QED
      BY <3>2, <2>2, <1>1, <1>2 DEF Handled, Mirrored
  <2>3. QED
    BY <1>1, <2>1, <2>2
<1>3. ASSUME NEW r \in Runs PROVE RunKnows(r)'
  BY <1>1 DEF RunKnows, Reaches, Handled, Mirrored, Newest, Listed
<1>4. QED
  BY <1>2, <1>3 DEF NoSilentLoss

\* IInv is inductive.
LEMMA LossStep == IInv /\ [Next]_vars => IInv'
<1> SUFFICES ASSUME IInv, [Next]_vars PROVE IInv'
    OBVIOUS
<1>1. (TypeOK /\ TimesOrdered /\ VersionsOrdered /\ PagesOrdered)'
  BY TypeStep, TimesStep, VersionsStep, PagesStep DEF IInv
<1>2. NoSilentLoss' /\ \A r \in Runs : RunKnows(r)'
  <2> USE DEF IInv, TypeOK
  <2>1. CASE \E d \in Deals : RemoteWrite(d) \/ RemoteDelete(d)
    BY <2>1, LossRemoteWrite, LossRemoteDelete
  <2>2. CASE \E r \in Runs : ReadCursor(r)
    <3>1. PICK q \in Runs : ReadCursor(q)
      BY <2>2
    <3>2. RunKnows(q)'
      BY <3>1 DEF ReadCursor, RunKnows, NoSilentLoss, Mirrored, SyncContext, Listed
    <3>3. QED
      BY <3>1, <3>2, LossQuiet DEF ReadCursor
  <2>3. CASE \E r \in Runs : CreateRun(r)
    <3>1. PICK q \in Runs : CreateRun(q)
      BY <2>3
    <3>2. RunKnows(q)'
      BY <3>1 DEF CreateRun, RunKnows, Mirrored, Listed
    <3>3. QED
      BY <3>1, <3>2, LossQuiet DEF CreateRun
  <2>4. CASE \E r \in Runs : StartRun(r)
    <3>1. PICK q \in Runs : StartRun(q)
      BY <2>4
    <3>2. \A d \in Deals : ~(place[d] \in 1..ctx[q].start)
      BY <3>1 DEF StartRun, PagesOrdered
    <3>3. RunKnows(q)'
      BY <3>1, <3>2 DEF StartRun, RunKnows, Mirrored, Listed
    <3>4. QED
      BY <3>1, <3>3, LossQuiet DEF StartRun
  <2>5. CASE \E r \in Runs : FetchPage(r)
    BY <2>5, LossFetchPage
  <2>6. CASE \E r \in Runs : \E i \in ctx[r].todo : PersistRow(r, i)
    BY <2>6, LossPersistRow
  <2>7. CASE \E r \in Runs : \E i \in ctx[r].todo, late \in BOOLEAN : RowFails(r, i, late)
    BY <2>7, LossRowFails
  <2>8. CASE \E r \in Runs : RunFails(r)
    <3>1. PICK q \in Runs : RunFails(q)
      BY <2>8
    <3>2. RunKnows(q)'
      BY <3>1 DEF RunFails, Ends, RunKnows
    <3>3. QED
      BY <3>1, <3>2, LossQuiet DEF RunFails, Ends
  <2>9. CASE \E r \in Runs : FinishRun(r)
    <3>1. PICK q \in Runs : FinishRun(q)
      BY <2>9
    <3>2. RunKnows(q)'
      BY <3>1 DEF FinishRun, RunKnows, Reaches, Handled, Mirrored, Newest, Listed
    <3>3. QED
      BY <3>1, <3>2, LossQuiet DEF FinishRun
  <2>10. CASE \E r \in Runs : WriteCursor(r)
    BY <2>10, LossWriteCursor
  <2>11. CASE \E r \in Runs : Crash(r)
    <3>1. PICK q \in Runs : Crash(q)
      BY <2>11
    <3>2. RunKnows(q)'
      BY <3>1 DEF Crash, Ends, RunKnows
    <3>3. QED
      BY <3>1, <3>2, LossQuiet DEF Crash, Ends
  <2>12. CASE UNCHANGED vars
    BY <2>12 DEF vars, RunKnows, NoSilentLoss, Reaches, Handled, Mirrored, Newest, Listed
  <2>13. QED
    BY <2>1, <2>2, <2>3, <2>4, <2>5, <2>6, <2>7, <2>8, <2>9, <2>10, <2>11, <2>12, NextCases
<1>3. QED
  BY <1>1, <1>2 DEF IInv

\* The cursor of a connector resource never passes a change of a deal that is
\* still listed and not in the mirror, unless its row failed, its page was read
\* before the change or before it slid onto it, or an overlapping run put an older
\* payload back: for any number of deals and overlapping runs and any page size.
THEOREM NothingLostSilently == Spec => []NoSilentLoss
<1>1. Init => IInv
  BY TypeInit DEF Init, IInv, TimesOrdered, VersionsOrdered, NoSilentLoss, RunKnows,
     NoContext
<1>2. IInv /\ [Next]_vars => IInv'
  BY LossStep
<1>3. IInv => NoSilentLoss
  BY DEF IInv
<1>4. QED
  BY <1>1, <1>2, <1>3, PTL DEF Spec

-----------------------------------------------------------------------------
(* The SyncRun rows.                                                       *)

\* The cursor is backed by a row that nobody changes any more.
LEMMA BackedStep ==
    TypeOK /\ RowsFollow /\ CursorBacked /\ [Next]_vars => RowsFollow' /\ CursorBacked'
<1> SUFFICES ASSUME TypeOK, RowsFollow, CursorBacked, [Next]_vars
             PROVE  RowsFollow' /\ CursorBacked'
    OBVIOUS
<1> USE DEF TypeOK, RowsFollow, CursorBacked, SyncContext, SyncRunRow, Terminal
<1>1. CASE \E d \in Deals : RemoteWrite(d) \/ RemoteDelete(d)
  BY <1>1, RemoteQuiet
<1>2. CASE \E r \in Runs : ReadCursor(r)
  BY <1>2 DEF ReadCursor
<1>3. CASE \E r \in Runs : CreateRun(r)
  BY <1>3 DEF CreateRun
<1>4. CASE \E r \in Runs : StartRun(r)
  BY <1>4 DEF StartRun
<1>5. CASE \E r \in Runs : FetchPage(r)
  BY <1>5 DEF FetchPage, LastPage
<1>6. CASE \E r \in Runs : \E i \in ctx[r].todo : PersistRow(r, i)
  BY <1>6 DEF PersistRow
<1>7. CASE \E r \in Runs : \E i \in ctx[r].todo, late \in BOOLEAN : RowFails(r, i, late)
  BY <1>7 DEF RowFails
<1>8. CASE \E r \in Runs : RunFails(r)
  BY <1>8 DEF RunFails, Ends, Finalized
<1>9. CASE \E r \in Runs : FinishRun(r)
  BY <1>9 DEF FinishRun, Finalized
<1>10. CASE \E r \in Runs : WriteCursor(r)
  BY <1>10 DEF WriteCursor, Ends
<1>11. CASE \E r \in Runs : Crash(r)
  BY <1>11 DEF Crash, Ends
<1>12. CASE UNCHANGED vars
  BY <1>12 DEF vars
<1>13. QED
  BY <1>1, <1>2, <1>3, <1>4, <1>5, <1>6, <1>7, <1>8, <1>9, <1>10, <1>11, <1>12, NextCases

\* A stored cursor is always the cursor_after of a run on record as completed
\* or partial.
THEOREM CursorIsBacked == Spec => []CursorBacked
<1>1. Init => TypeOK /\ PagesOrdered /\ RowsFollow /\ CursorBacked
  BY TypeInit DEF Init, RowsFollow, CursorBacked, Terminal
<1>2. TypeOK /\ PagesOrdered /\ RowsFollow /\ CursorBacked /\ [Next]_vars
        => (TypeOK /\ PagesOrdered /\ RowsFollow /\ CursorBacked)'
  BY TypeStep, PagesStep, BackedStep
<1>3. QED
  BY <1>1, <1>2, PTL DEF Spec

\* The counters in memory, and the ones saved from them, account for each row.
LEMMA CountsStep ==
    TypeOK /\ RowsFollow /\ ContextCounts /\ RunCounts /\ [Next]_vars
        => ContextCounts' /\ RunCounts'
<1> SUFFICES ASSUME TypeOK, RowsFollow, ContextCounts, RunCounts, [Next]_vars
             PROVE  ContextCounts' /\ RunCounts'
    OBVIOUS
<1> USE DEF TypeOK, RowsFollow, ContextCounts, RunCounts, SyncContext, SyncRunRow, Terminal
<1>0. ASSUME NEW r \in Runs, NEW i \in ctx[r].todo,
             PersistRow(r, i) \/ \E late \in BOOLEAN : RowFails(r, i, late)
      PROVE  ContextCounts' /\ RunCounts'
  <2>1. row' = row /\ \A q \in Runs : q # r => ctx'[q] = ctx[q]
    BY <1>0, RowLeaves
  <2>2. ctx[r].created \in Nat /\ ctx[r].updated \in Nat /\ ctx[r].errors \in Nat
    OBVIOUS
  <2>3. ctx[r].fetched = ctx[r].created + ctx[r].updated + ctx[r].errors
    OBVIOUS
  <2>4. /\ ctx'[r].fetched = ctx[r].fetched + 1
        /\ \/ /\ ctx'[r].created + ctx'[r].updated = ctx[r].created + ctx[r].updated + 1
              /\ ctx'[r].errors = ctx[r].errors
           \/ /\ ctx'[r].created + ctx'[r].updated = ctx[r].created + ctx[r].updated
              /\ ctx'[r].errors = ctx[r].errors + 1
    BY <1>0, RowLeaves
  <2>5. ctx'[r].fetched = ctx'[r].created + ctx'[r].updated + ctx'[r].errors
    BY <2>2, <2>3, <2>4
  <2>6. QED
    BY <2>1, <2>5
<1>1. CASE \E d \in Deals : RemoteWrite(d) \/ RemoteDelete(d)
  BY <1>1, RemoteQuiet
<1>2. CASE \E r \in Runs : ReadCursor(r)
  BY <1>2 DEF ReadCursor
<1>3. CASE \E r \in Runs : CreateRun(r)
  BY <1>3 DEF CreateRun
<1>4. CASE \E r \in Runs : StartRun(r)
  BY <1>4 DEF StartRun
<1>5. CASE \E r \in Runs : FetchPage(r)
  BY <1>5 DEF FetchPage, LastPage
<1>6. CASE \E r \in Runs : \E i \in ctx[r].todo : PersistRow(r, i)
  BY <1>0, <1>6
<1>7. CASE \E r \in Runs : \E i \in ctx[r].todo, late \in BOOLEAN : RowFails(r, i, late)
  BY <1>0, <1>7
<1>8. CASE \E r \in Runs : RunFails(r)
  BY <1>8 DEF RunFails, Ends, Finalized, NoContext
<1>9. CASE \E r \in Runs : FinishRun(r)
  BY <1>9 DEF FinishRun, Finalized
<1>10. CASE \E r \in Runs : WriteCursor(r)
  BY <1>10 DEF WriteCursor, Ends, NoContext
<1>11. CASE \E r \in Runs : Crash(r)
  BY <1>11 DEF Crash, Ends, NoContext
<1>12. CASE UNCHANGED vars
  BY <1>12 DEF vars
<1>13. QED
  BY <1>1, <1>2, <1>3, <1>4, <1>5, <1>6, <1>7, <1>8, <1>9, <1>10, <1>11, <1>12, NextCases

\* The counters of a finished SyncRun account for every row it handled.
THEOREM RunsAreCounted == Spec => []RunCounts
<1>1. Init => TypeOK /\ PagesOrdered /\ RowsFollow /\ CursorBacked /\ ContextCounts /\ RunCounts
  BY TypeInit DEF Init, RowsFollow, CursorBacked, ContextCounts, RunCounts, Terminal, NoContext
<1>2. TypeOK /\ PagesOrdered /\ RowsFollow /\ CursorBacked /\ ContextCounts /\ RunCounts
        /\ [Next]_vars
        => (TypeOK /\ PagesOrdered /\ RowsFollow /\ CursorBacked /\ ContextCounts /\ RunCounts)'
  BY TypeStep, PagesStep, BackedStep, CountsStep
<1>3. QED
  BY <1>1, <1>2, PTL DEF Spec

-----------------------------------------------------------------------------
(* The cursor's direction.                                                 *)

\* The rows a run fetched are at least as new as the cursor it read.
LEMMA NotOlderStep == TypeOK /\ NotOlder /\ [Next]_vars => NotOlder'
<1> SUFFICES ASSUME TypeOK, NotOlder, [Next]_vars PROVE NotOlder'
    OBVIOUS
<1> USE DEF TypeOK, NotOlder, SyncContext, Item
<1>0. ASSUME NEW r \in Runs, NEW i \in ctx[r].todo,
             PersistRow(r, i) \/ \E late \in BOOLEAN : RowFails(r, i, late)
      PROVE  NotOlder'
  <2>1. /\ \A q \in Runs : q # r => ctx'[q] = ctx[q]
        /\ ctx'[r].todo = ctx[r].todo \ {i} /\ ctx'[r].before = ctx[r].before
        /\ ctx'[r].after \in {ctx[r].after, CursorAfter(ctx[r].after, i.time)}
        /\ pc' = pc
    BY <1>0, RowLeaves
  <2>2. /\ i.time \in Nat /\ i.time >= ctx[r].before
        /\ ctx[r].before \in Nat /\ ctx[r].after \in Nat
        /\ ctx[r].after # 0 => ctx[r].after >= ctx[r].before
        /\ pc[r] # "idle"
    OBVIOUS
  <2>3. ctx'[r].after # 0 => ctx'[r].after >= ctx'[r].before
    BY <2>1, <2>2 DEF CursorAfter, Later
  <2>4. QED
    BY <2>1, <2>2, <2>3
<1>1. CASE \E d \in Deals : RemoteWrite(d) \/ RemoteDelete(d)
  BY <1>1, RemoteQuiet
<1>2. CASE \E r \in Runs : ReadCursor(r)
  BY <1>2 DEF ReadCursor
<1>3. CASE \E r \in Runs : CreateRun(r)
  BY <1>3 DEF CreateRun
<1>4. CASE \E r \in Runs : StartRun(r)
  BY <1>4 DEF StartRun
<1>5. CASE \E r \in Runs : FetchPage(r)
  <2>1. PICK r \in Runs : FetchPage(r)
    BY <1>5
  <2>2. \A i \in KeptOfPage(ctx[r].start, ctx[r].before) : i.time >= ctx[r].before
    BY KeptRows DEF Newest, ChangedSince
  <2>3. /\ \A q \in Runs \ {r} : pc'[q] = pc[q] /\ ctx'[q] = ctx[q]
        /\ ctx'[r].before = ctx[r].before /\ ctx'[r].after = ctx[r].after
        /\ ctx'[r].todo = ctx[r].todo \cup KeptOfPage(ctx[r].start, ctx[r].before)
        /\ pc'[r] # "idle"
    BY <2>1 DEF FetchPage
  <2>4. QED
    BY <2>2, <2>3
<1>6. CASE \E r \in Runs : \E i \in ctx[r].todo : PersistRow(r, i)
  BY <1>0, <1>6
<1>7. CASE \E r \in Runs : \E i \in ctx[r].todo, late \in BOOLEAN : RowFails(r, i, late)
  BY <1>0, <1>7
<1>8. CASE \E r \in Runs : RunFails(r)
  BY <1>8 DEF RunFails, Ends, NoContext
<1>9. CASE \E r \in Runs : FinishRun(r)
  BY <1>9 DEF FinishRun
<1>10. CASE \E r \in Runs : WriteCursor(r)
  BY <1>10 DEF WriteCursor, Ends, NoContext
<1>11. CASE \E r \in Runs : Crash(r)
  BY <1>11 DEF Crash, Ends, NoContext
<1>12. CASE UNCHANGED vars
  BY <1>12 DEF vars
<1>13. QED
  BY <1>1, <1>2, <1>3, <1>4, <1>5, <1>6, <1>7, <1>8, <1>9, <1>10, <1>11, <1>12, NextCases

\* Only _write_cursor touches the cursor.
LEMMA CursorMoves == Next => UNCHANGED cursor \/ \E r \in Runs : WriteCursor(r)
<1>1. ASSUME NEW d \in Deals, RemoteWrite(d) \/ RemoteDelete(d) PROVE UNCHANGED cursor
  BY <1>1 DEF RemoteWrite, RemoteDelete
<1>2. ASSUME NEW r \in Runs,
             ReadCursor(r) \/ CreateRun(r) \/ StartRun(r) \/ FetchPage(r) \/ RunFails(r)
             \/ FinishRun(r) \/ Crash(r)
      PROVE  UNCHANGED cursor
  BY <1>2 DEF ReadCursor, CreateRun, StartRun, FetchPage, RunFails, FinishRun, Crash
<1>3. ASSUME NEW r \in Runs, NEW i \in ctx[r].todo, NEW late \in BOOLEAN,
             PersistRow(r, i) \/ RowFails(r, i, late)
      PROVE  UNCHANGED cursor
  BY <1>3 DEF PersistRow, RowFails
<1>4. QED
  BY <1>1, <1>2, <1>3 DEF Next, Step

\* A run that no other run overlaps never moves the cursor back.
THEOREM CursorRegressesOnlyByOverlap == Spec => RegressesOnlyByOverlap
<1> DEFINE Back == cursor' < cursor =>
               \E r \in Runs : pc[r] = "finalized" /\ ctx[r].before < cursor
<1>1. Init => TypeOK /\ PagesOrdered /\ NotOlder
  BY TypeInit DEF Init, NotOlder, NoContext
<1>2. TypeOK /\ PagesOrdered /\ NotOlder /\ [Next]_vars
        => (TypeOK /\ PagesOrdered /\ NotOlder)'
  BY TypeStep, PagesStep, NotOlderStep
<1>3. TypeOK /\ NotOlder /\ [Next]_vars => [Back]_vars
  <2> SUFFICES ASSUME TypeOK, NotOlder, Next, cursor' < cursor
               PROVE  \E r \in Runs : pc[r] = "finalized" /\ ctx[r].before < cursor
    BY DEF vars
  <2>0. cursor' # cursor
    BY DEF TypeOK
  <2>1. PICK r \in Runs : WriteCursor(r)
    BY <2>0, CursorMoves
  <2>2. QED
    BY <2>1 DEF TypeOK, NotOlder, SyncContext, WriteCursor
<1>4. QED
  BY <1>1, <1>2, <1>3, PTL DEF Spec, RegressesOnlyByOverlap
-----------------------------------------------------------------------------
(* The ledger.                                                             *)

Over == {"done", "failed", "crashed"}

\* The row of a run tells how far it got, as long as it is not finalized.
StatusFollows ==
    \A r \in Runs :
        /\ pc[r] \in {"idle", "cursor_read"} => row[r].status = "absent"
        /\ pc[r] = "created" => row[r].status = "pending"
        /\ pc[r] \in {"fetching", "persisting"} => row[r].status = "running"

LEMMA StatusStep == TypeOK /\ StatusFollows /\ [Next]_vars => StatusFollows'
<1> SUFFICES ASSUME TypeOK, StatusFollows, [Next]_vars PROVE StatusFollows'
    OBVIOUS
<1> USE DEF TypeOK, StatusFollows, SyncRunRow
<1>1. CASE \E d \in Deals : RemoteWrite(d) \/ RemoteDelete(d)
  BY <1>1, RemoteQuiet
<1>2. CASE \E r \in Runs : ReadCursor(r)
  BY <1>2 DEF ReadCursor
<1>3. CASE \E r \in Runs : CreateRun(r)
  BY <1>3 DEF CreateRun
<1>4. CASE \E r \in Runs : StartRun(r)
  BY <1>4 DEF StartRun
<1>5. CASE \E r \in Runs : FetchPage(r)
  BY <1>5 DEF FetchPage, LastPage
<1>6. CASE \E r \in Runs : \E i \in ctx[r].todo : PersistRow(r, i)
  BY <1>6 DEF PersistRow
<1>7. CASE \E r \in Runs : \E i \in ctx[r].todo, late \in BOOLEAN : RowFails(r, i, late)
  BY <1>7 DEF RowFails
<1>8. CASE \E r \in Runs : RunFails(r)
  BY <1>8 DEF RunFails, Ends, Finalized
<1>9. CASE \E r \in Runs : FinishRun(r)
  BY <1>9 DEF FinishRun, Finalized
<1>10. CASE \E r \in Runs : WriteCursor(r)
  BY <1>10 DEF WriteCursor, Ends
<1>11. CASE \E r \in Runs : Crash(r)
  BY <1>11 DEF Crash, Ends
<1>12. CASE UNCHANGED vars
  BY <1>12 DEF vars
<1>13. QED
  BY <1>1, <1>2, <1>3, <1>4, <1>5, <1>6, <1>7, <1>8, <1>9, <1>10, <1>11, <1>12, NextCases

Acting == {r \in Runs : pc[r] \notin Over}

\* A run that ends leaves the acting ones, and nobody else does.
LEMMA EndsActing ==
    ASSUME TypeOK, NEW r \in Runs, NEW where \in Over, Ends(r, where), pc[r] \notin Over
    PROVE  r \in Acting /\ Acting' = Acting \ {r}
  BY DEF TypeOK, Ends, Acting, Over

\* A run that goes on stays among them.
LEMMA GoesOnActing ==
    ASSUME TypeOK, NEW r \in Runs, NEW where \in Location,
           pc' = [pc EXCEPT ![r] = where], pc[r] \notin Over, where \notin Over
    PROVE  r \in Acting /\ Acting' = Acting
  BY DEF TypeOK, Acting, Over

\* Every step of a run is a step of the ledger, or not seen in it.
LEMMA LedgerStep ==
    TypeOK /\ RowsFollow /\ StatusFollows /\ ContextCounts /\ [Next]_vars
        => [Ledger!Next]_(Ledger!lvars)
<1> SUFFICES ASSUME TypeOK, RowsFollow, StatusFollows, ContextCounts, [Next]_vars
             PROVE  Ledger!Next \/ UNCHANGED <<row, cursor, Acting>>
    BY DEF Ledger!lvars, Acting, Over
<1>1. CASE \E d \in Deals : RemoteWrite(d) \/ RemoteDelete(d)
  BY <1>1, RemoteQuiet DEF Acting
<1>2. CASE \E r \in Runs : ReadCursor(r)
  <2>1. PICK r \in Runs : ReadCursor(r)
    BY <1>2
  <2>2. Acting' = Acting
    BY <2>1, GoesOnActing DEF ReadCursor, Location, Over
  <2>3. QED
    BY <2>1, <2>2 DEF ReadCursor
<1>3. CASE \E r \in Runs : CreateRun(r)
  <2>1. PICK r \in Runs : CreateRun(r)
    BY <1>3
  <2>2. r \in Acting /\ Acting' = Acting
    BY <2>1, GoesOnActing DEF CreateRun, Location, Over
  <2>3. Ledger!Open(r)
    BY <2>1, <2>2 DEF CreateRun, StatusFollows, Ledger!Open, Ledger!Enter, Acting, Over
  <2>4. QED
    BY <2>3 DEF Ledger!Next
<1>4. CASE \E r \in Runs : StartRun(r)
  <2>1. PICK r \in Runs : StartRun(r)
    BY <1>4
  <2>2. r \in Acting /\ Acting' = Acting
    BY <2>1, GoesOnActing DEF StartRun, Location, Over
  <2>3. Ledger!Begin(r)
    BY <2>1, <2>2 DEF StartRun, StatusFollows, Ledger!Begin, Ledger!Enter, Acting, Over
  <2>4. QED
    BY <2>3 DEF Ledger!Next
<1>5. CASE \E r \in Runs : FetchPage(r)
  <2>1. PICK r \in Runs : FetchPage(r)
    BY <1>5
  <2>2. Acting' = Acting
    BY <2>1 DEF FetchPage, TypeOK, Acting, Over
  <2>3. QED
    BY <2>1, <2>2 DEF FetchPage
<1>6. CASE \E r \in Runs : \E i \in ctx[r].todo : PersistRow(r, i)
  BY <1>6 DEF PersistRow, Acting
<1>7. CASE \E r \in Runs : \E i \in ctx[r].todo, late \in BOOLEAN : RowFails(r, i, late)
  BY <1>7 DEF RowFails, Acting
<1>8. CASE \E r \in Runs : RunFails(r)
  <2>1. PICK r \in Runs : RunFails(r)
    BY <1>8
  <2>2. r \in Acting /\ Acting' = Acting \ {r}
    BY <2>1, EndsActing DEF RunFails, Over
  <2>3. /\ row' = [row EXCEPT ![r] = row'[r]]
        /\ row'[r] = Finalized(r, "failed")
        /\ row[r].status = "running"
    BY <2>1 DEF RunFails, StatusFollows, TypeOK
  <2>4. row'[r].status = "failed" /\ Ledger!AddsUp(row'[r])
    BY <2>3 DEF Finalized, ContextCounts, Ledger!AddsUp
  <2>5. UNCHANGED cursor
    BY <2>1 DEF RunFails
  <2>6. Ledger!Close(r)
    BY <2>2, <2>3, <2>4, <2>5 DEF Ledger!Close, Ledger!Closed, Acting, Over
  <2>7. QED
    BY <2>6 DEF Ledger!Next
<1>9. CASE \E r \in Runs : FinishRun(r)
  <2>1. PICK r \in Runs : FinishRun(r)
    BY <1>9
  <2>2. r \in Acting /\ Acting' = Acting
    BY <2>1, GoesOnActing DEF FinishRun, Location, Over
  <2>3. /\ row' = [row EXCEPT ![r] = row'[r]]
        /\ row'[r] = Finalized(r, IF ctx[r].errors = 0 THEN "completed" ELSE "partial")
        /\ row[r].status = "running"
    BY <2>1 DEF FinishRun, StatusFollows, TypeOK
  <2>4. row'[r].status \in {"completed", "partial"} /\ Ledger!AddsUp(row'[r])
    BY <2>3 DEF Finalized, ContextCounts, Ledger!AddsUp, TypeOK, SyncContext
  <2>5. UNCHANGED cursor
    BY <2>1 DEF FinishRun
  <2>6. Ledger!Close(r)
    BY <2>2, <2>3, <2>4, <2>5 DEF Ledger!Close, Ledger!Closed, Acting, Over
  <2>7. QED
    BY <2>6 DEF Ledger!Next
<1>10. CASE \E r \in Runs : WriteCursor(r)
  <2>1. PICK r \in Runs : WriteCursor(r)
    BY <1>10
  <2>2. r \in Acting /\ Acting' = Acting \ {r}
    BY <2>1, EndsActing DEF WriteCursor, Over
  <2>3. row[r].status \in {"completed", "partial"} /\ row[r].after = ctx[r].after
    BY <2>1 DEF WriteCursor, RowsFollow
  <2>4. cursor' = IF row[r].after = 0 THEN cursor ELSE row[r].after
    BY <2>1, <2>3 DEF WriteCursor
  <2>5. UNCHANGED row
    BY <2>1 DEF WriteCursor
  <2>6. Ledger!Advance(r)
    BY <2>2, <2>3, <2>4, <2>5 DEF Ledger!Advance, Acting, Over
  <2>7. QED
    BY <2>6 DEF Ledger!Next
<1>11. CASE \E r \in Runs : Crash(r)
  <2>1. PICK r \in Runs : Crash(r)
    BY <1>11
  <2>2. r \in Acting /\ Acting' = Acting \ {r}
    BY <2>1, EndsActing DEF Crash, Active, Over
  <2>3. Ledger!Vanish(r)
    BY <2>1, <2>2 DEF Crash, Ledger!Vanish, Acting, Over
  <2>4. QED
    BY <2>3 DEF Ledger!Next
<1>12. CASE UNCHANGED vars
  BY <1>12 DEF vars, Acting
<1>13. QED
  BY <1>1, <1>2, <1>3, <1>4, <1>5, <1>6, <1>7, <1>8, <1>9, <1>10, <1>11, <1>12, NextCases

\* The runs, however they overlap, fail or die, implement the ledger: entries
\* are closed once, add up, and the cursor moves only to what is on record.
THEOREM RunsKeepTheLedger == Spec => ImplementsLedger
<1> DEFINE Inv == TypeOK /\ PagesOrdered /\ RowsFollow /\ CursorBacked /\ ContextCounts
                  /\ RunCounts /\ StatusFollows
<1>1. Init => Inv
  BY TypeInit DEF Init, RowsFollow, CursorBacked, ContextCounts, RunCounts, StatusFollows,
     Terminal, NoContext
<1>2. Inv /\ [Next]_vars => Inv'
  BY TypeStep, PagesStep, BackedStep, CountsStep, StatusStep
<1>3. Init => Ledger!Init
  BY DEF Init, Ledger!Init, Ledger!Blank
<1>4. Inv /\ [Next]_vars => [Ledger!Next]_(Ledger!lvars)
  BY LedgerStep
<1>5. QED
  BY <1>1, <1>2, <1>3, <1>4, PTL DEF Spec, ImplementsLedger, Ledger!Spec

-----------------------------------------------------------------------------
(* The bucket that paces the runs.                                         *)

\* Counting from since, n tokens as of the moment at are not too many.
Covers(n, at) ==
    /\ at < since => taken = 0
    /\ at >= since => taken + n <= Capacity + Refill * (at - since)

EntryPays ==
    ~overlapped =>
        /\ entry.there => Covers(entry.tokens, entry.last)
        /\ ~entry.there => taken <= Refill * (now - since)

WorkersPay ==
    ~overlapped =>
        \A w \in Workers : At(w, "saving") /\ ~worker[w].overtaken =>
            Covers(worker[w].tokens, worker[w].at)

BucketInv == BucketTypeOK /\ EntryPays /\ WorkersPay

-----------------------------------------------------------------------------
(* Arithmetic.                                                             *)

LEMMA Distributes ==
    ASSUME NEW a \in Nat, NEW b \in Nat
    PROVE  Refill * (a + b) = Refill * a + Refill * b /\ Refill * a \in Nat
  BY BucketAssumption

LEMMA Monotone ==
    ASSUME NEW a \in Nat, NEW b \in Nat, a <= b PROVE Refill * a <= Refill * b
<1>1. b - a \in Nat /\ b = a + (b - a)
  OBVIOUS
<1>2. Refill * b = Refill * a + Refill * (b - a) /\ Refill * (b - a) \in Nat
         /\ Refill * a \in Nat
  BY <1>1, Distributes
<1>3. QED
  BY <1>2

\* What comes in between two moments after since.
LEMMA ComesIn ==
    ASSUME BucketTypeOK, NEW from \in Nat, NEW to \in Nat, since <= from, from <= to
    PROVE  /\ Refill * (to - since) = Refill * (from - since) + (to - from) * Refill
           /\ Refill * (from - since) \in Nat /\ (to - from) * Refill \in Nat
<1>1. since \in Nat /\ from - since \in Nat /\ to - from \in Nat
  BY DEF BucketTypeOK
<1>2. to - since = (from - since) + (to - from)
  BY <1>1
<1>3. Refill * (to - from) = (to - from) * Refill
  BY <1>1, BucketAssumption
<1>4. /\ Refill * ((from - since) + (to - from)) = Refill * (from - since) + Refill * (to - from)
      /\ Refill * (from - since) \in Nat /\ Refill * (to - from) \in Nat
  BY <1>1, Distributes
<1>5. QED
  BY <1>2, <1>3, <1>4

-----------------------------------------------------------------------------
LEMMA FilledType == ASSUME BucketTypeOK PROVE Filled \in 0..Capacity
<1>1. CASE entry.there
  <2>1. now - entry.last \in Nat /\ entry.tokens \in Nat
    BY DEF BucketTypeOK
  <2>2. (now - entry.last) * Refill \in Nat
    BY <2>1, BucketAssumption
  <2>3. QED
    BY <1>1, <2>1, <2>2, BucketAssumption DEF Filled, AtMost
<1>2. CASE ~entry.there
  BY <1>2, BucketAssumption DEF Filled
<1>3. QED
  BY <1>1, <1>2

\* A step of one worker keeps the types, if its new state has its own.
LEMMA OneWorker ==
    ASSUME BucketTypeOK, NEW w \in Workers, NEW to \in WorkerState,
           to.pc = "saving" => to.tokens > 0,
           worker' = [worker EXCEPT ![w] = to],
           UNCHANGED <<now, entry, since, taken, overlapped>>
    PROVE  BucketTypeOK'
<1>1. WorkerState' = WorkerState
  BY DEF WorkerState
<1>2. worker' \in [Workers -> WorkerState]
  BY DEF BucketTypeOK
<1>3. \A x \in Workers : worker'[x] = IF x = w THEN to ELSE worker[x]
  BY DEF BucketTypeOK
<1>4. \A x \in Workers : At(x, "saving")' => worker'[x].tokens > 0
  BY <1>3 DEF BucketTypeOK, At
<1>5. QED
  BY <1>1, <1>2, <1>4 DEF BucketTypeOK

LEMMA IdleType == ASSUME BucketTypeOK PROVE Idle \in WorkerState
<1>1. 0 \in 0..Capacity /\ 0 \in 0..now
  BY BucketAssumption DEF BucketTypeOK
<1>2. QED
  BY <1>1 DEF Idle, WorkerState

LEMMA WorkerTypes ==
    ASSUME BucketTypeOK, NEW w \in Workers
    PROVE  worker[w] \in WorkerState
  BY DEF BucketTypeOK

\* Every variable keeps its type.
LEMMA BucketTypeStep == BucketTypeOK /\ [BucketNext]_bucketVars => BucketTypeOK'
<1> SUFFICES ASSUME BucketTypeOK, [BucketNext]_bucketVars PROVE BucketTypeOK'
    OBVIOUS
<1>1. ASSUME NEW w \in Workers, Call(w) PROVE BucketTypeOK'
  <2>1. now + Timeout \in Nat
    BY BucketAssumption DEF BucketTypeOK
  <2>2. [Idle EXCEPT !.pc = "looking", !.deadline = now + Timeout] \in WorkerState
    BY <2>1, IdleType DEF WorkerState
  <2>3. [Idle EXCEPT !.pc = "looking", !.deadline = now + Timeout].pc = "looking"
    BY DEF Idle
  <2>4. QED
    BY <1>1, <2>2, <2>3, OneWorker DEF Call
<1>2. ASSUME NEW w \in Workers, Find(w) PROVE BucketTypeOK'
  <2> DEFINE to == [worker[w] EXCEPT !.pc = "saving", !.tokens = Filled, !.at = now]
  <2>1. now \in 0..now /\ Filled \in 0..Capacity
    BY FilledType DEF BucketTypeOK
  <2>2. to \in WorkerState
    BY <2>1, WorkerTypes DEF WorkerState
  <2>3. to.tokens = Filled
    BY WorkerTypes DEF WorkerState
  <2>4. Filled > 0
    BY <1>2, <2>1, BucketAssumption DEF Find
  <2>5. worker' = [worker EXCEPT ![w] = to]
    BY <1>2 DEF Find, BucketTypeOK
  <2> HIDE DEF to
  <2>6. QED
    BY <1>2, <2>2, <2>3, <2>4, <2>5, OneWorker DEF Find
<1>3. ASSUME NEW w \in Workers, Wait(w) \/ Wake(w) PROVE BucketTypeOK'
  <2>1. PICK step \in {"asleep", "looking"} : worker' = [worker EXCEPT ![w] = [worker[w] EXCEPT !.pc = step]]
    BY <1>3 DEF Wait, Wake
  <2> DEFINE to == [worker[w] EXCEPT !.pc = step]
  <2>2. to \in WorkerState /\ to.pc # "saving"
    BY WorkerTypes DEF WorkerState
  <2> HIDE DEF to
  <2>3. worker' = [worker EXCEPT ![w] = to]
    BY <2>1 DEF to
  <2>4. QED
    BY <1>3, <2>2, <2>3, OneWorker DEF Wait, Wake
<1>4. ASSUME NEW w \in Workers, GiveUp(w) \/ Die(w) PROVE BucketTypeOK'
  <2>1. Idle.pc # "saving"
    BY DEF Idle
  <2>2. QED
    BY <1>4, <2>1, IdleType, OneWorker DEF GiveUp, Die
<1>5. ASSUME NEW w \in Workers, Save(w) PROVE BucketTypeOK'
  <2>1. worker[w].tokens - 1 \in 0..Capacity /\ worker[w].at \in 0..now
    BY <1>5, WorkerTypes, BucketAssumption DEF Save, BucketTypeOK, WorkerState
  <2>2. entry' \in [there : BOOLEAN, tokens : 0..Capacity, last : 0..now]
    BY <1>5, <2>1 DEF Save, Written
  <2>3. \A x \in Workers : [worker[x] EXCEPT !.overtaken = TRUE] \in WorkerState
    BY WorkerTypes DEF WorkerState
  <2>4. worker' \in [Workers -> WorkerState]
    BY <1>5, <2>3, WorkerTypes, IdleType DEF Save
  <2>5. \A x \in Workers : At(x, "saving")' => worker'[x].tokens > 0
    <3> SUFFICES ASSUME NEW x \in Workers, At(x, "saving")' PROVE worker'[x].tokens > 0
        OBVIOUS
    <3>1. worker'[x] = IF x = w THEN Idle
                       ELSE IF At(x, "saving") THEN [worker[x] EXCEPT !.overtaken = TRUE]
                       ELSE worker[x]
      BY <1>5 DEF Save
    <3>2. x # w /\ At(x, "saving")
      BY <3>1 DEF At, Idle
    <3>3. worker'[x].tokens = worker[x].tokens
      BY <3>1, <3>2, WorkerTypes DEF WorkerState
    <3>4. QED
      BY <3>2, <3>3 DEF BucketTypeOK
  <2>6. taken' \in Nat /\ overlapped' \in BOOLEAN
    BY <1>5, WorkerTypes DEF Save, BucketTypeOK, WorkerState
  <2>7. now' = now /\ since' = since /\ WorkerState' = WorkerState
    BY <1>5 DEF Save, WorkerState
  <2>8. QED
    BY <2>2, <2>4, <2>5, <2>6, <2>7 DEF BucketTypeOK
<1>6. CASE Tick
  <2>1. now' \in Nat /\ 0..now \subseteq 0..now'
    BY <1>6 DEF Tick, BucketTypeOK
  <2>2. WorkerState \subseteq WorkerState'
    BY <2>1 DEF WorkerState
  <2>3. UNCHANGED <<entry, worker, since, taken, overlapped>>
    BY <1>6 DEF Tick
  <2>4. worker' \in [Workers -> WorkerState'] /\ \A w \in Workers : At(w, "saving")' <=> At(w, "saving")
    BY <2>2, <2>3 DEF BucketTypeOK, At
  <2>5. QED
    BY <2>1, <2>3, <2>4 DEF BucketTypeOK
<1>7. CASE Expire \/ CountFromNow \/ UNCHANGED bucketVars
  <2>1. now' = now /\ worker' = worker /\ WorkerState' = WorkerState
    BY <1>7 DEF Expire, CountFromNow, bucketVars, WorkerState
  <2>2. entry' \in [there : BOOLEAN, tokens : 0..Capacity, last : 0..now]
    <3>1. NoEntry \in [there : BOOLEAN, tokens : 0..Capacity, last : 0..now]
      <4>1. 0 \in 0..Capacity /\ 0 \in 0..now
        BY BucketAssumption DEF BucketTypeOK
      <4>2. QED
        BY <4>1 DEF NoEntry
    <3>2. entry' = NoEntry \/ entry' = entry
      BY <1>7 DEF Expire, CountFromNow, bucketVars
    <3>3. QED
      BY <3>1, <3>2 DEF BucketTypeOK
  <2>3. since' \in 0..now /\ taken' \in Nat /\ overlapped' \in BOOLEAN
    <3>1. CASE CountFromNow
      <4>1. since' = now /\ now \in 0..now /\ taken' = 0 /\ overlapped' = FALSE
        BY <3>1 DEF CountFromNow, BucketTypeOK
      <4>2. QED
        BY <4>1
    <3>2. CASE UNCHANGED <<since, taken, overlapped>>
      BY <3>2 DEF BucketTypeOK
    <3>3. QED
      BY <1>7, <3>1, <3>2 DEF Expire, bucketVars
  <2>4. \A w \in Workers : At(w, "saving")' => worker'[w].tokens > 0
    BY <2>1 DEF BucketTypeOK, At
  <2>5. QED
    BY <2>1, <2>2, <2>3, <2>4 DEF BucketTypeOK
<1>8. QED
  BY <1>1, <1>2, <1>3, <1>4, <1>5, <1>6, <1>7 DEF BucketNext, Go

\* A worker's step other than a read or a write changes nothing that counts.
LEMMA QuietStep ==
    ASSUME BucketInv, NEW w \in Workers, UNCHANGED <<now, entry, since, taken, overlapped>>,
           NEW to, worker' = [worker EXCEPT ![w] = to], to.pc # "saving"
    PROVE  EntryPays' /\ WorkersPay'
<1>1. \A n, at : Covers(n, at)' <=> Covers(n, at)
  BY DEF Covers
<1>2. EntryPays'
  BY <1>1 DEF BucketInv, EntryPays, Covers
<1>3. \A x \in Workers : worker'[x] = IF x = w THEN to ELSE worker[x]
  BY DEF BucketInv, BucketTypeOK
<1>4. WorkersPay'
  <2> SUFFICES ASSUME ~overlapped, NEW x \in Workers, At(x, "saving")', ~worker'[x].overtaken
               PROVE  Covers(worker'[x].tokens, worker'[x].at)
      BY <1>1 DEF WorkersPay, Covers
  <2>1. worker'[x] = worker[x] /\ At(x, "saving")
    BY <1>3 DEF At
  <2>2. QED
    BY <2>1 DEF WorkersPay, BucketInv
<1>5. QED
  BY <1>2, <1>4

\* The tokens a caller finds are covered as of now.
LEMMA FilledCovers == ASSUME BucketInv, ~overlapped PROVE Covers(Filled, now)
<1> USE DEF BucketInv
<1>1. now \in Nat /\ since \in Nat /\ since <= now /\ taken \in Nat
  BY DEF BucketTypeOK
<1>2. Filled \in 0..Capacity
  BY FilledType
<1>3. Refill * (now - since) \in Nat
  <2>1. now - since \in Nat
    BY <1>1
  <2>2. QED
    BY <2>1, Distributes
<1>4. CASE ~entry.there
  BY <1>1, <1>2, <1>3, <1>4, BucketAssumption DEF EntryPays, Covers
<1>5. CASE entry.there /\ entry.last < since
  BY <1>1, <1>2, <1>3, <1>5, BucketAssumption DEF EntryPays, Covers
<1>6. CASE entry.there /\ entry.last >= since
  <2>1. entry.last \in Nat /\ entry.last <= now /\ entry.tokens \in Nat
    BY DEF BucketTypeOK
  <2>2. /\ Refill * (now - since) = Refill * (entry.last - since) + (now - entry.last) * Refill
        /\ Refill * (entry.last - since) \in Nat /\ (now - entry.last) * Refill \in Nat
    BY <1>1, <1>6, <2>1, ComesIn
  <2>3. Filled <= entry.tokens + (now - entry.last) * Refill
    BY <1>6, <2>1, <2>2, BucketAssumption DEF Filled, AtMost
  <2>4. taken + entry.tokens <= Capacity + Refill * (entry.last - since)
    BY <1>6 DEF EntryPays, Covers
  <2>5. taken + Filled <= Capacity + Refill * (now - since)
    BY <1>1, <1>2, <2>1, <2>2, <2>3, <2>4, BucketAssumption
  <2>6. QED
    BY <1>1, <2>5 DEF Covers
<1>7. QED
  BY <1>1, <1>4, <1>5, <1>6 DEF BucketTypeOK

LEMMA FindStep == ASSUME BucketInv, NEW w \in Workers, Find(w) PROVE EntryPays' /\ WorkersPay'
<1> USE DEF BucketInv
<1>1. EntryPays'
  BY DEF Find, EntryPays, Covers
<1>2. ASSUME ~overlapped', NEW x \in Workers, At(x, "saving")', ~worker'[x].overtaken
      PROVE  Covers(worker[x].tokens, worker[x].at)'
  <2>1. CASE x = w
    <3>1. worker'[x].tokens = Filled /\ worker'[x].at = now
      BY <2>1 DEF Find, BucketTypeOK
    <3>2. Covers(Filled, now)
      BY <1>2, FilledCovers DEF Find
    <3>3. QED
      BY <3>1, <3>2 DEF Covers, Find
  <2>2. CASE x # w
    <3>1. worker'[x] = worker[x]
      BY <2>2 DEF Find, BucketTypeOK
    <3>2. Covers(worker[x].tokens, worker[x].at)
      BY <1>2, <3>1 DEF WorkersPay, At, Find
    <3>3. QED
      BY <3>1, <3>2 DEF Covers, Find
  <2>3. QED
    BY <2>1, <2>2
<1>3. QED
  BY <1>1, <1>2 DEF WorkersPay

LEMMA SaveStep == ASSUME BucketInv, NEW w \in Workers, Save(w) PROVE EntryPays' /\ WorkersPay'
<1> USE DEF BucketInv
<1>1. /\ entry' = Written(w) /\ UNCHANGED <<now, since>>
      /\ taken' = IF worker[w].at >= since THEN taken + 1 ELSE taken
      /\ overlapped' = (overlapped \/ worker[w].overtaken)
  BY DEF Save
<1>2. /\ worker[w].at \in Nat /\ worker[w].tokens \in Nat /\ worker[w].tokens > 0
      /\ taken \in Nat /\ since \in Nat
  BY WorkerTypes DEF BucketTypeOK, WorkerState, Save
<1>3. EntryPays'
  <2> SUFFICES ASSUME ~overlapped' PROVE EntryPays'
      BY DEF EntryPays
  <2>1. Covers(worker[w].tokens, worker[w].at)
    BY <1>1 DEF WorkersPay, Save
  <2>2. PICK n, at : n = worker[w].tokens /\ at = worker[w].at
    OBVIOUS
  <2>3. at < since => taken' = 0
    BY <1>1, <1>2, <2>1, <2>2 DEF Covers
  <2>4. at >= since => taken' + (n - 1) <= Capacity + Refill * (at - since)
    <3> SUFFICES ASSUME at >= since PROVE taken' + (n - 1) <= Capacity + Refill * (at - since)
        OBVIOUS
    <3>1. at - since \in Nat
      BY <1>2, <2>2
    <3>2. Refill * (at - since) \in Nat
      BY <3>1, Distributes
    <3>3. taken + n <= Capacity + Refill * (at - since)
      BY <2>1, <2>2 DEF Covers
    <3>4. QED
      BY <1>1, <1>2, <2>2, <3>2, <3>3, BucketAssumption
  <2>5. entry'.there /\ entry'.tokens = n - 1 /\ entry'.last = at
    BY <1>1, <2>2 DEF Written
  <2>6. Covers(entry.tokens, entry.last)'
    BY <1>1, <2>3, <2>4, <2>5 DEF Covers
  <2>7. QED
    BY <2>5, <2>6 DEF EntryPays
<1>4. \A x \in Workers : At(x, "saving")' => worker'[x].overtaken
  BY DEF Save, BucketTypeOK, At, Idle
<1>5. QED
  BY <1>3, <1>4 DEF WorkersPay

LEMMA TickStep == ASSUME BucketInv, Tick PROVE EntryPays' /\ WorkersPay'
<1> USE DEF BucketInv
<1>1. UNCHANGED <<entry, worker, since, taken, overlapped>> /\ now' = now + 1
  BY DEF Tick
<1>0. now - since \in Nat /\ now' - since \in Nat /\ now - since <= now' - since
  BY <1>1 DEF BucketTypeOK
<1>2. Refill * (now - since) <= Refill * (now' - since)
  BY <1>1, <1>0, Monotone
<1>3. /\ Refill * (now - since) \in Nat /\ Refill * (now' - since) \in Nat /\ taken \in Nat
  BY <1>0, Distributes DEF BucketTypeOK
<1>4. EntryPays'
  BY <1>1, <1>2, <1>3 DEF EntryPays, Covers
<1>5. QED
  BY <1>1, <1>4 DEF WorkersPay, At, Covers

\* The assumption on the entry's life is needed here.
LEMMA ExpireStep == ASSUME BucketInv, Expire PROVE EntryPays' /\ WorkersPay'
<1> USE DEF BucketInv
<1>1. UNCHANGED <<now, worker, since, taken, overlapped>> /\ entry' = NoEntry
  BY DEF Expire
<1>2. /\ entry.there /\ now >= entry.last + TTL
      /\ entry.last \in Nat /\ entry.tokens \in Nat /\ now \in Nat /\ since \in Nat
      /\ since <= now /\ taken \in Nat /\ TTL \in Nat
  BY BucketAssumption DEF Expire, BucketTypeOK
<1>3. Refill * (now - since) \in Nat
  <2>1. now - since \in Nat
    BY <1>2
  <2>2. QED
    BY <2>1, Distributes
<1>4. ~overlapped => taken <= Refill * (now - since)
  <2>1. CASE entry.last < since
    BY <1>2, <1>3, <2>1 DEF EntryPays, Covers
  <2>2. CASE entry.last >= since
    <3>1. /\ Refill * (now - since) = Refill * (entry.last - since) + (now - entry.last) * Refill
          /\ Refill * (entry.last - since) \in Nat /\ (now - entry.last) * Refill \in Nat
      <4>1. since <= entry.last /\ entry.last <= now
        BY <1>2, <2>2
      <4>2. QED
        BY <1>2, <4>1, ComesIn
    <3>2. Refill * TTL <= Refill * (now - entry.last)
      BY <1>2, Monotone
    <3>3. Refill * (now - entry.last) = (now - entry.last) * Refill /\ Refill * TTL \in Nat
      BY <1>2, BucketAssumption
    <3>4. Capacity <= (now - entry.last) * Refill
      BY <3>1, <3>2, <3>3, BucketAssumption
    <3>5. ~overlapped => taken + entry.tokens <= Capacity + Refill * (entry.last - since)
      BY <1>2, <2>2 DEF EntryPays, Covers
    <3>6. QED
      BY <1>2, <3>1, <3>4, <3>5, BucketAssumption
  <2>3. QED
    BY <1>2, <2>1, <2>2
<1>5. EntryPays'
  BY <1>1, <1>4 DEF EntryPays, NoEntry
<1>6. QED
  BY <1>1, <1>5 DEF WorkersPay, At, Covers

LEMMA CountStep == ASSUME BucketInv, CountFromNow PROVE EntryPays' /\ WorkersPay'
<1> USE DEF BucketInv
<1>1. UNCHANGED <<now, entry, worker>> /\ since' = now /\ taken' = 0
  BY DEF CountFromNow
<1>2. Refill * 0 = 0 /\ Capacity \in Nat
  BY BucketAssumption
<1>3. ASSUME NEW n \in 0..Capacity, NEW at \in 0..now PROVE Covers(n, at)'
  <2>1. CASE at < now
    BY <1>1, <2>1 DEF Covers, BucketTypeOK
  <2>2. CASE at = now
    <3>1. at - since' = 0
      BY <1>1, <2>2 DEF BucketTypeOK
    <3>2. taken' + n <= Capacity + Refill * (at - since')
      BY <1>1, <1>2, <3>1
    <3>3. at >= since' /\ ~(at < since')
      BY <1>1, <2>2 DEF BucketTypeOK
    <3>4. QED
      BY <3>2, <3>3 DEF Covers
  <2>3. QED
    BY <2>1, <2>2 DEF BucketTypeOK
<1>4. EntryPays'
  <2>1. entry.there => Covers(entry.tokens, entry.last)'
    BY <1>1, <1>3 DEF BucketTypeOK, Covers
  <2>2. taken' <= Refill * (now' - since')
    BY <1>1, <1>2 DEF BucketTypeOK
  <2>3. QED
    BY <1>1, <2>1, <2>2 DEF EntryPays
<1>5. WorkersPay'
  <2> SUFFICES ASSUME NEW x \in Workers PROVE Covers(worker[x].tokens, worker[x].at)'
      BY DEF WorkersPay
  <2>1. worker[x].tokens \in 0..Capacity /\ worker[x].at \in 0..now
    BY WorkerTypes DEF WorkerState
  <2>2. PICK n \in 0..Capacity, at \in 0..now : n = worker[x].tokens /\ at = worker[x].at
    BY <2>1
  <2>3. Covers(n, at)'
    BY <1>3
  <2>4. QED
    BY <1>1, <2>2, <2>3 DEF Covers
<1>6. QED
  BY <1>4, <1>5

LEMMA BucketStep == BucketInv /\ [BucketNext]_bucketVars => BucketInv'
<1> SUFFICES ASSUME BucketInv, [BucketNext]_bucketVars PROVE EntryPays' /\ WorkersPay'
    BY BucketTypeStep DEF BucketInv
<1>1. ASSUME NEW w \in Workers, Call(w) \/ GiveUp(w) \/ Die(w) PROVE EntryPays' /\ WorkersPay'
  <2>1. PICK to : to.pc # "saving" /\ worker' = [worker EXCEPT ![w] = to]
    BY <1>1 DEF Call, GiveUp, Die, Idle
  <2>2. QED
    BY <1>1, <2>1, QuietStep DEF Call, GiveUp, Die
<1>2. ASSUME NEW w \in Workers, Wait(w) \/ Wake(w) PROVE EntryPays' /\ WorkersPay'
  <2>1. PICK step \in {"asleep", "looking"} : worker' = [worker EXCEPT ![w] = [worker[w] EXCEPT !.pc = step]]
    BY <1>2 DEF Wait, Wake
  <2>2. [worker[w] EXCEPT !.pc = step].pc # "saving"
    BY DEF BucketInv, BucketTypeOK
  <2>3. QED
    BY <1>2, <2>1, <2>2, QuietStep DEF Wait, Wake
<1>3. ASSUME NEW w \in Workers, Find(w) PROVE EntryPays' /\ WorkersPay'
  BY <1>3, FindStep
<1>4. ASSUME NEW w \in Workers, Save(w) PROVE EntryPays' /\ WorkersPay'
  BY <1>4, SaveStep
<1>5. CASE Tick \/ Expire \/ CountFromNow
  BY <1>5, TickStep, ExpireStep, CountStep
<1>6. CASE UNCHANGED bucketVars
  BY <1>6 DEF bucketVars, BucketInv, EntryPays, WorkersPay, Covers, At
<1>7. QED
  BY <1>1, <1>2, <1>3, <1>4, <1>5, <1>6 DEF BucketNext, Go

LEMMA BucketStart == BucketInit => BucketInv
<1> SUFFICES ASSUME BucketInit PROVE BucketInv
    OBVIOUS
<1>1. BucketTypeOK
  <2>1. now = 0 /\ 0 \in 0..now /\ 0 \in 0..Capacity
    BY BucketAssumption DEF BucketInit
  <2>2. entry \in [there : BOOLEAN, tokens : 0..Capacity, last : 0..now]
    BY <2>1 DEF BucketInit, NoEntry
  <2>3. Idle \in WorkerState /\ Idle.pc # "saving"
    BY <2>1 DEF Idle, WorkerState
  <2>4. worker \in [Workers -> WorkerState] /\ \A w \in Workers : ~At(w, "saving")
    BY <2>3 DEF BucketInit, At
  <2>5. now \in Nat /\ since \in 0..now /\ taken \in Nat /\ overlapped \in BOOLEAN
    <3>1. now = 0 /\ since = 0 /\ taken = 0 /\ overlapped = FALSE
      BY DEF BucketInit
    <3>2. overlapped \in BOOLEAN
      BY <3>1
    <3>3. QED
      BY <3>1, <3>2
  <2>6. QED
    BY <2>2, <2>4, <2>5 DEF BucketTypeOK
<1>2. Refill * 0 = 0
  BY BucketAssumption
<1>3. EntryPays
  BY <1>2 DEF BucketInit, EntryPays, NoEntry
<1>4. WorkersPay
  BY DEF BucketInit, WorkersPay, At, Idle
<1>5. QED
  BY <1>1, <1>3, <1>4 DEF BucketInv

\* Every variable has its type: what is written is never more than the bucket
\* holds, nor of a time to come.
THEOREM BucketTypes == BucketSpec => []BucketTypeOK
<1>1. BucketInit => BucketTypeOK
  BY BucketStart DEF BucketInv
<1>2. QED
  BY <1>1, BucketTypeStep, PTL DEF BucketSpec

\* From any moment on, no more is taken than the bucket holds and the time
\* brings in, as long as no two callers overlap.
THEOREM BurstsAreBounded == BucketSpec => []BurstIsBounded
<1>1. BucketInv => BurstIsBounded
  <2> SUFFICES ASSUME BucketInv, ~overlapped PROVE taken <= Capacity + Refill * (now - since)
      BY DEF BurstIsBounded
  <2>1. Covers(Filled, now)
    BY FilledCovers
  <2>2. /\ now >= since /\ taken \in Nat /\ Refill * (now - since) \in Nat
        /\ Filled \in Nat
    <3>1. now - since \in Nat /\ taken \in Nat /\ now >= since
      BY DEF BucketInv, BucketTypeOK
    <3>2. Refill * (now - since) \in Nat
      BY <3>1, Distributes
    <3>3. Filled \in Nat
      BY FilledType, BucketAssumption DEF BucketInv
    <3>4. QED
      BY <3>1, <3>2, <3>3
  <2>3. QED
    BY <2>1, <2>2, BucketAssumption DEF Covers
<1>2. QED
  BY <1>1, BucketStart, BucketStep, PTL DEF BucketSpec
=============================================================================
