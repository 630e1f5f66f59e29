--------------------------- MODULE ConnectorSync ---------------------------
(***************************************************************************)
(* The incremental ingest of one connector resource: BaseSync.run of       *)
(* apps/connectors/_framework/base_sync.py, with the fetch and persist of   *)
(* PipedriveDealSync (apps/connectors/pipedrive) as the subclass.          *)
(*                                                                         *)
(* A run is one execution of BaseSync.run by a Celery worker. It reads the *)
(* resource's IngestionCursor, creates its SyncRun row, reads every page   *)
(* of the remote collection keeping the rows changed since the cursor,     *)
(* upserts them one by one into the mirror table and then moves the cursor *)
(* to the newest update_time it persisted. Runs may overlap, a row may     *)
(* fail, the fetch may fail and a worker may die between any two steps.    *)
(*                                                                         *)
(* Pages are taken by offset from the list of the deals that are there when *)
(* each is asked for: Pipedrive lists them in the order of their creation, *)
(* and a deal that is deleted leaves no gap. The mirror row of a deleted   *)
(* deal stays as it is. A deal that is restored is not modelled.           *)
(*                                                                         *)
(* A time is a number, 0 standing for the empty string of a cursor nobody  *)
(* wrote; the version of a deal stands for its payload.                    *)
(***************************************************************************)
EXTENDS Naturals, FiniteSets

CONSTANTS
    Deals,        \* the deals of the remote account
    Runs,         \* executions of BaseSync.run for this resource
    PageSize,     \* deals on a page
    MaxVersion    \* bound: MaxVersion[d] is how often d is written at the remote end

ASSUME PagesAssumption ==
    /\ IsFiniteSet(Deals) /\ Deals # {}
    /\ PageSize \in Nat \ {0}
    /\ MaxVersion \in [Deals -> Nat]

VARIABLES
    remote,   \* remote[d]: the deal at Pipedrive, its version and update_time
    place,    \* place[d]: its place in the list of the deals, 0 = not there
    clock,    \* Pipedrive's clock, the newest update_time it can hand out
    mirror,   \* mirror[d]: the version in ScbPipedriveDeal, 0 = no row
    cursor,   \* IngestionCursor.cursor of "pipedrive.deals"
    row,      \* row[r]: the SyncRun row of run r
    pc,       \* pc[r]: where run r stands in BaseSync.run
    ctx,      \* ctx[r]: the SyncContext of run r and its fetched rows
    excused   \* history: deals whose newest change the cursor passed for a
              \* reason this module names (see MarkMissed and Overwritten)

vars == <<remote, place, clock, mirror, cursor, row, pc, ctx, excused>>

-----------------------------------------------------------------------------
Item == [deal : Deals, ver : Nat, time : Nat]

Terminal == {"completed", "partial", "failed"}

SyncRunRow ==
    [status  : {"absent", "pending", "running"} \cup Terminal,
     after   : Nat,
     fetched : Nat, created : Nat, updated : Nat, errors : Nat]

\* "cursor_read": the cursor is read and no SyncRun row exists yet.
Location == {"idle", "cursor_read", "created", "fetching", "persisting",
             "finalized", "done", "failed", "crashed"}

SyncContext ==
    [before  : Nat,            \* cursor_before
     after   : Nat,            \* cursor_after
     start   : Nat,            \* the offset iter_deals asks for next
     todo    : SUBSET Item,    \* rows fetched and not yet persisted
     missed  : SUBSET Deals,   \* history: rows this run failed or raced with
     fetched : Nat, created : Nat, updated : Nat, errors : Nat]

NoContext == [before |-> 0, after |-> 0, start |-> 0, todo |-> {}, missed |-> {},
              fetched |-> 0, created |-> 0, updated |-> 0, errors |-> 0]

Later(a, b) == IF a >= b THEN a ELSE b

TypeOK ==
    /\ remote \in [Deals -> [ver : Nat, time : Nat]]
    /\ place \in [Deals -> 0..Cardinality(Deals)]
    /\ clock \in Nat
    /\ mirror \in [Deals -> Nat]
    /\ cursor \in Nat
    /\ row \in [Runs -> SyncRunRow]
    /\ pc \in [Runs -> Location]
    /\ ctx \in [Runs -> SyncContext]
    /\ \A r \in Runs : ctx[r].start < Cardinality(Deals) + PageSize
    /\ excused \subseteq Deals

Init ==
    /\ remote = [d \in Deals |-> [ver |-> 0, time |-> 0]]
    /\ place = [d \in Deals |-> 0]
    /\ clock = 1
    /\ mirror = [d \in Deals |-> 0]
    /\ cursor = 0
    /\ row = [r \in Runs |-> [status |-> "absent", after |-> 0, fetched |-> 0,
                              created |-> 0, updated |-> 0, errors |-> 0]]
    /\ pc = [r \in Runs |-> "idle"]
    /\ ctx = [r \in Runs |-> NoContext]
    /\ excused = {}

-----------------------------------------------------------------------------
(* The remote account.                                                     *)

Listed(d) == place[d] > 0

\* Run r is between two pages, and d is now on one that it has read.
MidFetchPast(r, d) == pc[r] = "fetching" /\ place'[d] \in 1..ctx[r].start

\* Run r will not see what happened to the deals of outrun[r].
Outruns(outrun) ==
    ctx' = [r \in Runs |-> [ctx[r] EXCEPT !.missed = @ \cup outrun[r]]]

\* A deal is created, at the end of the list, or changed at Pipedrive. Two writes
\* may carry the same update_time, which has a resolution of one second. A run
\* between two pages that has already read this deal's page will not see it.
RemoteWrite(d) ==
    /\ remote[d].ver < MaxVersion[d]
    /\ Listed(d) \/ remote[d].ver = 0
    /\ clock' \in {clock, clock + 1}
    /\ remote' = [remote EXCEPT ![d] = [ver |-> @.ver + 1, time |-> clock']]
    /\ place' = [place EXCEPT ![d] =
                   IF Listed(d) THEN @ ELSE Cardinality({e \in Deals : Listed(e)}) + 1]
    /\ Outruns([r \in Runs |-> {e \in {d} : MidFetchPast(r, e)}])
    /\ excused' = excused \ {d}
    /\ UNCHANGED <<mirror, cursor, row, pc>>

\* A deal is deleted, and those behind it move up: one that was to come on the
\* next page slides onto a page that a run between two pages has read.
RemoteDelete(d) ==
    /\ Listed(d)
    /\ place' = [e \in Deals |-> IF e = d THEN 0
                                ELSE IF place[e] > place[d] THEN place[e] - 1
                                ELSE place[e]]
    /\ Outruns([r \in Runs |->
          {e \in Deals : place[e] > ctx[r].start /\ MidFetchPast(r, e)}])
    /\ UNCHANGED <<remote, clock, mirror, cursor, row, pc, excused>>

-----------------------------------------------------------------------------
(* BaseSync.run, one action for each statement that others can see.        *)

\* run() is over, at the given place: its SyncContext is gone.
Ends(r, where) ==
    /\ pc' = [pc EXCEPT ![r] = where]
    /\ ctx' = [ctx EXCEPT ![r] = NoContext]

\* _read_cursor.
ReadCursor(r) ==
    /\ pc[r] = "idle"
    /\ ctx' = [ctx EXCEPT ![r].before = cursor]
    /\ pc' = [pc EXCEPT ![r] = "cursor_read"]
    /\ UNCHANGED <<remote, place, clock, mirror, cursor, row, excused>>

\* SyncRun.objects.create(status=PENDING).
CreateRun(r) ==
    /\ pc[r] = "cursor_read"
    /\ row' = [row EXCEPT ![r].status = "pending"]
    /\ pc' = [pc EXCEPT ![r] = "created"]
    /\ UNCHANGED <<remote, place, clock, mirror, cursor, ctx, excused>>

\* run.status = RUNNING, saved before the first request.
StartRun(r) ==
    /\ pc[r] = "created"
    /\ row' = [row EXCEPT ![r].status = "running"]
    /\ pc' = [pc EXCEPT ![r] = "fetching"]
    /\ UNCHANGED <<remote, place, clock, mirror, cursor, ctx, excused>>

\* Mutations: rows changed at the cursor's own time, or the cursor, are ignored.
ChangedSinceStrictly(d, since) == remote[d].time > since
ChangedEver(d, since) == TRUE

\* The rows of a page iter_deals keeps: every row when there is no cursor,
\* else those with update_time >= since.
ChangedSince(d, since) == remote[d].time >= since

KeptOfPage(start, since) ==
    {[deal |-> d, ver |-> remote[d].ver, time |-> remote[d].time] :
        d \in {e \in Deals : /\ place[e] \in start+1..start+PageSize
                             /\ ChangedSince(e, since)}}

\* Mutation: the loop asks for one page more.
LastPageLate(start) == ~\E d \in Deals : place[d] > start

\* pagination.more_items_in_collection is false.
LastPage(start) == ~\E d \in Deals : place[d] > start + PageSize

\* One GET /deals. iter_deals collects all pages before it returns, so no row
\* is persisted until the last page is read. next_start is start + limit.
FetchPage(r) ==
    /\ pc[r] = "fetching"
    /\ LET start == ctx[r].start
       IN  /\ ctx' = [ctx EXCEPT
                 ![r].todo = @ \cup KeptOfPage(start, ctx[r].before),
                 ![r].start = start + PageSize]
           /\ pc' = IF LastPage(start) THEN [pc EXCEPT ![r] = "persisting"] ELSE pc
    /\ UNCHANGED <<remote, place, clock, mirror, cursor, row, excused>>

\* The newest change of d is in the mirror and an older payload replaces it.
Overwritten(d, ver) == mirror[d] = remote[d].ver /\ ver < remote[d].ver

\* cursor_after is raised to the update_time of each row the run persists.
CursorAfter(after, time) == Later(after, time)

\* acquire(1) and _persist_one of a row whose persist succeeds: update_or_create
\* replaces the whole row with the payload this run fetched.
PersistRow(r, i) ==
    /\ pc[r] = "persisting"
    /\ i \in ctx[r].todo
    /\ mirror' = [mirror EXCEPT ![i.deal] = i.ver]
    /\ ctx' = [ctx EXCEPT
          ![r].todo = @ \ {i},
          ![r].after = CursorAfter(@, i.time),
          ![r].fetched = @ + 1,
          ![r].created = IF mirror[i.deal] = 0 THEN @ + 1 ELSE @,
          ![r].updated = IF mirror[i.deal] = 0 THEN @ ELSE @ + 1]
    /\ excused' = IF i.ver = remote[i.deal].ver THEN excused \ {i.deal}
                  ELSE IF Overwritten(i.deal, i.ver) THEN excused \cup {i.deal}
                  ELSE excused
    /\ UNCHANGED <<remote, place, clock, cursor, row, pc>>

\* Mutation: a failed row is not recorded in the context.
RowFailsUnrecorded(r, i, late) ==
    /\ pc[r] = "persisting"
    /\ i \in ctx[r].todo
    /\ ctx' = [ctx EXCEPT
          ![r].todo = @ \ {i},
          ![r].fetched = @ + 1,
          ![r].missed = @ \cup {i.deal}]
    /\ UNCHANGED <<remote, place, clock, mirror, cursor, row, pc, excused>>

\* _persist_one of a row whose persist, or whose commit, raises: the row is
\* rolled back and counted. persist has already raised cursor_after when it is
\* the commit that fails (late).
RowFails(r, i, late) ==
    /\ pc[r] = "persisting"
    /\ i \in ctx[r].todo
    /\ ctx' = [ctx EXCEPT
          ![r].todo = @ \ {i},
          ![r].after = IF late THEN CursorAfter(@, i.time) ELSE @,
          ![r].fetched = @ + 1,
          ![r].errors = @ + 1,
          ![r].missed = @ \cup {i.deal}]
    /\ UNCHANGED <<remote, place, clock, mirror, cursor, row, pc, excused>>

\* _finalize_run: one save of the status, the counters and cursor_after.
Finalized(r, status) ==
    [status  |-> status,         after   |-> ctx[r].after,
     fetched |-> ctx[r].fetched, created |-> ctx[r].created,
     updated |-> ctx[r].updated, errors  |-> ctx[r].errors]

\* Mutation: a failure is noted in memory and not saved.
RunFailsUnsaved(r) ==
    /\ \/ pc[r] = "fetching"
       \/ pc[r] = "persisting" /\ ctx[r].todo # {}
    /\ Ends(r, "failed")
    /\ UNCHANGED <<remote, place, clock, mirror, cursor, row, excused>>

\* fetch raises, or acquire raises RateLimitTimeout before a row: FAILED, and
\* run returns without touching the cursor. _finalize_run writes ctx.errors
\* over the errors_count = ctx.errors + 1 assigned just before it.
RunFails(r) ==
    /\ \/ pc[r] = "fetching"
       \/ pc[r] = "persisting" /\ ctx[r].todo # {}
    /\ row' = [row EXCEPT ![r] = Finalized(r, "failed")]
    /\ Ends(r, "failed")
    /\ UNCHANGED <<remote, place, clock, mirror, cursor, excused>>

\* The loop is over: COMPLETED, or PARTIAL when a row failed.
FinishRun(r) ==
    /\ pc[r] = "persisting"
    /\ ctx[r].todo = {}
    /\ row' = [row EXCEPT ![r] =
                 Finalized(r, IF ctx[r].errors = 0 THEN "completed" ELSE "partial")]
    /\ pc' = [pc EXCEPT ![r] = "finalized"]
    /\ UNCHANGED <<remote, place, clock, mirror, cursor, ctx, excused>>

\* history: what the run missed becomes excused when the cursor passes it.
MarkMissed(r) == excused \cup ctx[r].missed

\* Mutation: the cursor is written while rows are still to be persisted.
WriteCursorEarly(r) ==
    /\ pc[r] \in {"persisting", "finalized"}
    /\ cursor' = ctx[r].after
    /\ excused' = MarkMissed(r)
    /\ Ends(r, "done")
    /\ UNCHANGED <<remote, place, clock, mirror, row>>

\* _write_cursor: update_or_create with no look at the stored value, in a step
\* of its own after the run is finalized; nothing when no row had a time.
WriteCursor(r) ==
    /\ pc[r] = "finalized"
    /\ IF ctx[r].after # 0
         THEN cursor' = ctx[r].after /\ excused' = MarkMissed(r)
         ELSE UNCHANGED <<cursor, excused>>
    /\ Ends(r, "done")
    /\ UNCHANGED <<remote, place, clock, mirror, row>>

Active(r) == pc[r] \in {"cursor_read", "created", "fetching", "persisting",
                        "finalized"}

\* The worker dies. Nothing restarts the run and its row stays as it is.
Crash(r) ==
    /\ Active(r)
    /\ Ends(r, "crashed")
    /\ UNCHANGED <<remote, place, clock, mirror, cursor, row, excused>>

-----------------------------------------------------------------------------
Step(r) ==
    \/ CreateRun(r)
    \/ StartRun(r)
    \/ FetchPage(r)
    \/ \E i \in ctx[r].todo : PersistRow(r, i)
    \/ \E i \in ctx[r].todo, late \in BOOLEAN : RowFails(r, i, late)
    \/ RunFails(r)
    \/ FinishRun(r)
    \/ WriteCursor(r)

Next ==
    \/ \E d \in Deals : RemoteWrite(d) \/ RemoteDelete(d)
    \/ \E r \in Runs : ReadCursor(r) \/ Step(r) \/ Crash(r)

Spec == Init /\ [][Next]_vars

\* A worker that is alive goes on: the HTTP client and acquire() have timeouts,
\* so no statement of run blocks for ever.
FairSpec == Spec /\ \A r \in Runs : WF_vars(Step(r))

-----------------------------------------------------------------------------
(* Properties.                                                             *)

Mirrored(d) == mirror[d] = remote[d].ver

\* The cursor never passes a change of a deal that is there and not in the
\* mirror, unless the change was missed in one of four ways: its row failed in the
\* run that moved the cursor; it was made between two pages of that run's fetch;
\* another deal was deleted between two pages, and this one slid onto a page that
\* was read; or an overlapping run put an older payload back. In particular failed
\* and crashed runs, equal update_times and cursors that move backwards lose
\* nothing.
NoSilentLoss ==
    \A d \in Deals :
        Listed(d) /\ remote[d].time < cursor /\ d \notin excused => Mirrored(d)

\* A cursor that is set is the cursor_after of a run on record as completed or
\* partial: a failed, pending or running SyncRun never moved it.
CursorBacked ==
    cursor # 0 => \E r \in Runs : /\ row[r].status \in {"completed", "partial"}
                                  /\ row[r].after = cursor

\* The counters of a finished SyncRun account for every row it handled, and
\* its status tells whether rows failed.
RunCounts ==
    \A r \in Runs :
        row[r].status \in Terminal =>
            /\ row[r].fetched = row[r].created + row[r].updated + row[r].errors
            /\ row[r].status = "completed" => row[r].errors = 0
            /\ row[r].status = "partial" => row[r].errors > 0

\* The cursor goes back only when another run moved it after the run that
\* writes it had read it: a run alone never sets it to an earlier time.
RegressesOnlyByOverlap ==
    [][cursor' < cursor =>
          \E r \in Runs : pc[r] = "finalized" /\ ctx[r].before < cursor]_vars

\* A run whose worker survives ends with its row in a final status: only a dead
\* worker leaves a SyncRun RUNNING.
RunEnds ==
    \A r \in Runs :
        row[r].status = "running" ~>
            (row[r].status \in Terminal \/ pc[r] = "crashed")

\* Its rows and cursor, as others see them, are the ledger of SyncLedger,
\* whatever runs overlap, fail or die.
Ledger == INSTANCE SyncLedger WITH
    ledger <- row, watermark <- cursor,
    live <- {r \in Runs : pc[r] \notin {"done", "failed", "crashed"}}

ImplementsLedger == Ledger!Spec
=============================================================================
