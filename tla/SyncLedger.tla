----------------------------- MODULE SyncLedger -----------------------------
(***************************************************************************)
(* What BaseSync promises to who reads its tables, the sync history and    *)
(* the next run: the SyncRun rows are a ledger. Each run has one entry,    *)
(* which is opened, begun and closed once, with counters that add up, and  *)
(* never touched again; and the cursor is only ever moved by a run that    *)
(* closed its entry as completed or partial, at most once, to the very     *)
(* value the entry has. A run may vanish at any moment.                    *)
(***************************************************************************)
EXTENDS Naturals

CONSTANT Runs

VARIABLES
    ledger,      \* ledger[r]: the entry of run r
    watermark,   \* where the next run starts from; 0: nowhere
    live         \* the runs that may still act

lvars == <<ledger, watermark, live>>

Blank == [status |-> "absent", after |-> 0, fetched |-> 0,
          created |-> 0, updated |-> 0, errors |-> 0]

Closed == {"completed", "partial", "failed"}

Init ==
    /\ ledger = [r \in Runs |-> Blank]
    /\ watermark = 0
    /\ live = Runs

\* The status of the entry of r goes on to the next.
Enter(r, from, to) ==
    /\ r \in live
    /\ ledger[r].status = from
    /\ ledger' = [ledger EXCEPT ![r].status = to]
    /\ UNCHANGED <<watermark, live>>

Open(r) == Enter(r, "absent", "pending")
Begin(r) == Enter(r, "pending", "running")

\* Every row the run handled is counted once, and the status says whether all
\* went well.
AddsUp(entry) ==
    /\ entry.fetched = entry.created + entry.updated + entry.errors
    /\ entry.status = "completed" => entry.errors = 0
    /\ entry.status = "partial" => entry.errors > 0

\* The entry is closed; a failed run is over with that.
Close(r) ==
    /\ r \in live
    /\ ledger[r].status = "running"
    /\ ledger' = [ledger EXCEPT ![r] = ledger'[r]]
    /\ ledger'[r].status \in Closed
    /\ AddsUp(ledger'[r])
    /\ live' = IF ledger'[r].status = "failed" THEN live \ {r} ELSE live
    /\ UNCHANGED watermark

\* The run moves the cursor to what it put on record, and is over.
Advance(r) ==
    /\ r \in live
    /\ ledger[r].status \in {"completed", "partial"}
    /\ watermark' = IF ledger[r].after = 0 THEN watermark ELSE ledger[r].after
    /\ live' = live \ {r}
    /\ UNCHANGED ledger

Vanish(r) ==
    /\ r \in live
    /\ live' = live \ {r}
    /\ UNCHANGED <<ledger, watermark>>

Next == \E r \in Runs : Open(r) \/ Begin(r) \/ Close(r) \/ Advance(r) \/ Vanish(r)

Spec == Init /\ [][Next]_lvars
=============================================================================
