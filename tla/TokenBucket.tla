----------------------------- MODULE TokenBucket ----------------------------
(***************************************************************************)
(* The token bucket of connectors/_framework/rate_limit.py: one cache      *)
(* entry per provider, which the workers that ingest from it read, refill  *)
(* by the time gone by, and write, in two calls to the cache. Every caller *)
(* takes one token.                                                        *)
(*                                                                         *)
(* Time is counted in steps of a refill; Refill tokens come in a step.     *)
(* time.monotonic is one clock for all workers here: they run on one host. *)
(***************************************************************************)
EXTENDS Integers

CONSTANTS
    Workers,    \* processes that share the bucket
    Capacity,   \* capacity
    Refill,     \* refill_per_sec
    Timeout,    \* timeout_sec of acquire
    TTL,        \* seconds the entry is kept after a write
    MaxTime     \* bound: seconds

\* An entry is kept an hour, and the slowest bucket of the source fills in about
\* a minute: an entry that expires would have been full.
ASSUME BucketAssumption ==
    /\ Capacity \in Nat \ {0} /\ Refill \in Nat /\ TTL \in Nat
    /\ Timeout \in Nat /\ MaxTime \in Nat
    /\ Capacity <= Refill * TTL

VARIABLES
    now,         \* time.monotonic()
    entry,       \* the cache entry: whether there is one, tokens and last
    worker,      \* worker[w]: where its acquire stands, and what it holds
    since,       \* history: any moment, from which on we count
    taken,       \* history: tokens taken since then
    overlapped   \* history: since then, a caller wrote over another's write

bucketVars == <<now, entry, worker, since, taken, overlapped>>

-----------------------------------------------------------------------------
NoEntry == [there |-> FALSE, tokens |-> 0, last |-> 0]

Idle == [pc |-> "idle", deadline |-> 0, tokens |-> 0, at |-> 0,
         overtaken |-> FALSE]

At(w, pc) == worker[w].pc = pc

AtMost(n) == IF n < Capacity THEN n ELSE Capacity

\* _state, and what has come in since: an unknown bucket is full.
Filled == IF entry.there THEN AtMost(entry.tokens + (now - entry.last) * Refill)
          ELSE Capacity

\* Where acquire may stand.
WorkerState == [pc : {"idle", "looking", "saving", "asleep"}, deadline : Nat,
                tokens : 0..Capacity, at : 0..now, overtaken : BOOLEAN]

BucketTypeOK ==
    /\ now \in Nat /\ since \in 0..now
    /\ entry \in [there : BOOLEAN, tokens : 0..Capacity, last : 0..now]
    /\ worker \in [Workers -> WorkerState]
    /\ \A w \in Workers : At(w, "saving") => worker[w].tokens > 0
    /\ taken \in Nat
    /\ overlapped \in BOOLEAN

BucketInit ==
    /\ now = 0 /\ since = 0
    /\ entry = NoEntry
    /\ worker = [w \in Workers |-> Idle]
    /\ taken = 0
    /\ overlapped = FALSE

-----------------------------------------------------------------------------
\* acquire is called; its deadline is set.
Call(w) ==
    /\ At(w, "idle")
    /\ now + Timeout <= MaxTime
    /\ worker' = [worker EXCEPT ![w] = [Idle EXCEPT !.pc = "looking", !.deadline = now + Timeout]]
    /\ UNCHANGED <<now, entry, since, taken, overlapped>>

\* The entry is read and there is a token.
Find(w) ==
    /\ At(w, "looking")
    /\ Filled >= 1
    /\ worker' = [worker EXCEPT ![w].pc = "saving", ![w].tokens = Filled, ![w].at = now]
    /\ UNCHANGED <<now, entry, since, taken, overlapped>>

\* There is none: wait for it.
Wait(w) ==
    /\ At(w, "looking")
    /\ Filled < 1 /\ now < worker[w].deadline
    /\ worker' = [worker EXCEPT ![w].pc = "asleep"]
    /\ UNCHANGED <<now, entry, since, taken, overlapped>>

\* Mutation: the deadline is not looked at.
GiveUpNever(w) ==
    /\ At(w, "looking")
    /\ Filled < 1 /\ now >= worker[w].deadline
    /\ worker' = [worker EXCEPT ![w].pc = "asleep"]
    /\ UNCHANGED <<now, entry, since, taken, overlapped>>

\* RateLimitTimeout.
GiveUp(w) ==
    /\ At(w, "looking")
    /\ Filled < 1 /\ now >= worker[w].deadline
    /\ worker' = [worker EXCEPT ![w] = Idle]
    /\ UNCHANGED <<now, entry, since, taken, overlapped>>

Wake(w) ==
    /\ At(w, "asleep")
    /\ worker' = [worker EXCEPT ![w].pc = "looking"]
    /\ UNCHANGED <<now, entry, since, taken, overlapped>>

\* Mutation: the time of the read is left as it was.
WrittenWithoutTime(w) ==
    [there |-> TRUE, tokens |-> worker[w].tokens - 1,
     last |-> IF entry.there THEN entry.last ELSE worker[w].at]

\* What acquire writes: one token less, as of the moment it read.
Written(w) == [there |-> TRUE, tokens |-> worker[w].tokens - 1, last |-> worker[w].at]

\* _save, and acquire returns.
Save(w) ==
    /\ At(w, "saving")
    /\ entry' = Written(w)
    /\ taken' = IF worker[w].at >= since THEN taken + 1 ELSE taken
    /\ overlapped' = (overlapped \/ worker[w].overtaken)
    /\ worker' = [x \in Workers |-> IF x = w THEN Idle
                                    ELSE IF At(x, "saving") THEN [worker[x] EXCEPT !.overtaken = TRUE]
                                    ELSE worker[x]]
    /\ UNCHANGED <<now, since>>

\* A worker dies, or is told to stop.
Die(w) ==
    /\ ~At(w, "idle")
    /\ worker' = [worker EXCEPT ![w] = Idle]
    /\ UNCHANGED <<now, entry, since, taken, overlapped>>

-----------------------------------------------------------------------------
Tick ==
    /\ now < MaxTime
    /\ now' = now + 1
    /\ UNCHANGED <<entry, worker, since, taken, overlapped>>

\* The cache drops the entry.
Expire ==
    /\ entry.there
    /\ now >= entry.last + TTL
    /\ entry' = NoEntry
    /\ UNCHANGED <<now, worker, since, taken, overlapped>>

\* We count from now on.
CountFromNow ==
    /\ since < now
    /\ since' = now
    /\ taken' = 0
    /\ overlapped' = FALSE
    /\ UNCHANGED <<now, entry, worker>>

-----------------------------------------------------------------------------
Go(w) == Find(w) \/ Wait(w) \/ GiveUp(w) \/ Wake(w) \/ Save(w)

BucketNext ==
    \/ \E w \in Workers : Call(w) \/ Go(w) \/ Die(w)
    \/ Tick \/ Expire \/ CountFromNow

\* Time goes on, and so does a worker that has called acquire.
BucketSpec ==
    /\ BucketInit /\ [][BucketNext]_bucketVars
    /\ WF_bucketVars(Tick) /\ \A w \in Workers : WF_bucketVars(Go(w))

-----------------------------------------------------------------------------
(* Properties.                                                             *)

\* From any moment on, no more tokens are taken than the bucket holds and the
\* time gone by brings in, as long as no two callers overlap between the read
\* and the write; an entry that expires gives nothing away.
BurstIsBounded ==
    ~overlapped => taken <= Capacity + Refill * (now - since)

\* acquire comes to an end, with a token or at its deadline, however many
\* others take the tokens before it.
AcquireEnds == \A w \in Workers : At(w, "looking") ~> At(w, "idle")
=============================================================================
