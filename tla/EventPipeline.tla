--------------------------- MODULE EventPipeline ---------------------------
(***************************************************************************)
(* Kafka to ClickHouse: the consumer loop of apps/events/kafka_client.py    *)
(* with ClickHouseSink.handle of apps/analytics/consumers as its handler,   *)
(* as the sink's docstring ("Kafka -> ClickHouse sink consumer") means it.  *)
(* No command of the repository puts the two together yet: the management  *)
(* commands subscribe a handler that only logs, and nobody calls the sink's *)
(* flush(), not even every FLUSH_INTERVAL_S seconds as the docstring says.  *)
(*                                                                         *)
(* One process reads one partition. The loop takes a message, awaits the   *)
(* handler and sends the message to the dead letter topic when the handler *)
(* raises. The sink drops events it has seen, appends a row to a buffer    *)
(* and inserts the buffer row by row when it holds BatchSize rows. flush() *)
(* of the sink may be called by another task of the process. Offsets are   *)
(* committed in the background. A process may be told to stop, may fail or *)
(* may be killed, and a new one starts at the committed offset; or, as the *)
(* consumer leaves auto_offset_reset at 'latest', at the end of the log as *)
(* long as the group has committed none.                                   *)
(***************************************************************************)
EXTENDS Naturals, Sequences, FiniteSets

CONSTANTS
    Events,         \* event ids
    Kind,           \* Kind[e]: the buffer of e, "agent" or "system"
    Malformed,      \* events that lack a field their row needs
    Unreadable,     \* messages whose value is not a JSON object
    Log,            \* what producers publish: events by offset; retries repeat one
    BatchSize,      \* BATCH_SIZE
    MaxFailures,    \* bound: inserts that raise
    MaxRestarts     \* bound: processes started after the first

Kinds == {"agent", "system"}

ASSUME PipelineAssumption ==
    /\ Kind \in [Events -> Kinds]
    /\ Malformed \subseteq Events /\ Unreadable \subseteq Events
    /\ Log \in Seq(Events)
    /\ BatchSize \in Nat \ {0}
    /\ MaxFailures \in Nat /\ MaxRestarts \in Nat

VARIABLES
    published,  \* how much of Log is published: the end of the partition
    pos,        \* the offset of the next message the loop takes
    committed,  \* the offset the group has committed, 0 = none yet
    stop,       \* SentinexKafkaConsumer._stop
    loop,       \* where the loop stands
    dlq,        \* events in the dead letter topic
    seen,       \* ClickHouseSink._seen
    buffer,     \* _agent_buffer and _system_buffer
    lock,       \* who holds ClickHouseSink._lock
    flush,      \* the flush under way: buffers to go, row to insert next
    stored,     \* stored[e]: rows of e in ClickHouse
    failures,   \* inserts that raised
    restarts,   \* processes started after the first
    lost,       \* history: events whose last copy ended with a process
    skipped     \* history: offsets a process without a committed one passed over

consumerVars == <<published, pos, committed, stop, dlq, skipped>>
sinkVars     == <<seen, buffer, lock, flush>>
faultVars    == <<failures, restarts, lost>>
vars == <<consumerVars, loop, sinkVars, stored, faultVars>>

Elements(q) == {q[i] : i \in DOMAIN q}

Buffered == UNION {Elements(buffer[k]) : k \in Kinds}

NoFlush == [kinds |-> <<>>, next |-> 1]

TypeOK ==
    /\ published \in 0..Len(Log)
    /\ pos \in 1..published + 1
    /\ committed \in 0..pos
    /\ stop \in BOOLEAN
    /\ loop \in {"polling", "handling", "waiting", "flushing", "dlq", "over"}
    /\ dlq \subseteq Events
    /\ seen \subseteq Events
    /\ buffer \in [Kinds -> Seq(Events)]
    /\ lock \in {"none", "loop", "flusher"}
    /\ flush \in [kinds : Seq(Kinds), next : Nat]
    /\ stored \in [Events -> Nat]
    /\ failures \in 0..MaxFailures
    /\ restarts \in 0..MaxRestarts
    /\ lost \subseteq Events
    /\ skipped \subseteq 1..published

EmptyBuffers == [k \in Kinds |-> <<>>]

\* The first process of the group starts, at the end of what is there.
Init ==
    /\ published \in 0..Len(Log)
    /\ pos = published + 1
    /\ skipped = 1..published
    /\ committed = 0
    /\ stop = FALSE
    /\ loop = "polling"
    /\ dlq = {}
    /\ seen = {}
    /\ buffer = EmptyBuffers
    /\ lock = "none"
    /\ flush = NoFlush
    /\ stored = [e \in Events |-> 0]
    /\ failures = 0
    /\ restarts = 0
    /\ lost = {}

-----------------------------------------------------------------------------
(* The consumer loop.                                                      *)

\* A producer sends the next message, whether or not a process is there.
Publish ==
    /\ published < Len(Log)
    /\ published' = published + 1
    /\ UNCHANGED <<pos, committed, stop, dlq, skipped, loop, sinkVars, stored, faultVars>>

\* The event the handler was called with and has not buffered.
InHand == IF loop \in {"handling", "waiting", "dlq"} THEN {Log[pos - 1]} ELSE {}

Current == Log[pos - 1]

Take ==
    /\ loop = "polling" /\ ~stop
    /\ pos <= published
    /\ pos' = pos + 1
    /\ loop' = "handling"
    /\ UNCHANGED <<published, committed, stop, dlq, skipped, sinkVars, stored, faultVars>>

\* enable_auto_commit: every five seconds the offset after the last message handed
\* to the loop is committed, whether or not its handler has returned.
AutoCommit ==
    /\ loop # "over"
    /\ committed' = pos
    /\ UNCHANGED <<published, pos, stop, dlq, skipped, loop, sinkVars, stored, faultVars>>

\* stop() of the consumer: the loop sees the flag when it has its next message.
Stop ==
    /\ loop # "over"
    /\ stop' = TRUE
    /\ UNCHANGED <<published, pos, committed, dlq, skipped, loop, sinkVars, stored, faultVars>>

\* The published events a process that starts at the committed offset c reads.
ToRead(c) == IF c = 0 THEN {} ELSE {Log[i] : i \in c..published}

\* The process ends with offset c committed. What it holds in memory is gone;
\* what is nowhere else and will not be read again is lost.
ProcessEnds(held, c) ==
    /\ loop' = "over"
    /\ committed' = c
    /\ seen' = {}
    /\ buffer' = EmptyBuffers
    /\ lock' = "none"
    /\ flush' = NoFlush
    /\ lost' = lost \cup {e \in held : stored[e] = 0 /\ e \notin ToRead(c)}
    /\ UNCHANGED <<published, stop, dlq, skipped, stored, failures, restarts>>

\* The loop has a message and finds the stop flag: it breaks without handling
\* it, and consumer.stop() commits the offset after it.
BreakOnStop ==
    /\ loop = "polling" /\ stop
    /\ pos <= published
    /\ pos' = pos + 1
    /\ ProcessEnds(Buffered \cup {Log[pos]}, pos + 1)

\* _send_to_dlq.
SendToDlq ==
    /\ loop = "dlq"
    /\ dlq' = dlq \cup {Current}
    /\ loop' = "polling"
    /\ UNCHANGED <<published, pos, committed, stop, skipped, sinkVars, stored, faultVars>>

\* The dead letter topic cannot be written: the exception leaves subscribe,
\* whose finally clause commits and stops the consumer.
DlqFails ==
    /\ loop = "dlq"
    /\ ProcessEnds(Buffered \cup InHand, pos)
    /\ UNCHANGED pos

\* The process is killed: nothing more is committed.
Killed ==
    /\ loop # "over"
    /\ ProcessEnds(Buffered \cup InHand, committed)
    /\ UNCHANGED pos

\* Mutation: every process starts at the end of the log.
StartsLate(c) == published + 1

\* Where a process starts that finds c committed: with auto_offset_reset 'latest'
\* it is behind everything published when there is no committed offset.
StartsAt(c) == IF c = 0 THEN published + 1 ELSE c

\* A new process starts, with an empty sink.
Restart ==
    /\ loop = "over"
    /\ restarts < MaxRestarts
    /\ restarts' = restarts + 1
    /\ loop' = "polling"
    /\ pos' = StartsAt(committed)
    /\ skipped' = IF committed = 0 THEN skipped \cup pos..published ELSE skipped
    /\ stop' = FALSE
    /\ UNCHANGED <<published, committed, dlq, sinkVars, stored, failures, lost>>

-----------------------------------------------------------------------------
(* ClickHouseSink.                                                         *)

\* Mutation: an event is handled again.
HandleAgain ==
    /\ loop = "handling"
    /\ loop' = IF Current \in Unreadable THEN "dlq"
                ELSE IF Current \in Malformed THEN "polling" ELSE "waiting"
    /\ seen' = seen \cup {Current}
    /\ UNCHANGED <<consumerVars, buffer, lock, flush, stored, faultVars>>

\* handle, up to its first await. Only a value that is no object makes it raise;
\* an event it has seen is dropped, and one whose row cannot be built is marked
\* as seen, logged and dropped.
Handle ==
    /\ loop = "handling"
    /\ \/ /\ Current \in Unreadable
          /\ loop' = "dlq"
          /\ UNCHANGED seen
       \/ /\ Current \in seen \ Unreadable
          /\ loop' = "polling"
          /\ UNCHANGED seen
       \/ /\ Current \notin seen \cup Unreadable
          /\ seen' = seen \cup {Current}
          /\ loop' = IF Current \in Malformed THEN "polling" ELSE "waiting"
    /\ UNCHANGED <<consumerVars, buffer, lock, flush, stored, faultVars>>

\* Mutation: a flush waits for one row more.
FullLate(q) == Len(q) > BatchSize

\* A buffer with this many rows is flushed.
Full(q) == Len(q) >= BatchSize

\* The lock is free: append the row, and begin to flush a full buffer.
AppendRow ==
    /\ loop = "waiting"
    /\ lock = "none"
    /\ LET k == Kind[Current]
       IN  /\ buffer' = [buffer EXCEPT ![k] = Append(@, Current)]
           /\ IF Full(buffer'[k])
                THEN /\ lock' = "loop" /\ loop' = "flushing"
                     /\ flush' = [kinds |-> <<k>>, next |-> 1]
                ELSE /\ loop' = "polling"
                     /\ UNCHANGED <<lock, flush>>
    /\ UNCHANGED <<consumerVars, seen, stored, faultVars>>

\* flush() is called by another task and gets the lock. asyncio.Lock is first
\* come, first served: a loop that waits for a free lock is next.
CallFlush ==
    /\ loop \notin {"over", "waiting"}
    /\ lock = "none"
    /\ lock' = "flusher"
    /\ flush' = [kinds |-> <<"agent", "system">>, next |-> 1]
    /\ UNCHANGED <<consumerVars, loop, seen, buffer, stored, faultVars>>

Rows == buffer[Head(flush.kinds)]
InsertDue == lock \in {"loop", "flusher"} /\ flush.next <= Len(Rows)

\* insert_agent_run or insert_system_event returns.
Insert ==
    /\ InsertDue
    /\ stored' = [stored EXCEPT ![Rows[flush.next]] = @ + 1]
    /\ flush' = [flush EXCEPT !.next = @ + 1]
    /\ UNCHANGED <<consumerVars, loop, seen, buffer, lock, faultVars>>

\* The flush is over and the loop, if it was flushing, goes on.
GoOn ==
    /\ flush' = NoFlush
    /\ loop' = IF lock = "loop" THEN "polling" ELSE loop

\* The lock is released and its holder goes on.
Release ==
    /\ lock' = "none"
    /\ GoOn

\* Mutation: the lock is not released when an insert raises.
InsertFailsLocked(reached) ==
    /\ InsertDue
    /\ failures < MaxFailures
    /\ failures' = failures + 1
    /\ GoOn
    /\ lock' = "leaked"
    /\ UNCHANGED <<consumerVars, seen, buffer, stored, restarts, lost>>

\* Mutation: the rows inserted so far, and the failed one, leave the buffer.
InsertFailsCleared(reached) ==
    /\ InsertDue
    /\ failures < MaxFailures
    /\ failures' = failures + 1
    /\ buffer' = [buffer EXCEPT ![Head(flush.kinds)] = <<>>]
    /\ Release
    /\ UNCHANGED <<consumerVars, seen, stored, restarts, lost>>

\* The insert raises, before or after the row reached ClickHouse: handle logs
\* the exception, flush() passes it on, and the whole buffer stays.
InsertFails(reached) ==
    /\ InsertDue
    /\ failures < MaxFailures
    /\ failures' = failures + 1
    /\ stored' = IF reached THEN [stored EXCEPT ![Rows[flush.next]] = @ + 1] ELSE stored
    /\ Release
    /\ UNCHANGED <<consumerVars, seen, buffer, restarts, lost>>

\* Every row of a buffer is inserted: clear it and go on to the next buffer.
ClearBuffer ==
    /\ lock \in {"loop", "flusher"} /\ ~InsertDue
    /\ buffer' = [buffer EXCEPT ![Head(flush.kinds)] = <<>>]
    /\ IF Len(flush.kinds) > 1
         THEN /\ flush' = [kinds |-> Tail(flush.kinds), next |-> 1]
              /\ UNCHANGED <<lock, loop>>
         ELSE Release
    /\ UNCHANGED <<consumerVars, seen, stored, faultVars>>

-----------------------------------------------------------------------------
\* The task of the loop, once it has a message.
LoopStep ==
    \/ Handle
    \/ AppendRow
    \/ SendToDlq
    \/ DlqFails

\* The task that holds the lock.
FlushStep ==
    \/ Insert
    \/ \E reached \in BOOLEAN : InsertFails(reached)
    \/ ClearBuffer

Next ==
    \/ Publish
    \/ Take
    \/ AutoCommit
    \/ Stop
    \/ BreakOnStop
    \/ CallFlush
    \/ Killed
    \/ Restart
    \/ LoopStep
    \/ FlushStep

Spec == Init /\ [][Next]_vars

\* The event loop of a live process runs each of its tasks, and a message that is
\* there is taken. Nobody has to stop, kill or restart the process, or call
\* flush().
FairSpec == Spec /\ WF_vars(LoopStep) /\ WF_vars(FlushStep) /\ WF_vars(Take)

-----------------------------------------------------------------------------
(* Properties.                                                             *)

\* Every event behind the loop is in ClickHouse, in a buffer, in the handler or in
\* the dead letter topic, or will be read again from the committed offset; or it is
\* malformed, or it was lost with the process that held it, or it was published
\* while no process read and the group had not committed an offset yet. A failed
\* insert, a repeated message or a flush that overlaps the loop loses nothing.
Accounted ==
    \A i \in 1..pos - 1 :
        \/ i \in skipped
        \/ Log[i] \in Malformed \cup dlq \cup lost
        \/ Log[i] \in Buffered \cup InHand \cup ToRead(committed)
        \/ stored[Log[i]] > 0

\* An event is stored again only because an insert failed or a process was
\* restarted, and at most once for each time.
DuplicatesAreBounded ==
    \A e \in Events : stored[e] <= 1 + failures + restarts

\* The sink is never wedged: a task that waits for the lock, or inserts, comes
\* to its end or its process does, also when inserts fail.
HandlerReturns == loop \in {"waiting", "flushing", "handling"} ~> loop \in {"polling", "dlq", "over"}

\* Whatever the tasks of a process do to each other and wherever it ends, events
\* are delivered as EventDelivery has it: what is read is held, in the handler or a
\* buffer, until it is stored, dead lettered or known to be malformed.
Delivery == INSTANCE EventDelivery WITH
    up <- loop # "over", read <- pos, acked <- committed,
    held <- Buffered \cup InHand, dead <- dlq, faults <- failures + restarts

ImplementsDelivery == Delivery!Spec
=============================================================================
