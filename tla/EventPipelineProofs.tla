------------------------ MODULE EventPipelineProofs ------------------------
(***************************************************************************)
(* Proofs about EventPipeline for every partition, every batch size and    *)
(* every number of failures and restarts.                                  *)
(*                                                                         *)
(* Accounted relies on what is read again from the committed offset, but    *)
(* any moment may commit all that was taken: the invariant makes the claim *)
(* as if that were so already. A repeated event is dropped as it was seen, *)
(* so what was seen must have a fate, and a buffer may be cleared because  *)
(* its rows are stored. DuplicatesAreBounded holds because an event that   *)
(* may still be inserted has one row less than the bound.                  *)
(* ImplementsDelivery follows from the same invariant, step by step.       *)
(***************************************************************************)
EXTENDS EventPipeline, TLAPS

\* The holder of the lock flushes one buffer, or both from the first on.
LockAgrees ==
    /\ lock = "loop" <=> loop = "flushing"
    /\ loop = "over" => lock = "none"
    /\ lock # "none" => flush.kinds \in {<<"agent">>, <<"system">>, <<"agent", "system">>}
    /\ lock # "none" => flush.next \in 1..Len(Rows) + 1

HandIsFull == loop \in {"handling", "waiting", "dlq"} => pos > 1

\* A row waits once, in the buffer of its kind, and its event was seen.
RowsAreDistinct ==
    /\ \A k \in Kinds : \A i \in DOMAIN buffer[k] : Kind[buffer[k][i]] = k
    /\ \A k \in Kinds : \A i, j \in DOMAIN buffer[k] : buffer[k][i] = buffer[k][j] => i = j
    /\ Buffered \subseteq seen

WaitingIsNew == loop = "waiting" => Current \in seen \ Buffered

\* The rows the flush under way has inserted.
Inserted == IF lock = "none" THEN {} ELSE {Rows[j] : j \in 1..flush.next - 1}

InsertedIsStored == \A e \in Inserted : stored[e] > 0

\* An event that was seen is malformed, buffered, about to be, or stored.
SeenHasFate ==
    \A e \in seen : \/ e \in Malformed \cup Buffered
                    \/ loop = "waiting" /\ e = Current
                    \/ stored[e] > 0

\* The events that are somewhere.
Kept == {e \in Events : e \in Malformed \cup dlq \cup lost \cup Buffered \cup InHand \/ stored[e] > 0}

\* The message at offset i has a fate when a process that ends leaves c committed.
HasFate(i, c) == i \in skipped \/ Log[i] \in Kept \cup ToRead(c)

TakenIsKept == loop # "over" => \A i \in 1..pos - 1 : HasFate(i, pos)

BehindIsKept == \A i \in 1..pos - 1 : HasFate(i, committed)

\* The events the process may still insert.
Pending ==
    {e \in Events : \/ e \notin seen
                    \/ loop = "waiting" /\ e = Current
                    \/ e \in Buffered \ Inserted}

PendingIsBelow == loop # "over" => \A e \in Pending : stored[e] <= failures + restarts

IInv ==
    /\ TypeOK /\ LockAgrees /\ HandIsFull
    /\ RowsAreDistinct /\ WaitingIsNew /\ InsertedIsStored /\ SeenHasFate
    /\ PendingIsBelow /\ DuplicatesAreBounded
    /\ TakenIsKept /\ BehindIsKept

-----------------------------------------------------------------------------
(* Buffers and the flush under way.                                        *)

LEMMA BufferedRows ==
    \A e : e \in Buffered <=> \E k \in Kinds : \E i \in DOMAIN buffer[k] : e = buffer[k][i]
  BY DEF Buffered, Elements

LEMMA BufferedEvents == ASSUME TypeOK PROVE Buffered \subseteq Events
  BY DEF TypeOK, Buffered, Elements, Kinds

\* What the flush has before it: the buffer it empties, and perhaps the other.
LEMMA FlushKinds ==
    ASSUME LockAgrees, lock # "none"
    PROVE  /\ Head(flush.kinds) \in Kinds
           /\ Len(flush.kinds) > 1 => /\ Tail(flush.kinds) = <<"system">>
                                      /\ Head(flush.kinds) = "agent"
<1>1. CASE flush.kinds = <<"agent", "system">>
  BY <1>1 DEF Kinds
<1>2. CASE flush.kinds \in {<<"agent">>, <<"system">>}
  <2>1. Len(flush.kinds) = 1 /\ ~(1 > 1) /\ Head(flush.kinds) \in Kinds
    BY <1>2 DEF Kinds
  <2>2. QED
    BY <2>1, Zenon
<1>3. QED
  BY <1>1, <1>2 DEF LockAgrees

\* The row an insert is due for: an event, buffered, and not among the inserted.
LEMMA DueRow ==
    ASSUME PipelineAssumption, TypeOK, LockAgrees, RowsAreDistinct, InsertDue
    PROVE  /\ lock # "none" /\ flush.next \in DOMAIN Rows
           /\ Rows[flush.next] \in Events
           /\ Rows[flush.next] \in Buffered \ Inserted
           /\ Rows[flush.next] \in Pending
<1>1. lock # "none" /\ Head(flush.kinds) \in Kinds
  BY FlushKinds DEF InsertDue
<1>2. Rows \in Seq(Events)
  BY <1>1 DEF TypeOK, Rows
<1>3. flush.next \in DOMAIN Rows /\ flush.next \in Nat
  BY <1>1, <1>2 DEF InsertDue, LockAgrees
<1>4. Rows[flush.next] \in Events /\ Rows[flush.next] \in Buffered
  BY <1>1, <1>2, <1>3, BufferedRows DEF Rows
<1>5. \A j \in 1..flush.next - 1 : Rows[j] # Rows[flush.next]
  <2>1. \A j \in 1..flush.next - 1 : j \in DOMAIN Rows /\ j # flush.next
    BY <1>2, <1>3
  <2>2. \A i, j \in DOMAIN Rows : Rows[i] = Rows[j] => i = j
    BY <1>1 DEF RowsAreDistinct, Rows
  <2>3. QED
    BY <1>3, <2>1, <2>2
<1>6. QED
  BY <1>1, <1>3, <1>4, <1>5 DEF Inserted, Pending

-----------------------------------------------------------------------------
(* Types.                                                                  *)

\* One row more of the row an insert is due for.
LEMMA OneRowMore ==
    ASSUME NEW old \in [Events -> Nat], NEW e \in Events, NEW new,
           new = [old EXCEPT ![e] = @ + 1]
    PROVE  /\ new \in [Events -> Nat]
           /\ \A d \in Events : /\ new[d] = IF d = e THEN old[e] + 1 ELSE old[d]
                                /\ old[d] > 0 => new[d] > 0
  OBVIOUS

LEMMA InHandTyped ==
    ASSUME PipelineAssumption, TypeOK, HandIsFull, loop \in {"handling", "waiting", "dlq"}
    PROVE  Current \in Events
  BY DEF PipelineAssumption, TypeOK, HandIsFull, Current

FlushRecord == [kinds : Seq(Kinds), next : Nat]

LEMMA FlushRecords ==
    /\ NoFlush \in FlushRecord
    /\ \A k \in Kinds : [kinds |-> <<k>>, next |-> 1] \in FlushRecord
    /\ [kinds |-> <<"agent", "system">>, next |-> 1] \in FlushRecord
<1>1. /\ <<>> \in Seq(Kinds)
      /\ \A k \in Kinds : <<k>> \in Seq(Kinds)
      /\ <<"agent", "system">> \in Seq(Kinds)
  BY DEF Kinds
<1>2. \A q \in Seq(Kinds), n \in Nat : [kinds |-> q, next |-> n] \in FlushRecord
  BY DEF FlushRecord
<1>3. QED
  BY <1>1, <1>2 DEF NoFlush

LEMMA TypeInit == ASSUME PipelineAssumption, Init PROVE TypeOK
<1>1. flush \in [kinds : Seq(Kinds), next : Nat]
  BY FlushRecords DEF Init, FlushRecord
<1>2. Len(Log) \in Nat /\ 0 \in 0..MaxFailures /\ 0 \in 0..MaxRestarts /\ EmptyBuffers \in [Kinds -> Seq(Events)]
  BY DEF PipelineAssumption, EmptyBuffers
<1>3. /\ published \in 0..Len(Log) /\ pos \in 1..published + 1 /\ committed \in 0..pos
      /\ skipped \subseteq 1..published
  BY <1>2 DEF Init
<1>4. stored \in [Events -> Nat] /\ buffer \in [Kinds -> Seq(Events)]
  BY <1>2 DEF Init
<1>5. failures \in 0..MaxFailures /\ restarts \in 0..MaxRestarts
  BY <1>2 DEF Init
<1>6. QED
  BY <1>1, <1>3, <1>4, <1>5 DEF Init, TypeOK

LEMMA ProcessEndsTyped ==
    ASSUME PipelineAssumption, TypeOK, NEW held, held \subseteq Events,
           NEW c, c \in 0..pos', pos' \in 1..published + 1, ProcessEnds(held, c)
    PROVE  TypeOK'
<1>1. /\ UNCHANGED <<published, stop, dlq, skipped, stored, failures, restarts>>
      /\ committed' = c /\ loop' = "over" /\ seen' = {} /\ lock' = "none"
      /\ buffer' = EmptyBuffers /\ flush' = NoFlush
      /\ lost' \subseteq lost \cup held
  BY DEF ProcessEnds
<1>2. buffer' \in [Kinds -> Seq(Events)]
  BY <1>1 DEF EmptyBuffers
<1>3. flush' \in [kinds : Seq(Kinds), next : Nat]
  BY <1>1, FlushRecords DEF FlushRecord
<1>4. pos' \in 1..published' + 1 /\ committed' \in 0..pos'
  BY <1>1
<1>5. QED
  BY <1>1, <1>2, <1>3, <1>4 DEF TypeOK

LEMMA LoopTyped ==
    ASSUME PipelineAssumption, TypeOK, HandIsFull,
           Publish \/ Take \/ AutoCommit \/ Stop \/ Restart \/ CallFlush \/ SendToDlq \/ Handle
    PROVE  TypeOK'
<1>0. CASE Publish
  <2>1. /\ published' \in 0..Len(Log) /\ pos' \in 1..published' + 1 /\ committed' \in 0..pos'
        /\ skipped' \subseteq 1..published'
    BY <1>0 DEF PipelineAssumption, TypeOK, Publish
  <2>2. QED
    BY <1>0, <2>1 DEF TypeOK, Publish, sinkVars, faultVars
<1>1. CASE Take
  <2>1. pos' \in 1..published' + 1 /\ committed' \in 0..pos'
    BY <1>1 DEF PipelineAssumption, TypeOK, Take
  <2>2. QED
    BY <1>1, <2>1 DEF TypeOK, Take, sinkVars, faultVars
<1>2. CASE AutoCommit
  <2>1. committed' \in 0..pos'
    BY <1>2 DEF TypeOK, AutoCommit
  <2>2. QED
    BY <1>2, <2>1 DEF TypeOK, AutoCommit, sinkVars, faultVars
<1>3. CASE Stop
  BY <1>3 DEF TypeOK, Stop, sinkVars, faultVars
<1>4. CASE Restart
  <2>1. restarts' \in 0..MaxRestarts
    BY <1>4 DEF PipelineAssumption, TypeOK, Restart
  <2>2. /\ pos' \in 1..published' + 1 /\ committed' \in 0..pos'
        /\ skipped' \subseteq 1..published'
    BY <1>4 DEF PipelineAssumption, TypeOK, Restart, StartsAt
  <2>3. QED
    BY <1>4, <2>1, <2>2 DEF TypeOK, Restart, sinkVars
<1>5. CASE CallFlush
  <2>1. flush' \in [kinds : Seq(Kinds), next : Nat]
    BY <1>5, FlushRecords DEF CallFlush, FlushRecord
  <2>2. QED
    BY <1>5, <2>1 DEF TypeOK, CallFlush, consumerVars, faultVars
<1>6. CASE SendToDlq
  BY <1>6, InHandTyped DEF TypeOK, SendToDlq, sinkVars, faultVars
<1>7. CASE Handle
  BY <1>7, InHandTyped DEF TypeOK, Handle, consumerVars, faultVars
<1>8. QED
  BY <1>0, <1>1, <1>2, <1>3, <1>4, <1>5, <1>6, <1>7

LEMMA EndTyped ==
    ASSUME PipelineAssumption, TypeOK, HandIsFull, BreakOnStop \/ DlqFails \/ Killed
    PROVE  TypeOK'
<1>1. Buffered \cup InHand \subseteq Events
  BY BufferedEvents, InHandTyped DEF InHand, Current
<1>2. /\ pos \in 1..published + 1 /\ committed \in 0..pos
      /\ Len(Log) \in Nat /\ published \in 0..Len(Log)
  BY DEF PipelineAssumption, TypeOK
<1>3. CASE BreakOnStop
  <2>1. Log[pos] \in Events /\ pos' = pos + 1 /\ pos + 1 \in 1..published + 1
    BY <1>2, <1>3 DEF PipelineAssumption, BreakOnStop
  <2>2. QED
    BY <1>1, <1>2, <1>3, <2>1, ProcessEndsTyped DEF BreakOnStop
<1>4. CASE DlqFails
  BY <1>1, <1>2, <1>4, ProcessEndsTyped DEF DlqFails
<1>5. CASE Killed
  BY <1>1, <1>2, <1>5, ProcessEndsTyped DEF Killed
<1>6. QED
  BY <1>3, <1>4, <1>5

LEMMA SinkTyped ==
    ASSUME PipelineAssumption, TypeOK, LockAgrees, HandIsFull, RowsAreDistinct,
           AppendRow \/ FlushStep
    PROVE  TypeOK'
<1>1. CASE AppendRow
  <2>1. Current \in Events /\ Kind[Current] \in Kinds
    BY <1>1, InHandTyped DEF AppendRow, PipelineAssumption
  <2>2. buffer' \in [Kinds -> Seq(Events)]
    BY <1>1, <2>1 DEF AppendRow, TypeOK
  <2>3. flush' \in [kinds : Seq(Kinds), next : Nat]
    BY <1>1, <2>1, FlushRecords DEF AppendRow, TypeOK, FlushRecord
  <2>4. loop' \in {"polling", "flushing"} /\ lock' \in {"none", "loop", "flusher"}
    BY <1>1 DEF AppendRow, TypeOK
  <2>5. QED
    BY <1>1, <2>2, <2>3, <2>4 DEF AppendRow, TypeOK, consumerVars, faultVars
<1>2. CASE Insert
  <2>1. stored' \in [Events -> Nat]
    <3>1. Rows[flush.next] \in Events /\ stored \in [Events -> Nat]
      BY <1>2, DueRow DEF Insert, TypeOK
    <3>2. PICK row \in Events : row = Rows[flush.next]
      BY <3>1
    <3>3. stored' = [stored EXCEPT ![row] = @ + 1]
      BY <1>2, <3>2 DEF Insert
    <3>4. QED
      BY <3>1, <3>3, OneRowMore
  <2>2. flush' \in [kinds : Seq(Kinds), next : Nat]
    <3>1. flush.next + 1 \in Nat /\ flush \in [kinds : Seq(Kinds), next : Nat]
      BY DEF TypeOK
    <3>2. flush' = [flush EXCEPT !.next = flush.next + 1]
      BY <1>2 DEF Insert
    <3>3. QED
      BY <3>1, <3>2, ZenonT(40)
  <2>3. QED
    BY <1>2, <2>1, <2>2 DEF Insert, TypeOK, consumerVars, faultVars
<1>3. ASSUME NEW reached \in BOOLEAN, InsertFails(reached)
      PROVE  TypeOK'
  <2>1. stored' \in [Events -> Nat]
    <3>1. Rows[flush.next] \in Events /\ stored \in [Events -> Nat]
      BY <1>3, DueRow DEF InsertFails, TypeOK
    <3>2. PICK row \in Events : row = Rows[flush.next]
      BY <3>1
    <3>3. stored' = stored \/ stored' = [stored EXCEPT ![row] = @ + 1]
      BY <1>3, <3>2 DEF InsertFails
    <3>4. QED
      BY <3>1, <3>3, OneRowMore
  <2>2. failures' \in 0..MaxFailures
    BY <1>3 DEF InsertFails, TypeOK, PipelineAssumption
  <2>3. flush' \in [kinds : Seq(Kinds), next : Nat]
    BY <1>3, FlushRecords DEF InsertFails, Release, GoOn, FlushRecord
  <2>4. lock' = "none" /\ loop' \in {loop, "polling"}
    BY <1>3 DEF InsertFails, Release, GoOn
  <2>5. QED
    BY <1>3, <2>1, <2>2, <2>3, <2>4 DEF InsertFails, TypeOK, consumerVars
<1>4. CASE ClearBuffer
  <2>1. lock # "none"
    BY <1>4 DEF ClearBuffer
  <2>2. buffer' \in [Kinds -> Seq(Events)]
    BY <1>4, <2>1, FlushKinds DEF ClearBuffer, TypeOK
  <2>3. flush' \in [kinds : Seq(Kinds), next : Nat]
    <3>1. CASE Len(flush.kinds) > 1
      <4>1. flush' = [kinds |-> <<"system">>, next |-> 1]
        <5>1. Tail(flush.kinds) = <<"system">>
          BY <2>1, <3>1, FlushKinds
        <5>2. QED
          BY <1>4, <3>1, <5>1, Zenon DEF ClearBuffer
      <4>2. QED
        BY <4>1, FlushRecords DEF FlushRecord, Kinds
    <3>2. CASE ~(Len(flush.kinds) > 1)
      BY <1>4, <3>2, FlushRecords DEF ClearBuffer, Release, GoOn, FlushRecord
    <3>3. QED
      BY <3>1, <3>2
  <2>4. lock' \in {"none", "loop", "flusher"} /\ loop' \in {loop, "polling"}
    BY <1>4 DEF ClearBuffer, TypeOK, Release, GoOn
  <2>5. QED
    BY <1>4, <2>2, <2>3, <2>4 DEF ClearBuffer, TypeOK, consumerVars, faultVars
<1>5. QED
  BY <1>1, <1>2, <1>3, <1>4 DEF FlushStep

-----------------------------------------------------------------------------
(* The initial state, and what IInv says of the committed offsets.         *)

LEMMA NothingBuffered == buffer = EmptyBuffers => Buffered = {}
  BY DEF EmptyBuffers, Buffered, Elements, Kinds

LEMMA InitIInv == ASSUME PipelineAssumption, Init PROVE IInv
<1>1. TypeOK
  BY TypeInit
<1>2. Buffered = {} /\ Inserted = {} /\ lock = "none" /\ loop = "polling" /\ seen = {}
  BY NothingBuffered DEF Init, Inserted
<1>3. LockAgrees /\ HandIsFull /\ WaitingIsNew /\ InsertedIsStored /\ SeenHasFate
  BY <1>2 DEF LockAgrees, HandIsFull, WaitingIsNew, InsertedIsStored, SeenHasFate
<1>4. RowsAreDistinct
  BY <1>2 DEF RowsAreDistinct, Init, EmptyBuffers
<1>5. PendingIsBelow /\ DuplicatesAreBounded
  BY DEF Init, PendingIsBelow, DuplicatesAreBounded, Pending
<1>6. TakenIsKept /\ BehindIsKept
  BY <1>1 DEF Init, TypeOK, TakenIsKept, BehindIsKept, HasFate
<1>7. QED
  BY <1>1, <1>3, <1>4, <1>5, <1>6 DEF IInv

LEMMA KeptIsAccounted == ASSUME IInv PROVE Accounted
<1> SUFFICES ASSUME NEW i \in 1..pos - 1
             PROVE  \/ i \in skipped
                    \/ Log[i] \in Malformed \cup dlq \cup lost
                    \/ Log[i] \in Buffered \cup InHand \cup ToRead(committed)
                    \/ stored[Log[i]] > 0
  BY DEF Accounted
<1>1. i \in skipped \/ Log[i] \in Kept \cup ToRead(committed)
  BY DEF IInv, BehindIsKept, HasFate
<1>2. QED
  BY <1>1 DEF Kept

LEMMA ToReadFrom ==
    ASSUME TypeOK, PipelineAssumption, NEW c \in 1..published
    PROVE  ToRead(c) = {Log[c]} \cup ToRead(c + 1)
<1>1. /\ published \in Nat /\ c..published = {c} \cup (c + 1)..published
      /\ c # 0 /\ c + 1 # 0
  BY DEF PipelineAssumption, TypeOK
<1>2. QED
  BY <1>1 DEF ToRead

-----------------------------------------------------------------------------
(* The consumer loop.                                                      *)

\* A step that leaves the sink, the message in hand and the faults alone.
LEMMA SinkRests ==
    ASSUME IInv, UNCHANGED <<pos, loop, dlq, seen, buffer, stored, faultVars>>, Inserted' = Inserted
    PROVE  /\ HandIsFull' /\ RowsAreDistinct' /\ WaitingIsNew' /\ InsertedIsStored' /\ SeenHasFate'
           /\ PendingIsBelow' /\ DuplicatesAreBounded'
           /\ UNCHANGED <<published, skipped>> => TakenIsKept'
           /\ Kept' = Kept
<1>1. Buffered' = Buffered /\ Current' = Current /\ InHand' = InHand
  BY DEF Buffered, Elements, Current, InHand
<1>2. Pending' = Pending /\ Kept' = Kept
  BY <1>1 DEF Pending, Kept, faultVars
<1>3. HandIsFull' /\ RowsAreDistinct' /\ WaitingIsNew' /\ InsertedIsStored' /\ SeenHasFate'
  BY <1>1 DEF IInv, HandIsFull, RowsAreDistinct, WaitingIsNew, InsertedIsStored, SeenHasFate
<1>4. PendingIsBelow' /\ DuplicatesAreBounded'
  BY <1>2 DEF IInv, PendingIsBelow, DuplicatesAreBounded, faultVars
<1>5. UNCHANGED <<published, skipped>> => TakenIsKept'
  BY <1>2 DEF IInv, TakenIsKept, HasFate, ToRead
<1>6. QED
  BY <1>2, <1>3, <1>4, <1>5

LEMMA BesideTheLoop ==
    ASSUME PipelineAssumption, IInv, AutoCommit \/ Stop \/ CallFlush
    PROVE  IInv'
<1>1. TypeOK'
  BY LoopTyped DEF IInv
<1>2. UNCHANGED <<published, skipped, pos, loop, dlq, seen, buffer, stored, faultVars>>
  BY DEF AutoCommit, Stop, CallFlush, consumerVars, sinkVars
<1>3. LockAgrees' /\ Inserted' = Inserted
  <2>1. CASE AutoCommit \/ Stop
    BY <2>1 DEF IInv, LockAgrees, Inserted, Rows, AutoCommit, Stop, sinkVars
  <2>2. CASE CallFlush
    <3>1. Inserted = {} /\ lock = "none"
      BY <2>2 DEF CallFlush, Inserted
    <3>2. lock' = "flusher" /\ flush'.kinds = <<"agent", "system">> /\ flush'.next = 1
      BY <2>2 DEF CallFlush
    <3>3. Inserted' = {}
      BY <3>2 DEF Inserted
    <3>4. Rows' \in Seq(Events)
      <4>1. Head(flush'.kinds) \in Kinds
        BY <3>2 DEF Kinds
      <4>2. QED
        BY <1>1, <4>1 DEF TypeOK, Rows
    <3>5. LockAgrees'
      BY <1>2, <2>2, <3>1, <3>2, <3>4 DEF IInv, LockAgrees, CallFlush
    <3>6. QED
      BY <3>1, <3>3, <3>5
  <2>3. QED
    BY <2>1, <2>2
<1>4. Kept' = Kept
  BY <1>2, <1>3, SinkRests
<1>5. BehindIsKept'
  <2>1. CASE AutoCommit
    BY <1>4, <2>1 DEF AutoCommit, IInv, TakenIsKept, BehindIsKept, HasFate, ToRead
  <2>2. CASE Stop \/ CallFlush
    BY <1>4, <2>2 DEF Stop, CallFlush, consumerVars, IInv, BehindIsKept, HasFate, ToRead
  <2>3. QED
    BY <2>1, <2>2
<1>6. QED
  BY <1>1, <1>2, <1>3, <1>5, SinkRests DEF IInv

\* What is published may be read later, and nothing else changes.
LEMMA PublishKeeps == ASSUME PipelineAssumption, IInv, Publish PROVE IInv'
<1>1. TypeOK'
  BY LoopTyped DEF IInv
<1>2. /\ UNCHANGED <<pos, committed, dlq, skipped, loop, seen, buffer, stored, lock, flush>>
      /\ UNCHANGED faultVars
  BY DEF Publish, sinkVars
<1>3. Inserted' = Inserted /\ LockAgrees'
  BY <1>2 DEF Inserted, Rows, IInv, LockAgrees
<1>4. /\ HandIsFull' /\ RowsAreDistinct' /\ WaitingIsNew' /\ InsertedIsStored' /\ SeenHasFate'
      /\ PendingIsBelow' /\ DuplicatesAreBounded' /\ Kept' = Kept
  BY <1>2, <1>3, SinkRests
<1>5. \A c : ToRead(c) \subseteq ToRead(c)'
  <2>1. published \in Nat /\ published' = published + 1
    BY DEF Publish, IInv, TypeOK
  <2>2. \A c : c..published \subseteq c..published'
    BY <2>1
  <2>3. QED
    BY <2>2 DEF ToRead
<1>6. BehindIsKept' /\ TakenIsKept'
  BY <1>2, <1>4, <1>5 DEF IInv, BehindIsKept, TakenIsKept, HasFate
<1>7. QED
  BY <1>1, <1>3, <1>4, <1>6 DEF IInv

LEMMA TakeKeeps == ASSUME PipelineAssumption, IInv, Take PROVE IInv'
<1>1. TypeOK'
  BY LoopTyped DEF IInv
<1>2. /\ loop = "polling" /\ loop' = "handling" /\ pos' = pos + 1
      /\ pos \in 1..published /\ Log[pos] \in Events
      /\ UNCHANGED <<published, skipped, committed, dlq, seen, buffer, lock, flush, stored, failures, restarts, lost>>
  BY DEF Take, IInv, TypeOK, PipelineAssumption, sinkVars, faultVars
<1>3. Buffered' = Buffered /\ Inserted' = Inserted /\ InHand = {} /\ InHand' = {Log[pos]}
  BY <1>2 DEF Buffered, Elements, Inserted, Rows, InHand
<1>4. Pending' = Pending /\ Kept' = Kept \cup {Log[pos]}
  BY <1>2, <1>3 DEF Pending, Kept
<1>5. LockAgrees' /\ HandIsFull' /\ RowsAreDistinct' /\ WaitingIsNew'
  BY <1>2, <1>3 DEF IInv, LockAgrees, Rows, HandIsFull, RowsAreDistinct, WaitingIsNew
<1>6. InsertedIsStored' /\ SeenHasFate' /\ PendingIsBelow' /\ DuplicatesAreBounded'
  BY <1>2, <1>3, <1>4 DEF IInv, InsertedIsStored, SeenHasFate, PendingIsBelow, DuplicatesAreBounded
<1>7. pos' - 1 = pos /\ \A i \in 1..pos : i \in 1..pos - 1 \/ i = pos
  BY <1>2
<1>8. BehindIsKept' /\ TakenIsKept'
  <2>1. ToRead(pos) = {Log[pos]} \cup ToRead(pos + 1)
    BY <1>2, ToReadFrom DEF IInv
  <2>2. \A i \in 1..pos : i \in skipped \/ Log[i] \in Kept' \cup ToRead(pos + 1)
    BY <1>2, <1>4, <1>7, <2>1 DEF IInv, TakenIsKept, HasFate
  <2>3. \A i \in 1..pos : i \in skipped \/ Log[i] \in Kept' \cup ToRead(committed)
    BY <1>2, <1>4, <1>7 DEF IInv, BehindIsKept, HasFate
  <2>4. QED
    BY <1>2, <1>7, <2>2, <2>3 DEF BehindIsKept, TakenIsKept, HasFate, ToRead
<1>9. QED
  BY <1>1, <1>5, <1>6, <1>8 DEF IInv

\* The message in hand goes to the dead letter topic and is kept there.
LEMMA SendToDlqKeeps == ASSUME PipelineAssumption, IInv, SendToDlq PROVE IInv'
<1>1. TypeOK'
  BY LoopTyped DEF IInv
<1>2. /\ loop = "dlq" /\ loop' = "polling" /\ dlq' = dlq \cup {Current}
      /\ UNCHANGED <<published, skipped, pos, committed, seen, buffer, lock, flush, stored, failures, restarts, lost>>
  BY DEF SendToDlq, sinkVars, faultVars
<1>3. Buffered' = Buffered /\ Inserted' = Inserted /\ InHand = {Current} /\ InHand' = {}
  BY <1>2 DEF Buffered, Elements, Inserted, Rows, InHand, Current
<1>4. Pending' = Pending /\ Kept' = Kept
  BY <1>2, <1>3 DEF Pending, Kept
<1>5. LockAgrees' /\ HandIsFull' /\ RowsAreDistinct' /\ WaitingIsNew'
  BY <1>2, <1>3 DEF IInv, LockAgrees, Rows, HandIsFull, RowsAreDistinct, WaitingIsNew
<1>6. InsertedIsStored' /\ SeenHasFate' /\ PendingIsBelow' /\ DuplicatesAreBounded'
  BY <1>2, <1>3, <1>4 DEF IInv, InsertedIsStored, SeenHasFate, PendingIsBelow, DuplicatesAreBounded
<1>7. BehindIsKept' /\ TakenIsKept'
  BY <1>2, <1>4 DEF IInv, BehindIsKept, TakenIsKept, HasFate, ToRead
<1>8. QED
  BY <1>1, <1>5, <1>6, <1>7 DEF IInv

\* A process that ends loses what was nowhere else, and that is recorded.
LEMMA ProcessEndsKeeps ==
    ASSUME PipelineAssumption, IInv, TypeOK', NEW held, held \subseteq Events, NEW c, c \in 0..pos',
           Buffered \cup InHand \subseteq held, ProcessEnds(held, c),
           \A i \in 1..pos' - 1 : i \in skipped \/ Log[i] \in Kept \cup held \cup ToRead(c)
    PROVE  IInv'
<1>1. /\ loop' = "over" /\ lock' = "none" /\ seen' = {} /\ buffer' = EmptyBuffers /\ committed' = c
      /\ lost' = lost \cup {e \in held : stored[e] = 0 /\ e \notin ToRead(c)}
      /\ UNCHANGED <<published, skipped, dlq, stored, failures, restarts>>
  BY DEF ProcessEnds
<1>2. Inserted' = {} /\ Buffered' = {} /\ InHand' = {}
  BY <1>1 DEF Inserted, InHand, EmptyBuffers, Buffered, Elements, Kinds
<1>3. LockAgrees' /\ HandIsFull' /\ WaitingIsNew' /\ InsertedIsStored' /\ SeenHasFate'
  BY <1>1, <1>2 DEF LockAgrees, HandIsFull, WaitingIsNew, InsertedIsStored, SeenHasFate
<1>4. RowsAreDistinct'
  BY <1>1, <1>2 DEF RowsAreDistinct, EmptyBuffers
<1>5. PendingIsBelow' /\ DuplicatesAreBounded' /\ TakenIsKept'
  BY <1>1 DEF IInv, PendingIsBelow, DuplicatesAreBounded, TakenIsKept
<1>6. Kept \cup held \subseteq Kept' \cup ToRead(c)
  <2>1. SUFFICES ASSUME NEW e \in Kept \cup held, e \notin ToRead(c)
                 PROVE  e \in Kept'
    OBVIOUS
  <2>2. e \in Events /\ stored[e] \in Nat
    BY <2>1 DEF Kept, IInv, TypeOK
  <2>3. CASE stored[e] > 0
    BY <1>1, <2>2, <2>3 DEF Kept
  <2>4. CASE ~(stored[e] > 0) /\ e \in held
    <3>1. stored[e] = 0
      BY <2>2, <2>4
    <3>2. QED
      BY <1>1, <2>1, <2>2, <2>4, <3>1 DEF Kept
  <2>5. CASE ~(stored[e] > 0) /\ e \notin held
    <3>1. e \in Malformed \cup dlq \cup lost
      BY <2>1, <2>5 DEF Kept
    <3>2. QED
      BY <1>1, <2>2, <3>1 DEF Kept
  <2>6. QED
    BY <2>3, <2>4, <2>5
<1>7. BehindIsKept'
  <2>1. ToRead(c)' = ToRead(c) /\ skipped' = skipped
    BY <1>1 DEF ToRead
  <2>2. QED
    BY <1>1, <1>6, <2>1 DEF BehindIsKept, HasFate
<1>8. QED
  BY <1>3, <1>4, <1>5, <1>7 DEF IInv

LEMMA EndKeeps ==
    ASSUME PipelineAssumption, IInv, BreakOnStop \/ DlqFails \/ Killed
    PROVE  IInv'
<1>1. TypeOK'
  BY EndTyped DEF IInv
<1>2. Buffered \cup InHand \subseteq Events
  BY BufferedEvents, InHandTyped DEF IInv, InHand, Current
<1>3. /\ pos \in 1..published + 1 /\ committed \in 0..pos
      /\ Len(Log) \in Nat /\ published \in 0..Len(Log)
  BY DEF IInv, PipelineAssumption, TypeOK
<1>4. CASE BreakOnStop
  <2>1. loop # "over" /\ pos \in 1..published /\ pos' = pos + 1 /\ Log[pos] \in Events
    BY <1>3, <1>4 DEF BreakOnStop, PipelineAssumption
  <2>2. ToRead(pos) = {Log[pos]} \cup ToRead(pos + 1)
    BY <2>1, ToReadFrom DEF IInv
  <2>3. \A i \in 1..pos : i \in 1..pos - 1 \/ i = pos
    BY <2>1
  <2>4. \A i \in 1..pos : i \in skipped \/ Log[i] \in Kept \cup {Log[pos]} \cup ToRead(pos + 1)
    BY <2>1, <2>2, <2>3 DEF IInv, TakenIsKept, HasFate
  <2>5. pos' - 1 = pos /\ pos + 1 \in 0..pos'
    BY <2>1
  <2>6. InHand = {} /\ ProcessEnds(Buffered \cup {Log[pos]}, pos + 1)
    BY <1>4 DEF BreakOnStop, InHand
  <2>7. \A i \in 1..pos' - 1 :
            i \in skipped \/ Log[i] \in Kept \cup (Buffered \cup {Log[pos]}) \cup ToRead(pos + 1)
    BY <2>4, <2>5
  <2>8. QED
    BY <1>1, <1>2, <2>1, <2>5, <2>6, <2>7, ProcessEndsKeeps
<1>5. CASE DlqFails
  <2>1. \A i \in 1..pos - 1 : i \in skipped \/ Log[i] \in Kept \cup ToRead(pos)
    BY <1>5 DEF DlqFails, IInv, TakenIsKept, HasFate
  <2>2. pos \in 0..pos' /\ pos' = pos
    BY <1>3, <1>5 DEF DlqFails
  <2>3. QED
    BY <1>1, <1>2, <1>5, <2>1, <2>2, ProcessEndsKeeps DEF DlqFails
<1>6. CASE Killed
  <2>1. \A i \in 1..pos - 1 : i \in skipped \/ Log[i] \in Kept \cup ToRead(committed)
    BY DEF IInv, BehindIsKept, HasFate
  <2>2. committed \in 0..pos' /\ pos' = pos
    BY <1>3, <1>6 DEF Killed
  <2>3. QED
    BY <1>1, <1>2, <1>6, <2>1, <2>2, ProcessEndsKeeps DEF Killed
<1>7. QED
  BY <1>4, <1>5, <1>6

\* A new process may insert every event once more.
LEMMA RestartKeeps == ASSUME PipelineAssumption, IInv, Restart PROVE IInv'
<1>1. TypeOK'
  BY LoopTyped DEF IInv
<1>2. /\ loop = "over" /\ loop' = "polling" /\ pos' = StartsAt(committed)
      /\ lock = "none" /\ lock' = "none" /\ restarts' = restarts + 1
      /\ skipped' = IF committed = 0 THEN skipped \cup pos..published ELSE skipped
      /\ UNCHANGED <<published, committed, dlq, seen, buffer, stored, failures, lost>>
  BY DEF Restart, IInv, LockAgrees, sinkVars
<1>3. Buffered' = Buffered /\ Inserted = {} /\ Inserted' = {} /\ InHand = {} /\ InHand' = {}
  BY <1>2 DEF Buffered, Elements, Inserted, InHand
<1>4. Kept' = Kept
  BY <1>2, <1>3 DEF Kept
<1>5. LockAgrees' /\ HandIsFull' /\ RowsAreDistinct' /\ WaitingIsNew' /\ InsertedIsStored' /\ SeenHasFate'
  BY <1>2, <1>3 DEF IInv, LockAgrees, HandIsFull, RowsAreDistinct, WaitingIsNew, InsertedIsStored, SeenHasFate
<1>6. PendingIsBelow' /\ DuplicatesAreBounded'
  <2>1. failures \in Nat /\ restarts \in Nat
    BY DEF IInv, TypeOK
  <2>2. \A e \in Events : stored'[e] \in Nat /\ stored'[e] <= failures' + restarts'
    BY <1>2, <2>1 DEF IInv, TypeOK, DuplicatesAreBounded
  <2>3. Pending' \subseteq Events
    BY DEF Pending
  <2>4. DuplicatesAreBounded'
    BY <1>2, <2>1, <2>2 DEF DuplicatesAreBounded
  <2>5. QED
    BY <2>2, <2>3, <2>4 DEF PendingIsBelow
<1>7. BehindIsKept' /\ TakenIsKept'
  <2>0. published \in Nat /\ pos \in 1..published + 1 /\ committed \in 0..pos
    BY DEF IInv, TypeOK, PipelineAssumption
  <2>1. CASE committed = 0
    <3>1. pos' - 1 = published /\ skipped' = skipped \cup pos..published
      BY <1>2, <2>0, <2>1 DEF StartsAt
    <3>2. ToRead(committed) = {}
      BY <2>1 DEF ToRead
    <3>3. \A i \in 1..published : i \in 1..pos - 1 \/ i \in pos..published
      BY <2>0
    <3>4. \A i \in 1..published : i \in skipped' \/ Log[i] \in Kept
      BY <3>1, <3>2, <3>3 DEF IInv, BehindIsKept, HasFate
    <3>5. QED
      BY <1>4, <3>1, <3>4 DEF BehindIsKept, TakenIsKept, HasFate
  <2>2. CASE committed # 0
    <3>1. pos' = committed /\ skipped' = skipped
      BY <1>2, <2>2 DEF StartsAt
    <3>2. \A i \in 1..committed - 1 : i \in 1..pos - 1
      BY <2>0, <2>2
    <3>3. \A i \in 1..committed - 1 : HasFate(i, committed)
      BY <3>2 DEF IInv, BehindIsKept
    <3>4. QED
      BY <1>2, <1>4, <3>1, <3>3 DEF BehindIsKept, TakenIsKept, HasFate, ToRead
  <2>3. QED
    BY <2>1, <2>2
<1>8. QED
  BY <1>1, <1>5, <1>6, <1>7 DEF IInv

-----------------------------------------------------------------------------
(* The sink.                                                               *)

LEMMA HandleKeeps == ASSUME PipelineAssumption, IInv, Handle PROVE IInv'
<1>1. TypeOK'
  BY LoopTyped DEF IInv
<1>2. /\ loop = "handling" /\ loop' \in {"dlq", "polling", "waiting"} /\ Current \in Events
      /\ UNCHANGED <<published, skipped, pos, committed, dlq, buffer, lock, flush, stored, failures, restarts, lost>>
  BY InHandTyped DEF Handle, consumerVars, faultVars, IInv
<1>3. Buffered' = Buffered /\ Inserted' = Inserted /\ InHand = {Current} /\ Current' = Current
  BY <1>2 DEF Buffered, Elements, Inserted, Rows, InHand, Current
<1>4. LockAgrees' /\ HandIsFull' /\ InsertedIsStored' /\ DuplicatesAreBounded'
  BY <1>2, <1>3 DEF IInv, LockAgrees, Rows, HandIsFull, InsertedIsStored, DuplicatesAreBounded
<1>5. seen \subseteq seen' /\ (loop' = "waiting" => Current \notin seen /\ Current \in seen')
  BY <1>2 DEF Handle
<1>6. RowsAreDistinct' /\ WaitingIsNew'
  BY <1>2, <1>3, <1>5 DEF IInv, RowsAreDistinct, WaitingIsNew
<1>7. SeenHasFate'
  <2>1. \A e \in seen' : e \in seen \/ e \in Malformed \/ (loop' = "waiting" /\ e = Current)
    BY DEF Handle
  <2>2. QED
    BY <1>2, <1>3, <2>1 DEF IInv, SeenHasFate
<1>8. Pending' \subseteq Pending
  BY <1>2, <1>3, <1>5 DEF Pending
<1>9. PendingIsBelow'
  BY <1>2, <1>8 DEF IInv, PendingIsBelow
<1>10. Kept \subseteq Kept'
  <2>1. CASE loop' = "polling"
    <3>1. Current \in seen'
      BY <1>2, <2>1 DEF Handle
    <3>2. Current \in Malformed \cup Buffered' \/ stored'[Current] > 0
      BY <1>3, <1>7, <2>1, <3>1 DEF SeenHasFate
    <3>3. QED
      BY <1>2, <1>3, <3>2 DEF Kept
  <2>2. CASE loop' # "polling"
    <3>1. InHand' = InHand
      BY <1>2, <1>3, <2>2 DEF InHand, Current
    <3>2. QED
      BY <1>2, <1>3, <3>1 DEF Kept
  <2>3. QED
    BY <2>1, <2>2
<1>11. BehindIsKept' /\ TakenIsKept'
  BY <1>2, <1>10 DEF IInv, BehindIsKept, TakenIsKept, HasFate, ToRead
<1>12. QED
  BY <1>1, <1>4, <1>6, <1>7, <1>9, <1>11 DEF IInv

\* The row goes from the hand of the loop to the buffer of its kind.
LEMMA AppendRowMoves ==
    ASSUME PipelineAssumption, IInv, AppendRow
    PROVE  /\ loop = "waiting" /\ loop' \in {"polling", "flushing"}
           /\ Buffered' = Buffered \cup {Current} /\ InHand = {Current} /\ InHand' = {}
<1> DEFINE k == Kind[Current]
           q == Append(buffer[k], Current)
<1>1. /\ loop = "waiting" /\ loop' \in {"polling", "flushing"} /\ pos' = pos
      /\ Current \in Events /\ k \in Kinds /\ buffer' = [buffer EXCEPT ![k] = q]
  BY InHandTyped DEF AppendRow, IInv, PipelineAssumption, consumerVars
<1>2. /\ buffer \in [Kinds -> Seq(Events)] /\ buffer[k] \in Seq(Events)
      /\ \A h \in Kinds : buffer'[h] = IF h = k THEN q ELSE buffer[h]
  BY <1>1 DEF IInv, TypeOK
<1>3. /\ q[Len(q)] = Current /\ DOMAIN q = DOMAIN buffer[k] \cup {Len(q)}
      /\ \A i \in DOMAIN buffer[k] : q[i] = buffer[k][i]
  BY <1>1, <1>2
<1>4. Elements(q) = Elements(buffer[k]) \cup {Current}
  BY <1>3 DEF Elements
<1>5. Buffered' = UNION {Elements(buffer'[h]) : h \in Kinds}
  BY DEF Buffered, Elements
<1>6. \A h \in Kinds : Elements(buffer'[h]) = IF h = k THEN Elements(q) ELSE Elements(buffer[h])
  BY <1>2, Zenon
<1>7. Buffered' = Buffered \cup {Current}
  BY <1>1, <1>4, <1>5, <1>6 DEF Buffered
<1>8. QED
  BY <1>1, <1>7 DEF InHand, Current

LEMMA AppendRowKeeps == ASSUME PipelineAssumption, IInv, AppendRow PROVE IInv'
<1> DEFINE k == Kind[Current]
           q == Append(buffer[k], Current)
<1>1. TypeOK'
  BY SinkTyped DEF IInv
<1>2. /\ loop = "waiting" /\ lock = "none" /\ loop' \in {"polling", "flushing"}
      /\ Current \in Events /\ k \in Kinds /\ Current \in seen \ Buffered
      /\ buffer' = [buffer EXCEPT ![k] = q]
      /\ UNCHANGED <<published, skipped, pos, committed, dlq, seen, stored, failures, restarts, lost>>
  BY InHandTyped DEF AppendRow, IInv, WaitingIsNew, PipelineAssumption, consumerVars, faultVars
<1>3. /\ buffer \in [Kinds -> Seq(Events)] /\ buffer[k] \in Seq(Events)
      /\ \A h \in Kinds : buffer'[h] = IF h = k THEN q ELSE buffer[h]
  BY <1>2 DEF IInv, TypeOK
<1>4. /\ Len(q) = Len(buffer[k]) + 1 /\ q[Len(q)] = Current
      /\ DOMAIN q = DOMAIN buffer[k] \cup {Len(q)}
      /\ \A i \in DOMAIN buffer[k] : q[i] = buffer[k][i] /\ i # Len(q)
  BY <1>2, <1>3
<1>5. Buffered' = Buffered \cup {Current}
  BY AppendRowMoves
<1>6. InHand = {Current} /\ InHand' = {} /\ Inserted = {}
  BY <1>2 DEF InHand, Inserted, Current
<1>7. LockAgrees' /\ Inserted' = {}
  <2>1. CASE loop' = "polling"
    <3>1. lock' = "none"
      BY <1>2, <2>1 DEF AppendRow
    <3>2. QED
      BY <2>1, <3>1 DEF LockAgrees, Inserted
  <2>2. CASE loop' = "flushing"
    <3>1. lock' = "loop" /\ flush'.kinds = <<k>> /\ flush'.next = 1
      BY <1>2, <2>2 DEF AppendRow
    <3>2. Rows' = q
      BY <1>2, <1>3, <3>1 DEF Rows
    <3>3. Len(q) \in Nat /\ 1 \in 1..Len(q) + 1
      BY <1>3, <1>4
    <3>4. LockAgrees'
      BY <1>2, <2>2, <3>1, <3>2, <3>3 DEF LockAgrees, Kinds
    <3>5. QED
      BY <3>1, <3>4 DEF Inserted
  <2>3. QED
    BY <1>2, <2>1, <2>2
<1>8. RowsAreDistinct'
  <2>1. Buffered' \subseteq seen'
    BY <1>2, <1>5 DEF IInv, RowsAreDistinct
  <2>2. \A h \in Kinds : \A i \in DOMAIN buffer'[h] : Kind[buffer'[h][i]] = h
    BY <1>2, <1>3, <1>4 DEF IInv, RowsAreDistinct
  <2>3. \A h \in Kinds : \A i, j \in DOMAIN buffer'[h] : buffer'[h][i] = buffer'[h][j] => i = j
    <3>1. \A i \in DOMAIN buffer[k] : buffer[k][i] # Current
      BY <1>2, BufferedRows
    <3>2. \A i, j \in DOMAIN q : q[i] = q[j] => i = j
      BY <1>2, <1>4, <3>1 DEF IInv, RowsAreDistinct
    <3>3. QED
      BY <1>3, <3>2 DEF IInv, RowsAreDistinct
  <2>4. QED
    BY <2>1, <2>2, <2>3 DEF RowsAreDistinct
<1>9. HandIsFull' /\ WaitingIsNew' /\ InsertedIsStored'
  BY <1>2, <1>7 DEF HandIsFull, WaitingIsNew, InsertedIsStored
<1>10. SeenHasFate' /\ DuplicatesAreBounded'
  BY <1>2, <1>5 DEF IInv, SeenHasFate, DuplicatesAreBounded
<1>11. PendingIsBelow'
  <2>1. Pending' \subseteq Pending
    BY <1>2, <1>5, <1>6, <1>7 DEF Pending
  <2>2. QED
    BY <1>2, <2>1 DEF IInv, PendingIsBelow
<1>12. Kept' = Kept
  BY <1>2, <1>5, <1>6 DEF Kept
<1>13. BehindIsKept' /\ TakenIsKept'
  BY <1>2, <1>12 DEF IInv, BehindIsKept, TakenIsKept, HasFate, ToRead
<1>14. QED
  BY <1>1, <1>7, <1>8, <1>9, <1>10, <1>11, <1>13 DEF IInv

\* An inserted row is stored and not due again in this flush.
LEMMA InsertKeeps == ASSUME PipelineAssumption, IInv, Insert PROVE IInv'
<1> DEFINE e == Rows[flush.next]
<1>1. TypeOK'
  BY SinkTyped DEF IInv, FlushStep
<1>2. /\ lock # "none" /\ flush.next \in DOMAIN Rows
      /\ e \in Events /\ e \in Buffered \ Inserted /\ e \in Pending
      /\ stored' = [stored EXCEPT ![e] = @ + 1] /\ flush' = [flush EXCEPT !.next = @ + 1]
      /\ UNCHANGED <<published, skipped, pos, committed, dlq, loop, seen, buffer, lock, failures, restarts, lost>>
  BY DueRow DEF IInv, Insert, consumerVars, faultVars
<1>3. /\ stored \in [Events -> Nat] /\ failures \in Nat /\ restarts \in Nat
      /\ flush'.kinds = flush.kinds /\ flush'.next = flush.next + 1
      /\ Rows' = Rows /\ Rows \in Seq(Events)
  <2>1. Head(flush.kinds) \in Kinds
    BY <1>2, FlushKinds DEF IInv
  <2>2. QED
    BY <1>2, <2>1 DEF IInv, TypeOK, Rows
<1>4. Buffered' = Buffered /\ InHand' = InHand /\ Current' = Current
  BY <1>2 DEF Buffered, Elements, InHand, Current
<1>5. Inserted' = Inserted \cup {e}
  <2>1. 1..flush'.next - 1 = (1..flush.next - 1) \cup {flush.next}
    <3>1. flush.next \in Nat \ {0} /\ flush'.next = flush.next + 1
      <4>1. \A rows \in Seq(Events) : \A n \in DOMAIN rows : n \in Nat \ {0}
        OBVIOUS
      <4>2. QED
        BY <1>2, <1>3, <4>1
    <3>2. \A n \in Nat \ {0} : 1..(n + 1) - 1 = (1..n - 1) \cup {n}
      OBVIOUS
    <3>3. QED
      BY <3>1, <3>2
  <2>2. Inserted = {Rows[j] : j \in 1..flush.next - 1}
    BY <1>2 DEF Inserted
  <2>3. Inserted' = {Rows[j] : j \in 1..flush'.next - 1}
    BY <1>2, <1>3 DEF Inserted
  <2>4. QED
    BY <2>1, <2>2, <2>3
<1>6. \A d \in Events : /\ stored'[d] = IF d = e THEN stored[e] + 1 ELSE stored[d]
                        /\ stored[d] > 0 => stored'[d] > 0
  <2>1. PICK row \in Events : row = e
    BY <1>2
  <2>2. stored' = [stored EXCEPT ![row] = @ + 1]
    BY <1>2, <2>1
  <2>3. QED
    BY <1>3, <2>1, <2>2, OneRowMore
<1>7. LockAgrees'
  <2>1. flush'.next \in 1..Len(Rows') + 1
    <3>1. \A rows \in Seq(Events) : \A n \in DOMAIN rows : n + 1 \in 1..Len(rows) + 1
      OBVIOUS
    <3>2. QED
      BY <1>2, <1>3, <3>1
  <2>2. QED
    BY <1>2, <1>3, <2>1 DEF IInv, LockAgrees
<1>8. HandIsFull' /\ RowsAreDistinct' /\ WaitingIsNew'
  BY <1>2, <1>4 DEF IInv, HandIsFull, RowsAreDistinct, WaitingIsNew
<1>9. InsertedIsStored'
  <2>1. Inserted \subseteq Events
    BY <1>3 DEF Inserted, IInv, LockAgrees
  <2>2. stored'[e] > 0
    BY <1>2, <1>3, <1>6
  <2>3. QED
    BY <1>5, <1>6, <2>1, <2>2 DEF IInv, InsertedIsStored
<1>10. SeenHasFate'
  BY <1>2, <1>4, <1>6 DEF IInv, TypeOK, SeenHasFate
<1>11. Pending' \subseteq Pending \ {e}
  BY <1>2, <1>4, <1>5 DEF Pending, IInv, RowsAreDistinct, WaitingIsNew
<1>12. PendingIsBelow'
  <2>1. Pending' \subseteq Events
    BY DEF Pending
  <2>2. QED
    BY <1>2, <1>6, <1>11, <2>1 DEF IInv, PendingIsBelow
<1>13. DuplicatesAreBounded'
  <2>1. stored[e] <= failures + restarts
    BY <1>2 DEF IInv, PendingIsBelow, LockAgrees
  <2>2. ASSUME NEW d \in Events
        PROVE  stored'[d] <= 1 + failures + restarts
    <3>1. stored[d] \in Nat /\ stored[e] \in Nat /\ failures \in Nat /\ restarts \in Nat
      BY <1>2, <1>3
    <3>2. stored[d] <= 1 + failures + restarts
      BY DEF IInv, DuplicatesAreBounded
    <3>3. stored'[d] = IF d = e THEN stored[e] + 1 ELSE stored[d]
      BY <1>6
    <3>4. QED
      BY <2>1, <3>1, <3>2, <3>3
  <2>3. QED
    BY <1>2, <2>2 DEF DuplicatesAreBounded
<1>14. Kept \subseteq Kept'
  BY <1>2, <1>4, <1>6 DEF Kept
<1>15. BehindIsKept' /\ TakenIsKept'
  BY <1>2, <1>14 DEF IInv, BehindIsKept, TakenIsKept, HasFate, ToRead
<1>16. QED
  BY <1>1, <1>7, <1>8, <1>9, <1>10, <1>12, <1>13, <1>15 DEF IInv

\* A failed insert leaves every row buffered, and raises the bound by one.
LEMMA InsertFailsKeeps ==
    ASSUME PipelineAssumption, IInv, NEW reached \in BOOLEAN, InsertFails(reached)
    PROVE  IInv'
<1> DEFINE e == Rows[flush.next]
<1>1. TypeOK'
  BY SinkTyped DEF IInv, FlushStep
<1>2. /\ lock # "none" /\ e \in Events /\ e \in Pending /\ e \in Buffered
      /\ lock' = "none" /\ loop' = IF lock = "loop" THEN "polling" ELSE loop
      /\ stored' = IF reached THEN [stored EXCEPT ![e] = @ + 1] ELSE stored
      /\ failures' = failures + 1
      /\ UNCHANGED <<published, skipped, pos, committed, dlq, seen, buffer, restarts, lost>>
  BY DueRow DEF IInv, InsertFails, Release, GoOn, consumerVars
<1>3. stored \in [Events -> Nat] /\ failures \in Nat /\ restarts \in Nat
  BY DEF IInv, TypeOK
<1>4. loop # "over" /\ (lock = "loop" => loop = "flushing")
  BY <1>2 DEF IInv, LockAgrees
<1>5. Buffered' = Buffered /\ InHand' = InHand /\ Current' = Current /\ Inserted' = {}
  BY <1>2, <1>4 DEF Buffered, Elements, InHand, Current, Inserted
<1>6. \A d \in Events : /\ stored'[d] \in Nat /\ stored[d] <= stored'[d]
                        /\ stored'[d] <= IF d = e THEN stored[d] + 1 ELSE stored[d]
  <2>1. CASE reached
    BY <1>2, <1>3, <2>1
  <2>2. CASE ~reached
    BY <1>2, <1>3, <2>2
  <2>3. QED
    BY <2>1, <2>2
<1>7. LockAgrees'
  BY <1>2, <1>4 DEF IInv, LockAgrees
<1>8. HandIsFull' /\ RowsAreDistinct' /\ WaitingIsNew' /\ InsertedIsStored'
  BY <1>2, <1>4, <1>5 DEF IInv, HandIsFull, RowsAreDistinct, WaitingIsNew, InsertedIsStored
<1>9. \A d \in Events : stored[d] > 0 => stored'[d] > 0
  BY <1>3, <1>6
<1>10. SeenHasFate'
  BY <1>2, <1>4, <1>5, <1>9 DEF IInv, TypeOK, SeenHasFate
<1>11. \A d \in Events : stored'[d] <= failures' + restarts'
  <2>1. stored[e] <= failures + restarts
    BY <1>2, <1>4 DEF IInv, PendingIsBelow
  <2>2. \A d \in Events : stored[d] <= 1 + failures + restarts
    BY DEF IInv, DuplicatesAreBounded
  <2>3. SUFFICES ASSUME NEW d \in Events PROVE stored'[d] <= failures' + restarts'
    OBVIOUS
  <2>4. CASE d = e
    BY <1>2, <1>3, <1>6, <2>1, <2>4
  <2>5. CASE d # e
    BY <1>2, <1>3, <1>6, <2>2, <2>5
  <2>6. QED
    BY <2>4, <2>5
<1>12. PendingIsBelow' /\ DuplicatesAreBounded'
  <2>1. Pending' \subseteq Events
    BY DEF Pending
  <2>2. PendingIsBelow'
    BY <1>11, <2>1 DEF PendingIsBelow
  <2>3. DuplicatesAreBounded'
    BY <1>2, <1>3, <1>6, <1>11 DEF DuplicatesAreBounded
  <2>4. QED
    BY <2>2, <2>3
<1>13. Kept \subseteq Kept'
  BY <1>2, <1>5, <1>9 DEF Kept
<1>14. BehindIsKept' /\ TakenIsKept'
  BY <1>2, <1>4, <1>13 DEF IInv, BehindIsKept, TakenIsKept, HasFate, ToRead
<1>15. QED
  BY <1>1, <1>7, <1>8, <1>10, <1>12, <1>14 DEF IInv

\* A buffer is cleared when each of its rows was inserted.
LEMMA ClearBufferMoves ==
    ASSUME IInv, ClearBuffer
    PROVE  /\ Buffered' = Buffered \ Inserted
           /\ loop' = loop \/ (lock = "loop" /\ loop' = "polling")
           /\ loop # "over" /\ InHand' = InHand /\ Current' = Current
<1> DEFINE k == Head(flush.kinds)
<1>1. /\ lock # "none" /\ k \in Kinds /\ ~(flush.next <= Len(Rows))
      /\ buffer' = [buffer EXCEPT ![k] = <<>>] /\ pos' = pos
  BY FlushKinds DEF IInv, ClearBuffer, InsertDue, consumerVars
<1>2. /\ buffer \in [Kinds -> Seq(Events)]
      /\ \A h \in Kinds : buffer'[h] = IF h = k THEN <<>> ELSE buffer[h]
  BY <1>1 DEF IInv, TypeOK
<1>3. Inserted = Elements(buffer[k])
  <2>1. Rows \in Seq(Events) /\ flush.next \in 1..Len(Rows) + 1
    BY <1>1, <1>2 DEF Rows, IInv, LockAgrees
  <2>2. flush.next - 1 = Len(Rows) /\ DOMAIN Rows = 1..Len(Rows)
    BY <1>1, <2>1
  <2>3. QED
    BY <1>1, <2>2 DEF Inserted, Elements, Rows
<1>4. Buffered' = Buffered \ Inserted
  <2>1. Buffered' = UNION {Elements(buffer'[h]) : h \in Kinds}
    BY DEF Buffered, Elements
  <2>2. \A h \in Kinds : Elements(buffer'[h]) = IF h = k THEN {} ELSE Elements(buffer[h])
    <3>1. Elements(<<>>) = {}
      BY DEF Elements
    <3>2. QED
      BY <1>2, <3>1, Zenon
  <2>3. \A h \in Kinds : h # k => Elements(buffer[h]) \cap Elements(buffer[k]) = {}
    BY <1>1 DEF Elements, IInv, RowsAreDistinct
  <2>4. QED
    BY <1>1, <1>3, <2>1, <2>2, <2>3 DEF Buffered
<1>5. /\ loop' = loop \/ (lock = "loop" /\ loop' = "polling")
      /\ lock = "loop" <=> loop = "flushing"
      /\ loop # "over"
  BY <1>1 DEF ClearBuffer, Release, GoOn, IInv, LockAgrees
<1>6. QED
  BY <1>1, <1>4, <1>5 DEF InHand, Current

LEMMA ClearBufferKeeps == ASSUME PipelineAssumption, IInv, ClearBuffer PROVE IInv'
<1> DEFINE k == Head(flush.kinds)
<1>1. TypeOK'
  BY SinkTyped DEF IInv, FlushStep
<1>2. /\ lock # "none" /\ k \in Kinds /\ ~(flush.next <= Len(Rows))
      /\ buffer' = [buffer EXCEPT ![k] = <<>>]
      /\ UNCHANGED <<published, skipped, pos, committed, dlq, seen, stored, failures, restarts, lost>>
  BY FlushKinds DEF IInv, ClearBuffer, InsertDue, consumerVars, faultVars
<1>3. /\ buffer \in [Kinds -> Seq(Events)]
      /\ \A h \in Kinds : buffer'[h] = IF h = k THEN <<>> ELSE buffer[h]
  BY <1>2 DEF IInv, TypeOK
<1>5. Buffered' = Buffered \ Inserted
  BY ClearBufferMoves
<1>6. /\ loop' = loop \/ (lock = "loop" /\ loop' = "polling")
      /\ lock = "loop" <=> loop = "flushing"
      /\ loop # "over"
  BY <1>2, ClearBufferMoves DEF IInv, LockAgrees
<1>7. InHand' = InHand /\ Current' = Current
  BY ClearBufferMoves
<1>8. LockAgrees' /\ Inserted' = {}
  <2>1. CASE Len(flush.kinds) > 1
    <3>1. Tail(flush.kinds) = <<"system">>
      BY <1>2, <2>1, FlushKinds DEF IInv
    <3>2. lock' = lock /\ loop' = loop /\ flush'.kinds = <<"system">> /\ flush'.next = 1
      <4>1. lock' = lock /\ loop' = loop /\ flush' = [kinds |-> <<"system">>, next |-> 1]
        BY <2>1, <3>1, Zenon DEF ClearBuffer
      <4>2. QED
        BY <4>1
    <3>3. Rows' \in Seq(Events)
      BY <1>1, <3>2 DEF TypeOK, Rows, Kinds
    <3>4. LockAgrees'
      BY <3>2, <3>3 DEF IInv, LockAgrees
    <3>5. QED
      BY <3>2, <3>4 DEF Inserted
  <2>2. CASE ~(Len(flush.kinds) > 1)
    <3>1. lock' = "none" /\ loop' = IF lock = "loop" THEN "polling" ELSE loop
      BY <2>2 DEF ClearBuffer, Release, GoOn
    <3>2. QED
      BY <1>6, <3>1 DEF LockAgrees, Inserted
  <2>3. QED
    BY <2>1, <2>2
<1>9. HandIsFull' /\ WaitingIsNew' /\ InsertedIsStored'
  BY <1>2, <1>5, <1>6, <1>7, <1>8 DEF IInv, HandIsFull, WaitingIsNew, InsertedIsStored
<1>10. RowsAreDistinct'
  BY <1>2, <1>3, <1>5 DEF IInv, RowsAreDistinct
<1>11. \A e \in Inserted : stored[e] > 0
  BY DEF IInv, InsertedIsStored
<1>12. SeenHasFate'
  BY <1>2, <1>5, <1>6, <1>7, <1>11 DEF IInv, SeenHasFate
<1>13. PendingIsBelow' /\ DuplicatesAreBounded'
  <2>1. Pending' \subseteq Pending
    BY <1>2, <1>5, <1>6, <1>7, <1>8 DEF Pending
  <2>2. QED
    BY <1>2, <1>6, <2>1 DEF IInv, PendingIsBelow, DuplicatesAreBounded
<1>14. Kept \subseteq Kept'
  BY <1>2, <1>5, <1>7, <1>11 DEF Kept
<1>15. BehindIsKept' /\ TakenIsKept'
  BY <1>2, <1>6, <1>14 DEF IInv, BehindIsKept, TakenIsKept, HasFate, ToRead
<1>16. QED
  BY <1>1, <1>8, <1>9, <1>10, <1>12, <1>13, <1>15 DEF IInv

-----------------------------------------------------------------------------
(* The theorems.                                                           *)

LEMMA NextIInv == ASSUME PipelineAssumption, IInv, [Next]_vars PROVE IInv'
<1>1. CASE AutoCommit \/ Stop \/ CallFlush
  BY <1>1, BesideTheLoop
<1>2. CASE Publish \/ Take \/ SendToDlq
  BY <1>2, PublishKeeps, TakeKeeps, SendToDlqKeeps
<1>3. CASE BreakOnStop \/ DlqFails \/ Killed
  BY <1>3, EndKeeps
<1>4. CASE Restart
  BY <1>4, RestartKeeps
<1>5. CASE Handle
  BY <1>5, HandleKeeps
<1>6. CASE AppendRow
  BY <1>6, AppendRowKeeps
<1>7. CASE FlushStep
  BY <1>7, InsertKeeps, InsertFailsKeeps, ClearBufferKeeps DEF FlushStep
<1>8. CASE UNCHANGED vars
  <2>1. /\ UNCHANGED <<published, skipped, pos, committed, loop, dlq, seen, buffer, stored, faultVars>>
        /\ UNCHANGED <<lock, flush>> /\ TypeOK'
    BY <1>8 DEF vars, consumerVars, sinkVars, faultVars, IInv, TypeOK
  <2>2. Inserted' = Inserted /\ LockAgrees'
    BY <2>1 DEF Inserted, Rows, IInv, LockAgrees
  <2>3. BehindIsKept'
    BY <2>1, <2>2, SinkRests DEF IInv, BehindIsKept, HasFate, ToRead
  <2>4. QED
    BY <2>1, <2>2, <2>3, SinkRests DEF IInv
<1>9. QED
  BY <1>1, <1>2, <1>3, <1>4, <1>5, <1>6, <1>7, <1>8 DEF Next, LoopStep

\* Every variable keeps its type: no offset beyond the partition, no fault
\* beyond the bounds, and a flush that is at a row or past the last one.
THEOREM TypeCorrect == Spec => []TypeOK
<1>1. IInv => TypeOK
  BY DEF IInv
<1>2. QED
  BY <1>1, PipelineAssumption, InitIInv, NextIInv, PTL DEF Spec

\* The consumer loses no event without a trace: whatever it has passed is stored,
\* buffered, in the handler, dead lettered, malformed, to be read again, lost with
\* the process that held it, or skipped for want of a committed offset; no failed
\* insert, repeated message or concurrent flush() of ClickHouseSink adds another way.
THEOREM EventsAreAccounted == Spec => []Accounted
<1>1. IInv => Accounted
  BY KeptIsAccounted
<1>2. QED
  BY <1>1, PipelineAssumption, InitIInv, NextIInv, PTL DEF Spec

\* The sink stores an event at most once more than inserts failed and processes
\* were restarted, however often the producer repeats it and flush() is called.
THEOREM StoredRowsAreBounded == Spec => []DuplicatesAreBounded
<1>1. IInv => DuplicatesAreBounded
  BY DEF IInv
<1>2. QED
  BY <1>1, PipelineAssumption, InitIInv, NextIInv, PTL DEF Spec

-----------------------------------------------------------------------------
(* The delivery.                                                           *)

\* What goes to the dead letters is unreadable, and never reaches the sink.
DeadAreUnreadable ==
    /\ loop = "dlq" => Current \in Unreadable
    /\ seen \cap Unreadable = {}

LEMMA DeadStep ==
    ASSUME IInv, DeadAreUnreadable, [Next]_vars PROVE DeadAreUnreadable'
<1>1. CASE Publish \/ Take \/ BreakOnStop \/ SendToDlq \/ DlqFails \/ Killed \/ Restart
  BY <1>1 DEF Publish, Take, BreakOnStop, SendToDlq, DlqFails, Killed, Restart, ProcessEnds,
     sinkVars, DeadAreUnreadable, Current
<1>2. CASE Handle
  <2>1. Current' = Current
    BY <1>2 DEF Handle, consumerVars, Current
  <2>2. QED
    BY <1>2, <2>1 DEF Handle, DeadAreUnreadable
<1>3. CASE AppendRow
  BY <1>3 DEF AppendRow, DeadAreUnreadable
<1>4. CASE AutoCommit \/ Stop \/ CallFlush \/ Insert \/ UNCHANGED vars
  BY <1>4 DEF AutoCommit, Stop, CallFlush, Insert, consumerVars, sinkVars, vars,
     DeadAreUnreadable, Current
<1>5. ASSUME NEW reached \in BOOLEAN, InsertFails(reached) PROVE DeadAreUnreadable'
  BY <1>5 DEF InsertFails, Release, GoOn, consumerVars, DeadAreUnreadable, Current
<1>6. CASE ClearBuffer
  BY <1>6 DEF ClearBuffer, Release, GoOn, consumerVars, DeadAreUnreadable, Current
<1>7. QED
  BY <1>1, <1>2, <1>3, <1>4, <1>5, <1>6 DEF Next, LoopStep, FlushStep

Held == Buffered \cup InHand

Unseen == <<published, loop # "over", pos, committed, Held, stored, dlq, lost, skipped,
            failures + restarts>>

\* What is held is in the buffers and the hand of the loop, and nowhere else.
LEMMA HeldRests ==
    ASSUME UNCHANGED <<pos, loop, buffer>>
    PROVE  Held' = Held /\ (loop # "over")' = (loop # "over")
  BY DEF Held, Buffered, Elements, InHand

LEMMA DeliveryReads ==
    ASSUME PipelineAssumption, IInv, DeadAreUnreadable, Take \/ AutoCommit \/ Handle \/ SendToDlq
    PROVE  Delivery!Next \/ UNCHANGED Unseen
<1>1. CASE Take
  <2>1. /\ loop = "polling" /\ loop' = "handling" /\ pos <= published /\ pos' = pos + 1
        /\ pos'- 1 = pos
        /\ UNCHANGED <<published, skipped, committed, buffer, stored, dlq, lost, failures, restarts>>
    BY <1>1 DEF Take, sinkVars, faultVars, IInv, TypeOK
  <2>2. Held' = Held \cup {Log[pos]}
    BY <2>1 DEF Held, Buffered, Elements, InHand
  <2>3. Delivery!Read
    BY <2>1, <2>2 DEF Delivery!Read, Held
  <2>4. QED
    BY <2>3 DEF Delivery!Next
<1>2. CASE AutoCommit
  <2>1. /\ loop # "over" /\ committed' = pos
        /\ UNCHANGED <<published, skipped, pos, loop, buffer, stored, dlq, lost, failures, restarts>>
    BY <1>2 DEF AutoCommit, sinkVars, faultVars
  <2>2. Delivery!Acknowledge
    BY <2>1, HeldRests DEF Delivery!Acknowledge, Held
  <2>3. QED
    BY <2>2 DEF Delivery!Next
<1>3. CASE Handle
  <2>1. /\ loop = "handling" /\ loop' \in {"dlq", "polling", "waiting"} /\ InHand = {Current}
        /\ UNCHANGED <<published, skipped, pos, committed, buffer, stored, dlq, lost, failures, restarts>>
    BY <1>3 DEF Handle, consumerVars, faultVars, InHand, Current
  <2>2. Buffered' = Buffered
    BY <2>1 DEF Buffered, Elements
  <2>3. CASE loop' \in {"dlq", "waiting"}
    <3>1. InHand' = InHand
      BY <2>1, <2>3 DEF InHand
    <3>2. QED
      BY <2>1, <2>2, <2>3, <3>1 DEF Unseen, Held
  <2>4. CASE loop' = "polling"
    <3>1. InHand' = {}
      BY <2>4 DEF InHand
    <3>2. Current \in Malformed \cup seen
      BY <1>3, <2>4 DEF Handle
    <3>3. Current \in Malformed \cup Buffered \/ stored[Current] > 0
      BY <2>1, <3>2 DEF IInv, SeenHasFate
    <3>4. Held' = Buffered /\ Held = Buffered \cup {Current}
      BY <2>1, <2>2, <3>1 DEF Held
    <3>5. /\ Held' \in SUBSET Held
          /\ \A e \in Held \ Held' : e \in Malformed \/ stored[e] > 0
      BY <3>3, <3>4
    <3>6. Delivery!LetGo
      BY <2>1, <2>4, <3>5 DEF Delivery!LetGo, Held
    <3>7. QED
      BY <3>6 DEF Delivery!Next
  <2>5. QED
    BY <2>1, <2>3, <2>4
<1>4. CASE SendToDlq
  <2>1. /\ loop = "dlq" /\ loop' = "polling" /\ dlq' = dlq \cup {Current}
        /\ UNCHANGED <<published, skipped, pos, committed, buffer, stored, lost, failures, restarts>>
    BY <1>4 DEF SendToDlq, sinkVars, faultVars
  <2>2. Buffered' = Buffered /\ InHand = {Current} /\ InHand' = {}
    BY <2>1 DEF Buffered, Elements, InHand, Current
  <2>3. Current \in Unreadable /\ Current \notin Buffered /\ Current \in Events
    BY <2>1, InHandTyped DEF DeadAreUnreadable, IInv, RowsAreDistinct
  <2>4. Held' = Held \ {Current} /\ Current \in Held \cap Unreadable
    BY <2>2, <2>3 DEF Held
  <2>5. Delivery!Bury(Current)
    BY <2>1, <2>4 DEF Delivery!Bury, Held
  <2>6. QED
    BY <2>3, <2>5 DEF Delivery!Next
<1>5. QED
  BY <1>1, <1>2, <1>3, <1>4

LEMMA DeliveryStores ==
    ASSUME PipelineAssumption, IInv, AppendRow \/ FlushStep
    PROVE  Delivery!Next \/ UNCHANGED Unseen
<1>1. CASE AppendRow
  <2>1. UNCHANGED <<published, skipped, pos, committed, stored, dlq, lost, failures, restarts>>
    BY <1>1 DEF AppendRow, consumerVars, faultVars
  <2>2. Held' = Held /\ loop # "over" /\ loop' # "over"
    BY <1>1, AppendRowMoves DEF Held
  <2>3. QED
    BY <2>1, <2>2 DEF Unseen
<1>2. ASSUME InsertDue
      PROVE  /\ Rows[flush.next] \in Events /\ Rows[flush.next] \in Held
             /\ stored[Rows[flush.next]] <= failures + restarts /\ loop # "over"
  <2>1. /\ lock # "none" /\ Rows[flush.next] \in Events
        /\ Rows[flush.next] \in Buffered /\ Rows[flush.next] \in Pending
    BY <1>2, DueRow DEF IInv
  <2>2. loop # "over"
    BY <2>1 DEF IInv, LockAgrees
  <2>3. QED
    BY <2>1, <2>2 DEF IInv, PendingIsBelow, Held
<1>3. CASE Insert
  <2>1. PICK e : e = Rows[flush.next]
    OBVIOUS
  <2>2. /\ e \in Events /\ e \in Held /\ stored[e] <= failures + restarts /\ loop # "over"
        /\ stored' = [stored EXCEPT ![e] = @ + 1]
        /\ UNCHANGED <<published, skipped, pos, committed, loop, buffer, dlq, lost, failures, restarts>>
    BY <1>2, <1>3, <2>1 DEF Insert, consumerVars, faultVars
  <2>3. Held' = Held
    BY <2>2, HeldRests
  <2>4. Delivery!Store(e)
    BY <2>2, <2>3 DEF Delivery!Store, Delivery!OneRowMore, Held
  <2>5. QED
    BY <2>2, <2>4 DEF Delivery!Next
<1>4. ASSUME NEW reached \in BOOLEAN, InsertFails(reached)
      PROVE  Delivery!Next
  <2>1. PICK e : e = Rows[flush.next]
    OBVIOUS
  <2>2. /\ e \in Events /\ e \in Held /\ stored[e] <= failures + restarts /\ loop # "over"
        /\ stored' \in {stored, [stored EXCEPT ![e] = @ + 1]} /\ failures' = failures + 1
        /\ UNCHANGED <<published, skipped, pos, committed, buffer, dlq, lost, restarts>>
        /\ lock \in {"loop", "flusher"} /\ loop' = IF lock = "loop" THEN "polling" ELSE loop
    BY <1>2, <1>4, <2>1 DEF InsertFails, InsertDue, Release, GoOn, consumerVars
  <2>3. InHand' = InHand /\ loop' # "over"
    BY <2>2 DEF InHand, IInv, LockAgrees
  <2>4. Held' = Held
    BY <2>2, <2>3 DEF Held, Buffered, Elements
  <2>5. failures' + restarts' = (failures + restarts) + 1
    BY <2>2 DEF IInv, TypeOK
  <2>6. Delivery!StoreFails(e)
    BY <2>2, <2>3, <2>4, <2>5 DEF Delivery!StoreFails, Delivery!OneRowMore, Held
  <2>7. QED
    BY <2>2, <2>6 DEF Delivery!Next
<1>5. CASE ClearBuffer
  <2>1. UNCHANGED <<published, skipped, pos, committed, stored, dlq, lost, failures, restarts>>
    BY <1>5 DEF ClearBuffer, consumerVars, faultVars
  <2>2. /\ Buffered' = Buffered \ Inserted /\ InHand' = InHand
        /\ loop # "over" /\ loop' # "over"
    BY <1>5, ClearBufferMoves
  <2>3. \A e \in Inserted : stored[e] > 0
    BY DEF IInv, InsertedIsStored
  <2>4. Held' \in SUBSET Held /\ \A e \in Held \ Held' : stored[e] > 0
    BY <2>2, <2>3 DEF Held
  <2>5. Delivery!LetGo
    BY <2>1, <2>2, <2>4 DEF Delivery!LetGo, Held
  <2>6. QED
    BY <2>5 DEF Delivery!Next
<1>6. QED
  BY <1>1, <1>3, <1>4, <1>5 DEF FlushStep

LEMMA DeliveryEnds ==
    ASSUME PipelineAssumption, IInv, BreakOnStop \/ DlqFails \/ Killed \/ Restart
    PROVE  Delivery!Next
<1>1. ASSUME NEW n \in {0, 1}, NEW held, NEW c \in {committed, pos'},
             loop # "over", ProcessEnds(held, c), pos' = pos + n, pos + n <= published + 1,
             held = Held \cup {Log[i] : i \in pos..pos' - 1}
      PROVE  Delivery!Next
  <2>1. /\ loop' = "over" /\ committed' = c
        /\ lost' = lost \cup {e \in held : stored[e] = 0 /\ e \notin ToRead(c)}
        /\ UNCHANGED <<published, skipped, dlq, stored, failures, restarts>>
    BY <1>1 DEF ProcessEnds
  <2>2. Held' = {}
    <3>1. buffer' = EmptyBuffers
      BY <1>1 DEF ProcessEnds
    <3>2. Buffered' = {}
      BY <3>1 DEF EmptyBuffers, Buffered, Elements
    <3>3. QED
      BY <2>1, <3>2 DEF Held, InHand
  <2>3. \A e : e \notin ToRead(c) <=> ~Delivery!Awaits(e, c)
    BY DEF ToRead, Delivery!Awaits
  <2>4. lost' = lost \cup {e \in Held \cup {Log[i] : i \in pos..pos' - 1} :
                              stored[e] = 0 /\ ~Delivery!Awaits(e, committed')}
    BY <1>1, <2>1, <2>3
  <2>5. Delivery!End(n)
    BY <1>1, <2>1, <2>2, <2>4 DEF Delivery!End, Held
  <2>6. QED
    BY <2>5 DEF Delivery!Next
<1>2. CASE BreakOnStop
  <2>1. /\ loop = "polling" /\ pos <= published /\ pos' = pos + 1
        /\ ProcessEnds(Buffered \cup {Log[pos]}, pos + 1)
    BY <1>2 DEF BreakOnStop
  <2>2. pos..pos' - 1 = {pos} /\ pos + 1 <= published + 1
    BY <2>1 DEF IInv, TypeOK
  <2>3. Buffered \cup {Log[pos]} = Held \cup {Log[i] : i \in pos..pos' - 1}
    BY <2>1, <2>2 DEF Held, InHand
  <2>4. QED
    BY <1>1, <2>1, <2>2, <2>3
<1>3. CASE DlqFails \/ Killed
  <2>1. /\ loop # "over" /\ pos' = pos
        /\ \E c \in {committed, pos} : ProcessEnds(Held, c)
    BY <1>3 DEF DlqFails, Killed, Held
  <2>2. pos + 0 = pos /\ pos <= published + 1 /\ pos..pos' - 1 = {}
    BY <2>1 DEF IInv, TypeOK
  <2>3. Held = Held \cup {Log[i] : i \in pos..pos' - 1}
    BY <2>2
  <2>4. QED
    BY <1>1, <2>1, <2>2, <2>3
<1>4. CASE Restart
  <2>1. /\ loop = "over" /\ loop' = "polling" /\ restarts' = restarts + 1
        /\ IF committed = 0
             THEN pos' = published + 1 /\ skipped' = skipped \cup pos..published
             ELSE pos' = committed /\ skipped' = skipped
        /\ UNCHANGED <<published, committed, buffer, stored, dlq, lost, failures>>
    BY <1>4 DEF Restart, StartsAt, sinkVars
  <2>2. Held' = Held
    BY <2>1 DEF Held, Buffered, Elements, InHand
  <2>3. failures' + restarts' = (failures + restarts) + 1
    BY <2>1 DEF IInv, TypeOK
  <2>4. Delivery!Begin
    BY <2>1, <2>2, <2>3 DEF Delivery!Begin, Held
  <2>5. QED
    BY <2>4 DEF Delivery!Next
<1>5. QED
  BY <1>2, <1>3, <1>4

\* Every step of the loop, of a flush or of a process is one of the delivery, or
\* not seen in it.
LEMMA DeliveryStep ==
    ASSUME PipelineAssumption, IInv, DeadAreUnreadable, [Next]_vars
    PROVE  [Delivery!Next]_(Delivery!dvars)
<1>1. Delivery!Next \/ UNCHANGED Unseen
  <2>1. CASE Stop \/ CallFlush \/ UNCHANGED vars
    <3>1. UNCHANGED <<published, skipped, pos, committed, loop, buffer, stored, dlq, lost, failures, restarts>>
      BY <2>1 DEF Stop, CallFlush, vars, consumerVars, sinkVars, faultVars
    <3>2. QED
      BY <3>1, HeldRests DEF Unseen
  <2>2. CASE Publish
    <3>1. /\ published < Len(Log) /\ published' = published + 1
          /\ UNCHANGED <<skipped, pos, committed, loop, buffer, stored, dlq, lost, failures, restarts>>
      BY <2>2 DEF Publish, sinkVars, faultVars
    <3>2. Delivery!Publish
      BY <3>1, HeldRests DEF Delivery!Publish, Held
    <3>3. QED
      BY <3>2 DEF Delivery!Next
  <2>3. QED
    BY <2>1, <2>2, DeliveryReads, DeliveryStores, DeliveryEnds DEF Next, LoopStep
<1>2. QED
  BY <1>1 DEF Unseen, Held, Delivery!dvars

\* Consumer and sink, whatever their tasks do to each other and wherever a process
\* ends, deliver as EventDelivery promises: an event that was read is held until it
\* is stored, dead lettered or malformed, stored once more than there were faults at
\* most, and given up only with the process that held it.
THEOREM EventsAreDelivered == Spec => ImplementsDelivery
<1>1. Init => IInv /\ DeadAreUnreadable
  BY PipelineAssumption, InitIInv DEF Init, DeadAreUnreadable
<1>2. IInv /\ DeadAreUnreadable /\ [Next]_vars => (IInv /\ DeadAreUnreadable)'
  BY PipelineAssumption, NextIInv, DeadStep
<1>3. Init => Delivery!Init
  <2>1. ASSUME Init PROVE Buffered \cup InHand = {} /\ failures + restarts = 0
    BY <2>1, NothingBuffered DEF Init, InHand
  <2>2. QED
    BY <2>1 DEF Init, Delivery!Init
<1>4. IInv /\ DeadAreUnreadable /\ [Next]_vars => [Delivery!Next]_(Delivery!dvars)
  BY PipelineAssumption, DeliveryStep
<1>5. QED
  BY <1>1, <1>2, <1>3, <1>4, PTL DEF Spec, ImplementsDelivery, Delivery!Spec
=============================================================================
