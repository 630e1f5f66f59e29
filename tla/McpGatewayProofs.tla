-------------------------- MODULE McpGatewayProofs --------------------------
(***************************************************************************)
(* Proofs about McpGateway for every set of tenants, primary keys and      *)
(* callers, every limit, and whichever provider stands behind it.          *)
(*                                                                         *)
(* The limit is kept because the counter is: it never exceeds Limit, for a *)
(* caller writes one more than it read below Limit. And the counter is the *)
(* number of calls let through, until a write falls on a read it does not  *)
(* know of.                                                                *)
(*                                                                         *)
(* The audit is an account of answers: an integration that ends a call     *)
(* puts an answer in its caller's hands, and the answer leaves them as a   *)
(* row or with the caller. So the invariant follows who holds what.        *)
(***************************************************************************)
EXTENDS McpGateway, FiniteSetTheorems, TLAPS

\* Every caller is somewhere; one that has read the counter holds what it read.
CallersOK ==
    /\ DOMAIN caller = Callers
    /\ \A c \in Callers : "pc" \in DOMAIN caller[c]
    /\ \A c \in Callers :
          At(c, "counted") => caller[c].key \in Keys /\ caller[c].n \in 0..(Limit - 1)

CountersOK ==
    /\ minute \in Minutes
    /\ pk \in [Tenants -> Pks]
    /\ counter \in [Keys -> 0..Limit]
    /\ passed \in [Keys -> Nat]
    /\ overlapped \subseteq Keys

\* Without overlap, the counter counts.
CounterCounts == \A k \in Keys : k \notin overlapped => passed[k] = counter[k]

IInv == CallersOK /\ CountersOK /\ CounterCounts

-----------------------------------------------------------------------------
\* A caller that goes elsewhere, and not to "counted", leaves the others alone.
LEMMA CallerMoves ==
    ASSUME CallersOK, NEW c \in Callers, NEW to,
           caller' = [caller EXCEPT ![c] = to], "pc" \in DOMAIN to, to.pc # "counted"
    PROVE  CallersOK'
  BY DEF CallersOK, At, Keys, Minutes

LEMMA CallerSteps ==
    ASSUME CallersOK, NEW c \in Callers, NEW pc, pc # "counted", To(c, pc)
    PROVE  CallersOK'
<1>1. caller' = [caller EXCEPT ![c] = [caller[c] EXCEPT !.pc = pc]]
  BY DEF To
<1>2. /\ "pc" \in DOMAIN [caller[c] EXCEPT !.pc = pc]
      /\ [caller[c] EXCEPT !.pc = pc].pc = pc
  BY DEF CallersOK
<1>3. QED
  BY <1>1, <1>2, CallerMoves

LEMMA CallerRaises == ASSUME CallersOK, NEW c \in Callers, Raise(c) PROVE CallersOK'
<1>1. "pc" \in DOMAIN Idle /\ Idle.pc # "counted"
  BY DEF Idle
<1>2. QED
  BY <1>1, CallerMoves DEF Raise

LEMMA CallerReturns == ASSUME CallersOK, NEW c \in Callers, Return(c) PROVE CallersOK'
<1> DEFINE to == [pc |-> IF caller[c].turn < Turns THEN "between" ELSE "done",
                  turn |-> caller[c].turn + 1, tenant |-> caller[c].tenant]
<1>1. caller' = [caller EXCEPT ![c] = to]
  BY DEF Return
<1>2. "pc" \in DOMAIN to /\ to.pc # "counted"
  OBVIOUS
<1>3. QED
  BY <1>1, <1>2, CallerMoves

LEMMA CallerEnded ==
    ASSUME CallersOK, NEW c \in Callers, NEW ok, Ended(c, ok) PROVE CallersOK'
<1> DEFINE to == [pc |-> "answered", turn |-> caller[c].turn,
                  tenant |-> caller[c].tenant, ok |-> ok]
<1>1. caller' = [caller EXCEPT ![c] = to]
  BY DEF Ended
<1>2. "pc" \in DOMAIN to /\ to.pc # "counted"
  OBVIOUS
<1>3. QED
  BY <1>1, <1>2, CallerMoves

\* What touches neither the counters nor the clock keeps them.
LEMMA CountersKeep ==
    ASSUME CountersOK, CounterCounts, UNCHANGED <<fixed, minute, counting>>
    PROVE  CountersOK' /\ CounterCounts'
  BY DEF CountersOK, CounterCounts, counting, fixed, Keys, Minutes

-----------------------------------------------------------------------------
LEMMA InitOK == Init => IInv
<1> SUFFICES ASSUME Init PROVE IInv
    OBVIOUS
<1> USE GatewayAssumption
<1>1. CallersOK
  BY DEF Init, CallersOK, At, Idle
<1>2. CountersOK /\ CounterCounts
  BY DEF Init, CountersOK, CounterCounts, Minutes
<1>3. QED
  BY <1>1, <1>2 DEF IInv

\* _enforce_rate_limit: the read, and the write.
LEMMA CountStep ==
    ASSUME IInv, NEW c \in Callers, NEW t \in Tenants, Count(c, t) PROVE IInv'
<1> USE GatewayAssumption DEF IInv
<1> DEFINE to == [pc |-> "counted", turn |-> caller[c].turn, tenant |-> t,
                  key |-> KeyOf(t), n |-> counter[KeyOf(t)]]
<1>1. CountersOK' /\ CounterCounts'
  BY CountersKeep DEF Count
<1>2. KeyOf(t) \in Keys
  BY DEF KeyOf, Keys, CountersOK
<1>3. counter[KeyOf(t)] \in 0..(Limit - 1)
  BY <1>2 DEF Count, Full, CountersOK
<1>4. caller' = [caller EXCEPT ![c] = to]
  BY DEF Count
<1>5. "pc" \in DOMAIN to /\ to.key \in Keys /\ to.n \in 0..(Limit - 1)
  BY <1>2, <1>3
<1>6. CallersOK'
  BY <1>4, <1>5 DEF CallersOK, At, Keys, Minutes
<1>7. QED
  BY <1>1, <1>6

LEMMA CountUpStep == ASSUME IInv, NEW c \in Callers, CountUp(c) PROVE IInv'
<1> USE GatewayAssumption DEF IInv
<1> DEFINE key == caller[c].key
           n == caller[c].n
<1>1. key \in Keys /\ n \in 0..(Limit - 1)
  BY DEF CountUp, Step, CallersOK
<1>2. /\ counter' = [counter EXCEPT ![key] = n + 1]
      /\ overlapped' = IF counter[key] # n THEN overlapped \cup {key} ELSE overlapped
      /\ passed' = [passed EXCEPT ![key] = @ + 1]
      /\ UNCHANGED <<minute, pk>>
  BY DEF CountUp, fixed
<1>3. CallersOK'
  BY CallerSteps DEF CountUp, Step
<1>4. CountersOK'
  BY <1>1, <1>2 DEF CountersOK, Keys, Minutes
<1>5. CounterCounts'
  <2> SUFFICES ASSUME NEW k \in Keys, k \notin overlapped' PROVE passed'[k] = counter'[k]
      BY DEF CounterCounts, Keys, Minutes
  <2>1. k \notin overlapped /\ passed[k] = counter[k]
    BY <1>2 DEF CounterCounts
  <2>2. CASE k = key
    BY <1>1, <1>2, <2>1, <2>2 DEF CountersOK
  <2>3. CASE k # key
    BY <1>1, <1>2, <2>1, <2>3 DEF CountersOK
  <2>4. QED
    BY <2>2, <2>3
<1>6. QED
  BY <1>3, <1>4, <1>5

\* The gateway keeps the invariant.
LEMMA GatewayStep == ASSUME IInv, NEW c \in Callers, Gateway(c) PROVE IInv'
<1> USE DEF IInv
<1>1. ASSUME NEW t \in Tenants, Count(c, t) PROVE IInv'
  BY <1>1, CountStep
<1>2. ASSUME NEW t \in Tenants, Refuse(c, t) PROVE IInv'
  BY <1>2, CallerRaises, CountersKeep DEF Refuse
<1>3. CASE CountUp(c)
  BY <1>3, CountUpStep
<1>4. CASE ReadCredential(c)
  <2>1. Return(c) \/ Raise(c) \/ To(c, "expiring") \/ To(c, "ready")
    BY <1>4 DEF ReadCredential
  <2>2. CallersOK'
    BY <2>1, CallerReturns, CallerRaises, CallerSteps
  <2>3. QED
    BY <1>4, <2>2, CountersKeep DEF ReadCredential
<1>5. CASE RenewEarly(c)
  <2>1. CallersOK'
    BY <1>5, CallerRaises, CallerSteps DEF RenewEarly
  <2>2. QED
    BY <1>5, <2>1, CountersKeep DEF RenewEarly
<1>6. CASE SaveRenewed(c)
  BY <1>6, CallerSteps, CountersKeep DEF SaveRenewed, Step
<1>7. CASE Audit(c)
  BY <1>7, CallerReturns, CountersKeep DEF Audit
<1>8. QED
  BY <1>1, <1>2, <1>3, <1>4, <1>5, <1>6, <1>7 DEF Gateway, Enforce

\* What the integrations do is no concern of the counters.
LEMMA EndedStep == ASSUME IInv, NEW c \in Callers, NEW ok, Ended(c, ok) PROVE IInv'
  BY CallerEnded, CountersKeep DEF Ended, IInv

LEMMA IntegrationStep == ASSUME IInv, NEW c \in Callers, Integration(c) PROVE IInv'
<1> USE DEF IInv
<1>1. CASE Ask(c)
  <2>1. (To(c, "asked") /\ UNCHANGED <<fixed, minute, cred, counting, auditing>>)
        \/ Ended(c, FALSE)
    BY <1>1 DEF Ask
  <2>2. CASE To(c, "asked") /\ UNCHANGED <<fixed, minute, cred, counting, auditing>>
    BY <2>2, CallerSteps, CountersKeep
  <2>3. QED
    BY <2>1, <2>2, EndedStep
<1>2. CASE Unauthorised(c)
  BY <1>2, CallerSteps, CountersKeep DEF Unauthorised, Step
<1>3. CASE Answer(c)
  BY <1>3, EndedStep DEF Answer
<1>4. CASE RenewFails(c)
  BY <1>4, EndedStep DEF RenewFails
<1>5. CASE Renew(c)
  BY <1>5, CallerSteps, CountersKeep DEF Renew, Step
<1>6. CASE SaveTokens(c)
  BY <1>6, CallerSteps, CountersKeep DEF SaveTokens, Step
<1>7. QED
  BY <1>1, <1>2, <1>3, <1>4, <1>5, <1>6 DEF Integration

LEMMA IdleOK == ASSUME CallersOK, NEW c \in Callers, caller' = [caller EXCEPT ![c] = Idle]
                PROVE  CallersOK'
  BY CallerRaises DEF Raise

LEMMA InvStep == IInv /\ [Next]_vars => IInv'
<1> SUFFICES ASSUME IInv, [Next]_vars PROVE IInv'
    OBVIOUS
<1>1. ASSUME NEW t \in Tenants, CreateCredential(t) \/ StoreTokens(t) \/ ExpiresSoon(t)
      PROVE  IInv'
  <2>1. UNCHANGED <<fixed, minute, caller, counting>>
    BY <1>1 DEF CreateCredential, StoreTokens, ExpiresSoon
  <2>2. CallersOK'
    BY <2>1 DEF IInv, CallersOK, At, Keys, Minutes
  <2>3. QED
    BY <2>1, <2>2, CountersKeep DEF IInv
<1>2. CASE NextMinute
  <2>1. CallersOK'
    BY <1>2 DEF IInv, CallersOK, At, Keys, Minutes, NextMinute
  <2>2. minute' \in Minutes
    BY <1>2, GatewayAssumption DEF IInv, CountersOK, Minutes, NextMinute
  <2>3. QED
    BY <1>2, <2>1, <2>2 DEF IInv, CountersOK, CounterCounts, Keys, Minutes, NextMinute,
       counting, fixed
<1>3. ASSUME NEW c \in Callers, Gateway(c) PROVE IInv'
  BY <1>3, GatewayStep
<1>4. ASSUME NEW c \in Callers, Integration(c) PROVE IInv'
  BY <1>4, IntegrationStep
<1>5. ASSUME NEW c \in Callers, End(c) \/ Die(c) PROVE IInv'
  <2>1. caller' = [caller EXCEPT ![c] = Idle] /\ UNCHANGED <<fixed, minute, counting>>
    BY <1>5 DEF End, Die
  <2>2. QED
    BY <2>1, IdleOK, CountersKeep DEF IInv
<1>6. CASE UNCHANGED vars
  <2>1. UNCHANGED <<fixed, minute, caller, counting>>
    BY <1>6 DEF vars, fixed, counting
  <2>2. CallersOK'
    BY <2>1 DEF IInv, CallersOK, At, Keys, Minutes
  <2>3. QED
    BY <2>1, <2>2, CountersKeep DEF IInv
<1>7. QED
  BY <1>1, <1>2, <1>3, <1>4, <1>5, <1>6 DEF Next

\* No more calls pass for a key than the limit allows, as long as no two of
\* them overlap between the read and the write of its counter.
THEOREM LimitIsKept == Spec => []LimitHoldsWithoutOverlap
<1>1. IInv => LimitHoldsWithoutOverlap
  BY GatewayAssumption DEF IInv, CountersOK, CounterCounts, LimitHoldsWithoutOverlap
<1>2. QED
  BY <1>1, InitOK, InvStep, PTL DEF Spec

-----------------------------------------------------------------------------
(* The audit.                                                              *)

\* A caller in a call holds its tenant, one with an answer holds how it ended.
HoldersOK ==
    /\ DOMAIN caller = Callers
    /\ \A c \in Callers :
          /\ "pc" \in DOMAIN caller[c]
          /\ ~At(c, "idle") => "tenant" \in DOMAIN caller[c] /\ caller[c].tenant \in Tenants
          /\ At(c, "answered") => caller[c].ok \in BOOLEAN

Tally == [Tenants -> [BOOLEAN -> Nat]]

TalliesOK == rows \in Tally /\ made \in Tally /\ lost \in Tally

AuditInv == HoldersOK /\ TalliesOK /\ CallsAreAudited

\* One more in a tally.
OneMore(f, t, ok) == [f EXCEPT ![t][ok] = @ + 1]

LEMMA OneMoreTallied ==
    ASSUME NEW f \in Tally, NEW t \in Tenants, NEW ok \in BOOLEAN
    PROVE  /\ OneMore(f, t, ok) \in Tally
           /\ \A s \in Tenants, k \in BOOLEAN :
                 OneMore(f, t, ok)[s][k] = IF t = s /\ ok = k THEN f[s][k] + 1 ELSE f[s][k]
<1> DEFINE g == OneMore(f, t, ok)
           row == [f[t] EXCEPT ![ok] = f[t][ok] + 1]
<1>1. f[t] \in [BOOLEAN -> Nat] /\ f[t][ok] \in Nat
  BY DEF Tally
<1>2. g = [f EXCEPT ![t] = row]
  BY DEF OneMore
<1>3. row \in [BOOLEAN -> Nat]
  BY <1>1
<1>4. \A s \in Tenants : g[s] = IF t = s THEN row ELSE f[s]
  BY <1>2 DEF Tally
<1>5. SUFFICES ASSUME NEW s \in Tenants, NEW k \in BOOLEAN
               PROVE  g[s][k] = IF t = s /\ ok = k THEN f[s][k] + 1 ELSE f[s][k]
  BY <1>2, <1>3 DEF Tally
<1>6. CASE t = s
  BY <1>1, <1>4, <1>6
<1>7. CASE t # s
  BY <1>4, <1>7
<1>8. QED
  BY <1>6, <1>7

\* The answers in hand, as a function.
Holders == [t \in Tenants |-> [ok \in BOOLEAN |-> Answered(t, ok)]]

LEMMA AuditedHolders ==
    CallsAreAudited <=> \A t \in Tenants, ok \in BOOLEAN :
                           made[t][ok] = rows[t][ok] + lost[t][ok] + Cardinality(Holders[t][ok])
  BY DEF CallsAreAudited, Holders

LEMMA HoldersFinite ==
    \A t \in Tenants, ok \in BOOLEAN :
       IsFiniteSet(Holders[t][ok]) /\ Cardinality(Holders[t][ok]) \in Nat
<1> TAKE t \in Tenants, ok \in BOOLEAN
<1>1. Holders[t][ok] \subseteq Callers
  BY DEF Holders, Answered
<1>2. QED
  BY <1>1, GatewayAssumption, FS_Subset, FS_CardinalityType

LEMMA AuditInit == Init => AuditInv
<1> SUFFICES ASSUME Init PROVE AuditInv
  OBVIOUS
<1>1. HoldersOK
  BY DEF Init, HoldersOK, At, Idle
<1>2. TalliesOK
  BY DEF Init, TalliesOK, Tally
<1>3. CallsAreAudited
  <2>1. SUFFICES ASSUME NEW t \in Tenants, NEW ok \in BOOLEAN
                 PROVE  made[t][ok] = rows[t][ok] + lost[t][ok] + Cardinality(Answered(t, ok))
    BY DEF CallsAreAudited
  <2>2. Answered(t, ok) = {}
    BY DEF Init, Answered, At, Idle
  <2>3. made[t][ok] = 0 /\ rows[t][ok] = 0 /\ lost[t][ok] = 0
    BY DEF Init
  <2>4. QED
    BY <2>2, <2>3, FS_EmptySet
<1>4. QED
  BY <1>1, <1>2, <1>3 DEF AuditInv

\* Where a caller goes: idle, or on with its tenant, and how its call ended.
GoesOn(to) ==
    /\ "pc" \in DOMAIN to
    /\ to.pc # "idle" => "tenant" \in DOMAIN to /\ to.tenant \in Tenants
    /\ to.pc = "answered" => to.ok \in BOOLEAN

LEMMA HolderMoves ==
    ASSUME HoldersOK, NEW c \in Callers, NEW to, GoesOn(to), caller' = [caller EXCEPT ![c] = to]
    PROVE  HoldersOK' /\ \A d \in Callers : caller'[d] = IF d = c THEN to ELSE caller[d]
<1>1. \A d \in Callers : caller'[d] = IF d = c THEN to ELSE caller[d]
  BY DEF HoldersOK
<1>2. QED
  BY <1>1 DEF HoldersOK, GoesOn, At

\* Who holds which answer then: the same callers, or c too, or c no more.
LEMMA NobodyAnswered ==
    ASSUME NEW c \in Callers, NEW to, ~At(c, "answered"), to.pc # "answered",
           \A d \in Callers : caller'[d] = IF d = c THEN to ELSE caller[d]
    PROVE  Holders' = Holders
<1>1. SUFFICES ASSUME NEW t \in Tenants, NEW ok \in BOOLEAN
               PROVE  Answered(t, ok)' = Answered(t, ok)
  BY DEF Holders
<1>2. QED
  BY DEF Answered, At

LEMMA CallerAnswered ==
    ASSUME NEW c \in Callers, NEW to, ~At(c, "answered"), to.pc = "answered",
           \A d \in Callers : caller'[d] = IF d = c THEN to ELSE caller[d],
           NEW t \in Tenants, NEW ok \in BOOLEAN
    PROVE  /\ c \notin Holders[t][ok]
           /\ Holders'[t][ok] = IF to.tenant = t /\ to.ok = ok THEN Holders[t][ok] \cup {c}
                                                               ELSE Holders[t][ok]
<1>1. c \notin Answered(t, ok)
  BY DEF Answered
<1>2. Answered(t, ok)' = IF to.tenant = t /\ to.ok = ok THEN Answered(t, ok) \cup {c} ELSE Answered(t, ok)
  BY DEF Answered, At
<1>3. QED
  BY <1>1, <1>2 DEF Holders

LEMMA AnswerLeaves ==
    ASSUME NEW c \in Callers, NEW to, At(c, "answered"), to.pc # "answered",
           \A d \in Callers : caller'[d] = IF d = c THEN to ELSE caller[d],
           NEW t \in Tenants, NEW ok \in BOOLEAN
    PROVE  IF caller[c].tenant = t /\ caller[c].ok = ok
             THEN c \in Holders[t][ok] /\ Holders'[t][ok] = Holders[t][ok] \ {c}
             ELSE Holders'[t][ok] = Holders[t][ok]
<1>1. CASE caller[c].tenant = t /\ caller[c].ok = ok
  <2>1. c \in Answered(t, ok) /\ Answered(t, ok)' = Answered(t, ok) \ {c}
    BY <1>1 DEF Answered, At
  <2>2. QED
    BY <1>1, <2>1 DEF Holders
<1>2. CASE ~(caller[c].tenant = t /\ caller[c].ok = ok)
  <2>1. Answered(t, ok)' = Answered(t, ok)
    BY <1>2 DEF Answered, At
  <2>2. QED
    BY <1>2, <2>1 DEF Holders
<1>3. QED
  BY <1>1, <1>2

\* A step between two states without an answer.
LEMMA QuietMove ==
    ASSUME AuditInv, NEW c \in Callers, ~At(c, "answered"), NEW to, GoesOn(to), to.pc # "answered",
           caller' = [caller EXCEPT ![c] = to], UNCHANGED auditing
    PROVE  AuditInv'
<1>1. HoldersOK' /\ \A d \in Callers : caller'[d] = IF d = c THEN to ELSE caller[d]
  BY HolderMoves DEF AuditInv
<1>2. Holders' = Holders
  BY <1>1, NobodyAnswered
<1>3. CallsAreAudited'
  <2>1. SUFFICES ASSUME NEW t \in Tenants, NEW ok \in BOOLEAN
                 PROVE  made'[t][ok] = rows'[t][ok] + lost'[t][ok] + Cardinality(Holders'[t][ok])
    BY DEF CallsAreAudited, Holders
  <2>2. QED
    BY <1>2, AuditedHolders DEF AuditInv, auditing
<1>4. QED
  BY <1>1, <1>3 DEF AuditInv, TalliesOK, auditing

LEMMA QuietTo ==
    ASSUME AuditInv, NEW c \in Callers, ~At(c, "answered"), ~At(c, "idle"),
           NEW pc, pc \notin {"answered", "idle"}, To(c, pc), UNCHANGED auditing
    PROVE  AuditInv'
<1> DEFINE to == [caller[c] EXCEPT !.pc = pc]
<1>1. caller' = [caller EXCEPT ![c] = to]
  BY DEF To
<1>2. "pc" \in DOMAIN caller[c] /\ "tenant" \in DOMAIN caller[c] /\ caller[c].tenant \in Tenants
  BY DEF AuditInv, HoldersOK
<1>3. GoesOn(to) /\ to.pc # "answered"
  BY <1>2 DEF GoesOn
<1> HIDE DEF to
<1>4. QED
  BY <1>1, <1>3, QuietMove

LEMMA QuietRaise ==
    ASSUME AuditInv, NEW c \in Callers, ~At(c, "answered"),
           caller' = [caller EXCEPT ![c] = Idle], UNCHANGED auditing
    PROVE  AuditInv'
<1>1. GoesOn(Idle) /\ Idle.pc # "answered"
  BY DEF GoesOn, Idle
<1>2. QED
  BY <1>1, QuietMove

\* Return goes where no answer is.
LEMMA ReturnTo ==
    ASSUME HoldersOK, NEW c \in Callers, ~At(c, "idle"), Return(c)
    PROVE  \E to : GoesOn(to) /\ to.pc # "answered" /\ caller' = [caller EXCEPT ![c] = to]
<1> DEFINE to == [pc |-> IF caller[c].turn < Turns THEN "between" ELSE "done",
                  turn |-> caller[c].turn + 1, tenant |-> caller[c].tenant]
<1>1. caller' = [caller EXCEPT ![c] = to]
  BY DEF Return
<1>2. caller[c].tenant \in Tenants
  BY DEF HoldersOK
<1>3. GoesOn(to) /\ to.pc # "answered"
  BY <1>2 DEF GoesOn
<1> HIDE DEF to
<1>4. QED
  BY <1>1, <1>3

\* An answer in the hands of c, and the same call counted as made.
LEMMA EndedAudit ==
    ASSUME AuditInv, NEW c \in Callers, ~At(c, "answered"), ~At(c, "idle"),
           NEW ok \in BOOLEAN, Ended(c, ok)
    PROVE  AuditInv'
<1> DEFINE to == [pc |-> "answered", turn |-> caller[c].turn,
                  tenant |-> caller[c].tenant, ok |-> ok]
           t == caller[c].tenant
<1>1. caller' = [caller EXCEPT ![c] = to] /\ made' = [made EXCEPT ![t][ok] = @ + 1]
      /\ UNCHANGED <<rows, lost>>
  BY DEF Ended
<1>2. t \in Tenants
  BY DEF AuditInv, HoldersOK
<1>3. GoesOn(to) /\ to.pc = "answered" /\ to.tenant = t /\ to.ok = ok
  BY <1>2 DEF GoesOn
<1> HIDE DEF to
<1>4. HoldersOK' /\ \A d \in Callers : caller'[d] = IF d = c THEN to ELSE caller[d]
  BY <1>1, <1>3, HolderMoves DEF AuditInv
<1>5. TalliesOK'
  BY <1>1, <1>2 DEF AuditInv, TalliesOK, Tally
<1>6. CallsAreAudited'
  <2>1. SUFFICES ASSUME NEW s \in Tenants, NEW k \in BOOLEAN
                 PROVE  made'[s][k] = rows'[s][k] + lost'[s][k] + Cardinality(Holders'[s][k])
    BY DEF CallsAreAudited, Holders
  <2>2. made[s][k] = rows[s][k] + lost[s][k] + Cardinality(Holders[s][k])
    BY AuditedHolders DEF AuditInv
  <2>3. made[s][k] \in Nat /\ rows[s][k] \in Nat /\ lost[s][k] \in Nat
    BY DEF AuditInv, TalliesOK, Tally
  <2>4. /\ c \notin Holders[s][k]
        /\ Holders'[s][k] = IF t = s /\ ok = k THEN Holders[s][k] \cup {c} ELSE Holders[s][k]
    BY <1>3, <1>4, CallerAnswered
  <2>5. CASE t = s /\ ok = k
    <3>1. Cardinality(Holders'[s][k]) = Cardinality(Holders[s][k]) + 1
      <4>1. IsFiniteSet(Holders[s][k]) /\ Holders'[s][k] = Holders[s][k] \cup {c}
        BY <2>4, <2>5, HoldersFinite
      <4>2. QED
        BY <2>4, <4>1, FS_AddElement
    <3>2. made'[s][k] = made[s][k] + 1
      BY <1>1, <1>2, <2>5 DEF AuditInv, TalliesOK, Tally
    <3>3. QED
      BY <1>1, <2>2, <2>3, <3>1, <3>2, HoldersFinite
  <2>6. CASE ~(t = s /\ ok = k)
    <3>1. made'[s][k] = made[s][k]
      BY <1>1, <1>2, <2>6 DEF AuditInv, TalliesOK, Tally
    <3>2. QED
      BY <1>1, <2>2, <2>4, <2>6, <3>1
  <2>7. QED
    BY <2>5, <2>6
<1>7. QED
  BY <1>4, <1>5, <1>6 DEF AuditInv

\* An answer leaves the hands of c, and is a row or lost.
LEMMA LeavesAudit ==
    ASSUME AuditInv, NEW c \in Callers, At(c, "answered"), NEW to, GoesOn(to), to.pc # "answered",
           caller' = [caller EXCEPT ![c] = to], made' = made, rows' \in Tally, lost' \in Tally,
           \A s \in Tenants, k \in BOOLEAN :
              rows'[s][k] + lost'[s][k] =
                 IF caller[c].tenant = s /\ caller[c].ok = k THEN rows[s][k] + lost[s][k] + 1
                                                             ELSE rows[s][k] + lost[s][k]
    PROVE  AuditInv'
<1> DEFINE t == caller[c].tenant
           ok == caller[c].ok
<1>1. HoldersOK' /\ \A d \in Callers : caller'[d] = IF d = c THEN to ELSE caller[d]
  <2>1. HoldersOK
    BY DEF AuditInv
  <2>2. QED
    BY <2>1, HolderMoves
<1>2. rows \in Tally /\ made \in Tally /\ lost \in Tally
  BY DEF AuditInv, TalliesOK
<1>3. TalliesOK'
  BY <1>2 DEF TalliesOK
<1>4. CallsAreAudited'
  <2>1. SUFFICES ASSUME NEW s \in Tenants, NEW k \in BOOLEAN
                 PROVE  made[s][k] = rows'[s][k] + lost'[s][k] + Cardinality(Holders'[s][k])
    BY DEF CallsAreAudited, Holders
  <2>2. made[s][k] = rows[s][k] + lost[s][k] + Cardinality(Holders[s][k])
    BY AuditedHolders DEF AuditInv
  <2>3. made[s][k] \in Nat /\ rows[s][k] \in Nat /\ lost[s][k] \in Nat
    BY <1>2 DEF Tally
  <2>4. IF t = s /\ ok = k
          THEN c \in Holders[s][k] /\ Holders'[s][k] = Holders[s][k] \ {c}
          ELSE Holders'[s][k] = Holders[s][k]
    BY <1>1, AnswerLeaves
  <2>5. CASE t = s /\ ok = k
    <3>1. Cardinality(Holders'[s][k]) = Cardinality(Holders[s][k]) - 1
      <4>1. /\ IsFiniteSet(Holders[s][k]) /\ c \in Holders[s][k]
            /\ Holders'[s][k] = Holders[s][k] \ {c}
        BY <2>4, <2>5, HoldersFinite
      <4>2. PICK holders : holders = Holders[s][k]
        OBVIOUS
      <4>3. Cardinality(holders \ {c}) = Cardinality(holders) - 1
        BY <4>1, <4>2, FS_RemoveElement
      <4>4. QED
        BY <4>1, <4>2, <4>3
    <3>2. QED
      <4>1. rows'[s][k] + lost'[s][k] = rows[s][k] + lost[s][k] + 1
        BY <2>5
      <4>2. rows'[s][k] \in Nat /\ lost'[s][k] \in Nat
        BY DEF Tally
      <4>3. QED
        BY <2>2, <2>3, <3>1, <4>1, <4>2, HoldersFinite
  <2>6. CASE ~(t = s /\ ok = k)
    <3>1. rows'[s][k] + lost'[s][k] = rows[s][k] + lost[s][k]
      BY <2>6
    <3>2. QED
      BY <2>2, <2>4, <2>6, <3>1
  <2>7. QED
    BY <2>5, <2>6
<1>5. QED
  BY <1>1, <1>3, <1>4 DEF AuditInv

\* One call, from the read of its counter to its end.
LEMMA GatewayAudit == ASSUME AuditInv, NEW c \in Callers, Gateway(c) PROVE AuditInv'
<1>1. ASSUME NEW t \in Tenants, Count(c, t) PROVE AuditInv'
  <2> DEFINE to == [pc |-> "counted", turn |-> caller[c].turn, tenant |-> t,
                    key |-> KeyOf(t), n |-> counter[KeyOf(t)]]
  <2>1. caller' = [caller EXCEPT ![c] = to] /\ UNCHANGED auditing /\ ~At(c, "answered")
    BY <1>1 DEF Count, Calls, At
  <2>2. GoesOn(to) /\ to.pc # "answered"
    BY DEF GoesOn
  <2> HIDE DEF to
  <2>3. QED
    BY <2>1, <2>2, QuietMove
<1>2. ASSUME NEW t \in Tenants, Refuse(c, t) PROVE AuditInv'
  BY <1>2, QuietRaise DEF Refuse, Calls, At, Raise
<1>3. CASE CountUp(c)
  BY <1>3, QuietTo DEF CountUp, Step, At
<1>4. CASE ReadCredential(c)
  <2>1. At(c, "passed") /\ UNCHANGED auditing
        /\ (Return(c) \/ Raise(c) \/ To(c, "expiring") \/ To(c, "ready"))
    BY <1>4 DEF ReadCredential
  <2>2. ~At(c, "idle") /\ ~At(c, "answered")
    BY <2>1 DEF At
  <2>3. CASE Return(c)
    BY <2>1, <2>2, <2>3, ReturnTo, QuietMove DEF AuditInv
  <2>4. CASE Raise(c)
    BY <2>1, <2>2, <2>4, QuietRaise DEF Raise
  <2>5. CASE To(c, "expiring") \/ To(c, "ready")
    BY <2>1, <2>2, <2>5, QuietTo
  <2>6. QED
    BY <2>1, <2>3, <2>4, <2>5
<1>5. CASE RenewEarly(c)
  <2>1. ~At(c, "idle") /\ ~At(c, "answered") /\ UNCHANGED auditing /\ (To(c, "renewed") \/ Raise(c))
    BY <1>5 DEF RenewEarly, At
  <2>2. QED
    BY <2>1, QuietTo, QuietRaise DEF Raise
<1>6. CASE SaveRenewed(c)
  BY <1>6, QuietTo DEF SaveRenewed, Step, At
<1>7. CASE Audit(c)
  <2>1. /\ At(c, "answered") /\ ~At(c, "idle") /\ Return(c) /\ made' = made /\ lost' = lost
        /\ rows' = OneMore(rows, caller[c].tenant, caller[c].ok)
    BY <1>7 DEF Audit, At, OneMore
  <2>2. PICK to : GoesOn(to) /\ to.pc # "answered" /\ caller' = [caller EXCEPT ![c] = to]
    BY <2>1, ReturnTo DEF AuditInv
  <2>3. rows \in Tally /\ lost \in Tally /\ caller[c].tenant \in Tenants /\ caller[c].ok \in BOOLEAN
    BY <2>1 DEF AuditInv, TalliesOK, HoldersOK
  <2>4. /\ rows' \in Tally
        /\ \A s \in Tenants, k \in BOOLEAN :
              rows'[s][k] = IF caller[c].tenant = s /\ caller[c].ok = k THEN rows[s][k] + 1 ELSE rows[s][k]
    BY <2>1, <2>3, OneMoreTallied
  <2>5. \A s \in Tenants, k \in BOOLEAN : rows[s][k] \in Nat /\ lost[s][k] \in Nat
    BY <2>3 DEF Tally
  <2>6. \A s \in Tenants, k \in BOOLEAN :
           rows'[s][k] + lost'[s][k] =
              IF caller[c].tenant = s /\ caller[c].ok = k THEN rows[s][k] + lost[s][k] + 1
                                                          ELSE rows[s][k] + lost[s][k]
    BY <2>1, <2>4, <2>5
  <2>7. QED
    BY <2>1, <2>2, <2>3, <2>4, <2>6, LeavesAudit
<1>8. QED
  BY <1>1, <1>2, <1>3, <1>4, <1>5, <1>6, <1>7 DEF Gateway, Enforce

LEMMA IntegrationAudit == ASSUME AuditInv, NEW c \in Callers, Integration(c) PROVE AuditInv'
<1>1. CASE Ask(c)
  <2>1. ~At(c, "idle") /\ ~At(c, "answered")
        /\ ((To(c, "asked") /\ UNCHANGED auditing) \/ Ended(c, FALSE))
    BY <1>1 DEF Ask, At
  <2>2. QED
    BY <2>1, QuietTo, EndedAudit
<1>2. CASE Unauthorised(c)
  BY <1>2, QuietTo DEF Unauthorised, Step, At
<1>3. CASE Answer(c)
  <2>1. ~At(c, "idle") /\ ~At(c, "answered") /\ \E ok \in BOOLEAN : Ended(c, ok)
    BY <1>3 DEF Answer, At
  <2>2. QED
    BY <2>1, EndedAudit
<1>4. CASE RenewFails(c)
  <2>1. ~At(c, "idle") /\ ~At(c, "answered") /\ Ended(c, FALSE)
    BY <1>4 DEF RenewFails, At
  <2>2. QED
    BY <2>1, EndedAudit
<1>5. CASE Renew(c)
  BY <1>5, QuietTo DEF Renew, Step, At
<1>6. CASE SaveTokens(c)
  BY <1>6, QuietTo DEF SaveTokens, Step, At
<1>7. QED
  BY <1>1, <1>2, <1>3, <1>4, <1>5, <1>6 DEF Integration

LEMMA AuditStep == AuditInv /\ [Next]_vars => AuditInv'
<1> SUFFICES ASSUME AuditInv, [Next]_vars PROVE AuditInv'
  OBVIOUS
<1>1. ASSUME NEW t \in Tenants, CreateCredential(t) \/ StoreTokens(t) \/ ExpiresSoon(t)
      PROVE  UNCHANGED <<caller, auditing>>
  BY <1>1 DEF CreateCredential, StoreTokens, ExpiresSoon
<1>2. ASSUME NextMinute \/ UNCHANGED vars PROVE UNCHANGED <<caller, auditing>>
  BY <1>2 DEF NextMinute, vars, auditing
<1>3. CASE UNCHANGED <<caller, auditing>>
  <2>1. UNCHANGED <<caller, rows, made, lost>>
    BY <1>3 DEF auditing
  <2>2. HoldersOK' /\ TalliesOK'
    BY <2>1 DEF AuditInv, HoldersOK, TalliesOK, At
  <2>3. Holders' = Holders
    BY <2>1 DEF Holders, Answered, At
  <2>4. CallsAreAudited'
    <3>1. SUFFICES ASSUME NEW t \in Tenants, NEW ok \in BOOLEAN
                   PROVE  made[t][ok] = rows[t][ok] + lost[t][ok] + Cardinality(Holders'[t][ok])
      BY <2>1 DEF CallsAreAudited, Holders
    <3>2. QED
      BY <2>3, AuditedHolders DEF AuditInv
  <2>5. QED
    BY <2>2, <2>4 DEF AuditInv
<1>4. ASSUME NEW c \in Callers, Gateway(c) \/ Integration(c) PROVE AuditInv'
  BY <1>4, GatewayAudit, IntegrationAudit
<1>5. ASSUME NEW c \in Callers, End(c) PROVE AuditInv'
  BY <1>5, QuietRaise DEF End, At
<1>6. ASSUME NEW c \in Callers, Die(c) PROVE AuditInv'
  <2>1. caller' = [caller EXCEPT ![c] = Idle] /\ rows' = rows /\ made' = made
    BY <1>6 DEF Die
  <2>2. CASE At(c, "answered")
    <3>1. lost' = OneMore(lost, caller[c].tenant, caller[c].ok)
      BY <1>6, <2>2 DEF Die, OneMore
    <3>2. GoesOn(Idle) /\ Idle.pc # "answered"
      BY DEF GoesOn, Idle
    <3>3. rows \in Tally /\ lost \in Tally /\ caller[c].tenant \in Tenants /\ caller[c].ok \in BOOLEAN
      BY <2>2 DEF AuditInv, TalliesOK, HoldersOK, At
    <3>4. /\ lost' \in Tally
          /\ \A s \in Tenants, k \in BOOLEAN :
                lost'[s][k] = IF caller[c].tenant = s /\ caller[c].ok = k THEN lost[s][k] + 1 ELSE lost[s][k]
      BY <3>1, <3>3, OneMoreTallied
    <3>5. \A s \in Tenants, k \in BOOLEAN : rows[s][k] \in Nat /\ lost[s][k] \in Nat
      BY <3>3 DEF Tally
    <3>6. \A s \in Tenants, k \in BOOLEAN :
             rows'[s][k] + lost'[s][k] =
                IF caller[c].tenant = s /\ caller[c].ok = k THEN rows[s][k] + lost[s][k] + 1
                                                            ELSE rows[s][k] + lost[s][k]
      BY <2>1, <3>4, <3>5
    <3>7. QED
      BY <2>1, <2>2, <3>2, <3>3, <3>4, <3>6, LeavesAudit
  <2>3. CASE ~At(c, "answered")
    <3>1. UNCHANGED auditing
      BY <1>6, <2>1, <2>3 DEF Die, auditing
    <3>2. QED
      BY <2>1, <2>3, <3>1, QuietRaise
  <2>4. QED
    BY <2>2, <2>3
<1>7. QED
  BY <1>1, <1>2, <1>3, <1>4, <1>5, <1>6 DEF Next

\* Each call an integration has ended is an MCPCall row with the ok it ended
\* with, or an answer that _audit has not reached, or was lost with its caller:
\* no answer is audited twice, and none under another tenant.
THEOREM EveryCallIsAudited == Spec => []CallsAreAudited
<1>1. AuditInv => CallsAreAudited
  BY DEF AuditInv
<1>2. QED
  BY <1>1, AuditInit, AuditStep, PTL DEF Spec
=============================================================================
