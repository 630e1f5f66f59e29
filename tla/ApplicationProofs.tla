------------------------- MODULE ApplicationProofs --------------------------
(***************************************************************************)
(* Proofs about AgentInvocation, for every set of messages, workers and    *)
(* specialists, and about AddonBrief, for every set of commands, requests, *)
(* generations and senders.                                                *)
(*                                                                         *)
(* AnswerIsWhole: a task is in one place and was asked for while it has no *)
(* result (TasksAreOpen), so a message whose specialists have all reported *)
(* has no task left; and what a web process may compose from is settled    *)
(* when it starts to compose (ReportsAreIn). AnswerIsLogged needs that the *)
(* reply a web process is about to store was logged (RepliesAreLogged).    *)
(* UsageIsAccounted: a step changes what one process has spent, hence the  *)
(* calls in flight by as much (InFlightMoves); they are recorded, or       *)
(* dropped with one fault and are then no more than MaxTurns.              *)
(*                                                                         *)
(* FlagIsFresh speaks of the entry of the cache. A request writes what it  *)
(* read before, so the invariant says the same of the value it holds       *)
(* (ReadsAreCurrent). DeliveredWasMailed needs what a sender knows of the  *)
(* brief it holds (SentIsKnown), GenerationIsIdempotent that a generation  *)
(* not overtaken composes a brief that is needed (ComposedIsNeeded).       *)
(***************************************************************************)
EXTENDS AgentInvocation, AddonBrief, FiniteSetTheorems, TLAPS

\* Calls answered are fewer than the turns begun, until the last answer is there.
TurnsAreCounted ==
    \A a \in Requests \cup Workers :
        llm[a].stage \in {"none", "looking", "asking"} => llm[a].spent < llm[a].turn

\* A web process has a completion only while it classifies or composes.
ThinksInTurn ==
    \A q \in Requests : llm[q].stage # "none" => req[q].pc \in {"classifying", "composing"}

\* A task is in one place, was asked for, and has no result yet.
TasksAreOpen ==
    /\ \A t \in queue :
          /\ result[t.req][t.name] = "none" /\ t.name \in req[t.req].chosen
          /\ \A w \in Workers : t \notin task[w]
    /\ \A w \in Workers : \A t \in task[w] :
          /\ result[t.req][t.name] = "none" /\ t.name \in req[t.req].chosen
          /\ \A v \in Workers : t \in task[v] => v = w

\* Only chosen specialists report, and none is chosen before the classification.
ReportsAreChosen ==
    \A q \in Requests :
        /\ req[q].pc \in {"idle", "guarding", "classifying"} => req[q].chosen = {}
        /\ \A s \in Specialists : result[q][s] # "none" => s \in req[q].chosen

Finished(q) == At(q, "composing") \/ At(q, "logging") \/ req[q].reply = "answer"

ReportsAreIn ==
    \A q \in Requests : Finished(q) => \A s \in req[q].chosen : result[q][s] = "ok"

RepliesAreLogged ==
    \A q \in Requests :
        req[q].reply = "answer" => q \in compliance /\ req[q].pc \in {"replying", "over", "dead"}

AgentInv ==
    /\ TypeOK /\ TurnsAreCounted /\ ThinksInTurn
    /\ TasksAreOpen /\ ReportsAreChosen /\ ReportsAreIn
    /\ AnswerIsLogged /\ RepliesAreLogged

-----------------------------------------------------------------------------
LEMMA NoCompletionIs ==
    ASSUME InvocationAssumption
    PROVE  /\ NoCompletion \in Completion /\ NoCompletion.stage = "none"
           /\ NoCompletion.spent = 0 /\ NoCompletion.turn = 1
           /\ NoCompletion.spent < NoCompletion.turn
BY DEF InvocationAssumption, NoCompletion, Completion, Prompts

LEMMA CompleteIs ==
    ASSUME InvocationAssumption, NEW prompt \in Prompts
    PROVE  /\ Complete(prompt) \in Completion /\ Complete(prompt).stage = "looking"
           /\ Complete(prompt).spent = 0 /\ Complete(prompt).turn = 1
           /\ CompleteWithTools(prompt) \in Completion
           /\ CompleteWithTools(prompt).stage = "asking"
           /\ CompleteWithTools(prompt).spent = 0 /\ CompleteWithTools(prompt).turn = 1
<1>1. \A c \in Completion, stage \in {"looking", "asking"} :
        LET new == [c EXCEPT !.stage = stage, !.prompt = prompt]
        IN  /\ new \in Completion /\ new.stage = stage
            /\ new.spent = c.spent /\ new.turn = c.turn
  BY DEF Completion
<1>2. QED
  BY <1>1, NoCompletionIs DEF Complete, CompleteWithTools

LEMMA AgentInit == ASSUME InvocationAssumption, Init PROVE AgentInv
<1>1. [pc |-> "idle", chosen |-> {}, reply |-> "none"] \in Request
  BY DEF Request
<1>2. \A w \in Workers : Cardinality(task[w]) <= 1
  BY FS_EmptySet DEF Init
<1>3. TypeOK
  BY <1>1, <1>2, NoCompletionIs DEF Init, TypeOK, InvocationAssumption
<1>4. QED
  BY <1>3, NoCompletionIs
     DEF Init, AgentInv, TurnsAreCounted, ThinksInTurn, TasksAreOpen, ReportsAreChosen,
         ReportsAreIn, Finished, At, AnswerIsLogged, RepliesAreLogged

-----------------------------------------------------------------------------
\* The completion of a moves on; nothing else is touched but the accounts.
LEMMA CompletionMoves ==
    ASSUME InvocationAssumption, AgentInv, NEW a \in Requests \cup Workers, NEW new \in Completion,
           llm[a].stage # "none", llm' = [llm EXCEPT ![a] = new],
           new.stage \in {"none", "looking", "asking"} => new.spent < new.turn,
           UNCHANGED <<req, groupVars, chatVars, deaths>>,
           cache' \subseteq Prompts, calls' \in Nat, billed' \in Nat, failures' \in 0..MaxFailures
    PROVE  AgentInv'
<1>1. \A b \in Requests \cup Workers : llm'[b] = IF b = a THEN new ELSE llm[b]
  BY DEF AgentInv, TypeOK
<1>2. a \in Workers => task[a] # {}
  BY NoCompletionIs DEF AgentInv, TypeOK
<1>3. TypeOK'
  BY <1>1, <1>2 DEF AgentInv, TypeOK, groupVars, chatVars
<1>4. TurnsAreCounted'
  BY <1>1 DEF AgentInv, TurnsAreCounted
<1>5. ThinksInTurn'
  BY <1>1 DEF AgentInv, ThinksInTurn
<1>6. QED
  BY <1>3, <1>4, <1>5
     DEF AgentInv, groupVars, chatVars, TasksAreOpen, ReportsAreChosen,
         ReportsAreIn, Finished, At, AnswerIsLogged, RepliesAreLogged

LEMMA GatewayKeeps ==
    ASSUME InvocationAssumption, AgentInv, NEW a \in Requests \cup Workers, GatewayStep(a)
    PROVE  AgentInv'
<1>1. /\ llm[a].stage # "none" /\ UNCHANGED <<req, groupVars, chatVars, deaths>>
  BY DEF GatewayStep, LookUp, Answered, CallFails, StoreAnswer, RecordUsage, Stage,
         usageVars, faultVars
<1>2. PICK c : c = llm[a]
  OBVIOUS
<1>3. c \in Completion /\ llm \in [Requests \cup Workers -> Completion]
  BY <1>2 DEF AgentInv, TypeOK
<1>4. cache \subseteq Prompts /\ calls \in Nat /\ billed \in Nat /\ failures \in 0..MaxFailures
  BY DEF AgentInv, TypeOK
<1>5. c.stage \in {"none", "looking", "asking"} => c.spent < c.turn
  BY <1>2 DEF AgentInv, TurnsAreCounted
<1>6. c.turn \in 1..MaxTurns /\ c.spent \in 0..MaxTurns /\ MaxTurns \in Nat
  BY <1>3 DEF Completion, InvocationAssumption
<1>7. ASSUME NEW stage \in {"done", "asking", "recording"}, Advance(a, stage),
             c.stage # "none", stage = "asking" => c.stage = "looking",
             cache' \subseteq Prompts, UNCHANGED <<usageVars, failures>>
      PROVE  AgentInv'
  <2>1. PICK new : new = [c EXCEPT !.stage = stage]
    OBVIOUS
  <2>2. llm' = [llm EXCEPT ![a] = new]
    BY <1>2, <1>3, <1>7, <2>1 DEF Advance
  <2>3. new \in Completion /\ new.stage = stage /\ new.spent = c.spent /\ new.turn = c.turn
    BY <1>3, <2>1 DEF Completion
  <2>4. QED
    BY <1>1, <1>4, <1>5, <1>7, <2>2, <2>3, CompletionMoves DEF usageVars
<1>8. CASE LookUp(a)
  BY <1>2, <1>4, <1>7, <1>8 DEF LookUp, Stage, faultVars
<1>9. CASE StoreAnswer(a)
  <2>1. c.prompt \in Prompts
    BY <1>3 DEF Completion
  <2>2. cache' \subseteq Prompts
    BY <1>2, <1>4, <1>9, <2>1 DEF StoreAnswer
  <2>3. QED
    BY <1>2, <1>7, <1>9, <2>2 DEF StoreAnswer, Stage, faultVars
<1>10. CASE Answered(a)
  <2>1. /\ c.stage = "asking" /\ calls' = calls + 1
        /\ calls' \in Nat /\ UNCHANGED <<cache, billed, failures>>
    BY <1>2, <1>4, <1>10 DEF Answered, Stage, faultVars
  <2>2. CASE c.turn < MaxTurns /\ llm' = [llm EXCEPT ![a].turn = @ + 1, ![a].spent = @ + 1]
    <3>1. PICK new : new = [c EXCEPT !.turn = c.turn + 1, !.spent = c.spent + 1]
      OBVIOUS
    <3>2. llm' = [llm EXCEPT ![a] = new]
      BY <1>2, <1>3, <2>2, <3>1
    <3>3. c.turn + 1 \in 1..MaxTurns /\ c.spent + 1 \in 0..MaxTurns /\ c.spent + 1 < c.turn + 1
      BY <1>5, <1>6, <2>1, <2>2
    <3>4. new \in Completion /\ new.spent < new.turn
      BY <1>3, <3>1, <3>3 DEF Completion
    <3>5. QED
      BY <1>1, <1>4, <2>1, <3>2, <3>4, CompletionMoves
  <2>3. ASSUME NEW stage \in {"recording", "storing"},
               llm' = [llm EXCEPT ![a].spent = @ + 1, ![a].stage = stage]
        PROVE  AgentInv'
    <3>1. PICK new : new = [c EXCEPT !.spent = c.spent + 1, !.stage = stage]
      OBVIOUS
    <3>2. llm' = [llm EXCEPT ![a] = new]
      BY <1>2, <1>3, <2>3, <3>1
    <3>3. c.spent + 1 \in 0..MaxTurns
      BY <1>5, <1>6, <2>1
    <3>4. new \in Completion /\ new.stage = stage
      BY <1>3, <3>1, <3>3 DEF Completion
    <3>5. QED
      BY <1>1, <1>4, <2>1, <3>2, <3>4, CompletionMoves
  <2>4. QED
    BY <1>2, <1>10, <2>2, <2>3 DEF Answered
<1>11. CASE CallFails(a)
  <2>1. PICK new : new = [NoCompletion EXCEPT !.stage = "failed"]
    OBVIOUS
  <2>2. llm' = [llm EXCEPT ![a] = new] /\ failures' \in 0..MaxFailures
        /\ UNCHANGED <<cache, calls, billed>>
    BY <1>4, <1>11, <2>1 DEF CallFails, usageVars, InvocationAssumption
  <2>3. new \in Completion /\ new.stage = "failed"
    BY <2>1, NoCompletionIs DEF Completion
  <2>4. QED
    BY <1>1, <1>4, <2>2, <2>3, CompletionMoves
<1>12. CASE RecordUsage(a)
  <2>1. PICK new : new = [c EXCEPT !.stage = "done", !.spent = 0]
    OBVIOUS
  <2>2. llm' = [llm EXCEPT ![a] = new]
    BY <1>2, <1>3, <1>12, <2>1 DEF RecordUsage
  <2>3. billed' \in Nat /\ UNCHANGED <<cache, calls, failures>>
    BY <1>2, <1>4, <1>6, <1>12 DEF RecordUsage, faultVars
  <2>4. 0 \in 0..MaxTurns
    BY <1>6
  <2>5. new \in Completion /\ new.stage = "done"
    BY <1>3, <2>1, <2>4 DEF Completion
  <2>6. QED
    BY <1>1, <1>4, <2>2, <2>3, <2>5, CompletionMoves
<1>13. QED
  BY <1>8, <1>9, <1>10, <1>11, <1>12 DEF GatewayStep

-----------------------------------------------------------------------------
\* The web process of q moves on, its specialists chosen as they were.
LEMMA RequestMoves ==
    ASSUME InvocationAssumption, AgentInv, NEW q \in Requests, NEW new \in Request,
           NEW c \in Completion,
           req' = [req EXCEPT ![q] = new], llm' = [llm EXCEPT ![q] = c],
           c.stage \in {"none", "looking", "asking"} => c.spent < c.turn,
           c.stage # "none" => new.pc \in {"classifying", "composing"},
           UNCHANGED <<cache, groupVars, usageVars, failures>>,
           deaths' \in 0..MaxDeaths, asked' \subseteq Requests,
           new.chosen = req[q].chosen,
           new.pc \in {"idle", "guarding", "classifying"} => new.chosen = {},
           new.pc \in {"composing", "logging"} \/ new.reply = "answer" =>
               \A s \in new.chosen : result[q][s] = "ok",
           compliance' \in {compliance, compliance \cup {q}},
           q \in compliance' => new.pc \in {"replying", "over", "dead"},
           new.reply = "answer" => q \in compliance' /\ new.pc \in {"replying", "over", "dead"},
           assistant' \in {assistant, [assistant EXCEPT ![q] = new.reply]}
    PROVE  AgentInv'
<1>1. /\ \A p \in Requests : req'[p] = IF p = q THEN new ELSE req[p]
      /\ \A b \in Requests \cup Workers : llm'[b] = IF b = q THEN c ELSE llm[b]
      /\ q \notin Workers
  BY DEF AgentInv, TypeOK, InvocationAssumption
<1>2. TypeOK'
  <2>1. req' \in [Requests -> Request] /\ llm' \in [Requests \cup Workers -> Completion]
    BY DEF AgentInv, TypeOK
  <2>2. assistant' \in [Requests -> {"none", "rejected", "fallback", "answer"}]
    BY DEF AgentInv, TypeOK, Request
  <2>3. QED
    BY <1>1, <2>1, <2>2 DEF AgentInv, TypeOK, groupVars, usageVars
<1>3. TurnsAreCounted' /\ ThinksInTurn'
  BY <1>1 DEF AgentInv, TurnsAreCounted, ThinksInTurn
<1>4. \A p \in Requests : req'[p].chosen = req[p].chosen
  BY <1>1
<1>5. TasksAreOpen'
  <2>1. \A t \in Task : t.req \in Requests
    BY DEF Task
  <2>2. QED
    BY <1>4, <2>1 DEF AgentInv, TypeOK, TasksAreOpen, groupVars
<1>6. ReportsAreChosen' /\ ReportsAreIn'
  BY <1>1, <1>4 DEF AgentInv, ReportsAreChosen, ReportsAreIn, Finished, At, groupVars
<1>7. AnswerIsLogged' /\ RepliesAreLogged'
  BY <1>1 DEF AgentInv, TypeOK, AnswerIsLogged, RepliesAreLogged
<1>8. QED
  BY <1>2, <1>3, <1>5, <1>6, <1>7 DEF AgentInv

LEMMA FallBackKeeps ==
    ASSUME InvocationAssumption, AgentInv, NEW q \in Requests, FallBack(q),
           UNCHANGED <<cache, groupVars, chatVars, usageVars, faultVars>>
    PROVE  AgentInv'
<1>1. PICK old, new : old = req[q] /\ new = [old EXCEPT !.pc = "replying", !.reply = "fallback"]
  OBVIOUS
<1>2. old \in Request
  BY <1>1 DEF AgentInv, TypeOK
<1>3. /\ new \in Request /\ new.pc = "replying" /\ new.chosen = old.chosen
      /\ new.reply = "fallback"
  BY <1>1, <1>2 DEF Request
<1>4. req' = [req EXCEPT ![q] = new] /\ llm' = [llm EXCEPT ![q] = NoCompletion]
  BY <1>1 DEF FallBack, AgentInv, TypeOK
<1>5. /\ asked' \subseteq Requests /\ deaths' \in 0..MaxDeaths
      /\ UNCHANGED <<asked, assistant, compliance, failures>>
  BY DEF AgentInv, TypeOK, chatVars, faultVars
<1>6. QED
  BY <1>1, <1>3, <1>4, <1>5, NoCompletionIs, RequestMoves

LEMMA StoreMessageKeeps ==
    ASSUME InvocationAssumption, AgentInv, NEW q \in Requests, StoreMessage(q) PROVE AgentInv'
<1>1. PICK old, new, c : old = req[q] /\ new = [old EXCEPT !.pc = "guarding"] /\ c = llm[q]
  OBVIOUS
<1>2. old \in Request /\ old.pc = "idle" /\ c \in Completion /\ llm' = [llm EXCEPT ![q] = c]
  BY <1>1 DEF StoreMessage, At, AgentInv, TypeOK
<1>3. /\ new \in Request /\ new.pc = "guarding" /\ new.chosen = old.chosen
      /\ new.reply = old.reply
  BY <1>1, <1>2 DEF Request
<1>4. req' = [req EXCEPT ![q] = new]
  BY <1>1 DEF StoreMessage, AgentInv, TypeOK
<1>5. /\ asked' \subseteq Requests /\ deaths' \in 0..MaxDeaths
      /\ UNCHANGED <<cache, groupVars, usageVars, assistant, compliance, failures>>
  BY DEF StoreMessage, AgentInv, TypeOK, faultVars
<1>6. c.stage = "none" /\ c.spent < c.turn
  BY <1>1, <1>2 DEF AgentInv, ThinksInTurn, TurnsAreCounted
<1>7. old.chosen = {} /\ q \notin compliance /\ old.reply # "answer"
  BY <1>1, <1>2 DEF AgentInv, ReportsAreChosen, AnswerIsLogged, RepliesAreLogged
<1>8. QED
  BY <1>1, <1>2, <1>3, <1>4, <1>5, <1>6, <1>7, RequestMoves

LEMMA GuardKeeps ==
    ASSUME InvocationAssumption, AgentInv, NEW q \in Requests, Guard(q) PROVE AgentInv'
<1>1. PICK old : old = req[q]
  OBVIOUS
<1>2. /\ old \in Request /\ old.pc = "guarding"
      /\ UNCHANGED <<cache, groupVars, usageVars, asked, assistant, compliance, failures>>
      /\ asked' \subseteq Requests /\ deaths' \in 0..MaxDeaths
  BY <1>1 DEF Guard, At, AgentInv, TypeOK, faultVars, chatVars
<1>3. old.chosen = {} /\ q \notin compliance /\ old.reply # "answer"
  BY <1>1, <1>2 DEF AgentInv, ReportsAreChosen, AnswerIsLogged, RepliesAreLogged
<1>4. CASE req' = [req EXCEPT ![q].pc = "replying", ![q].reply = "rejected"] /\ UNCHANGED llm
  <2>1. PICK new, c : /\ new = [old EXCEPT !.pc = "replying", !.reply = "rejected"]
                      /\ c = llm[q]
    OBVIOUS
  <2>2. /\ new \in Request /\ new.pc = "replying" /\ new.chosen = old.chosen
        /\ new.reply = "rejected"
    BY <1>2, <2>1 DEF Request
  <2>3. req' = [req EXCEPT ![q] = new] /\ llm' = [llm EXCEPT ![q] = c] /\ c \in Completion
    BY <1>1, <1>4, <2>1 DEF AgentInv, TypeOK
  <2>4. c.stage = "none" /\ c.spent < c.turn
    BY <1>1, <1>2, <2>1 DEF AgentInv, ThinksInTurn, TurnsAreCounted
  <2>5. QED
    BY <1>1, <1>2, <1>3, <2>2, <2>3, <2>4, RequestMoves
<1>5. CASE /\ req' = [req EXCEPT ![q].pc = "classifying"]
           /\ llm' = [llm EXCEPT ![q] = Complete(Classifying)]
  <2>1. PICK new, c : /\ new = [old EXCEPT !.pc = "classifying"]
                      /\ c = Complete(Classifying)
    OBVIOUS
  <2>2. /\ new \in Request /\ new.pc = "classifying" /\ new.chosen = old.chosen
        /\ new.reply = old.reply
    BY <1>2, <2>1 DEF Request
  <2>3. req' = [req EXCEPT ![q] = new] /\ llm' = [llm EXCEPT ![q] = c]
    BY <1>1, <1>5, <2>1 DEF AgentInv, TypeOK
  <2>4. Classifying \in Prompts
    BY DEF Classifying, Prompts
  <2>5. c \in Completion /\ c.stage = "looking" /\ c.spent < c.turn
    BY <2>1, <2>4, CompleteIs
  <2>6. QED
    BY <1>1, <1>2, <1>3, <2>2, <2>3, <2>5, RequestMoves
<1>6. QED
  BY <1>4, <1>5 DEF Guard

\* Composing begins, once the specialists chosen have all reported.
LEMMA ComposeKeeps ==
    ASSUME InvocationAssumption, AgentInv, NEW q \in Requests,
           req[q].pc \in {"classifying", "gathering"},
           Compose(q),
           \A s \in req[q].chosen : result[q][s] = "ok",
           UNCHANGED <<cache, groupVars, chatVars, usageVars, faultVars>>
    PROVE  AgentInv'
<1>1. PICK old, new, c : /\ old = req[q] /\ new = [old EXCEPT !.pc = "composing"]
                         /\ c = Complete(Composing(old.chosen))
  OBVIOUS
<1>2. /\ old \in Request /\ UNCHANGED <<asked, assistant, compliance, failures>>
      /\ asked' \subseteq Requests /\ deaths' \in 0..MaxDeaths
  BY <1>1 DEF AgentInv, TypeOK, faultVars, chatVars
<1>3. /\ new \in Request /\ new.pc = "composing" /\ new.chosen = old.chosen
      /\ new.reply = old.reply
  BY <1>1, <1>2 DEF Request
<1>4. req' = [req EXCEPT ![q] = new] /\ llm' = [llm EXCEPT ![q] = c]
  BY <1>1 DEF Compose, AgentInv, TypeOK
<1>5. Composing(old.chosen) \in Prompts
  BY <1>2 DEF Composing, Prompts, Request
<1>6. c \in Completion /\ c.stage = "looking" /\ c.spent < c.turn
  BY <1>1, <1>5, CompleteIs
<1>7. q \notin compliance /\ old.reply # "answer"
  BY <1>1 DEF AgentInv, AnswerIsLogged, RepliesAreLogged
<1>8. /\ new.chosen = req[q].chosen
      /\ new.pc \in {"idle", "guarding", "classifying"} => new.chosen = {}
      /\ c.stage # "none" => new.pc \in {"classifying", "composing"}
      /\ c.stage \in {"none", "looking", "asking"} => c.spent < c.turn
  BY <1>1, <1>3, <1>6
<1>9. new.pc \in {"composing", "logging"} \/ new.reply = "answer" =>
         \A s \in new.chosen : result[q][s] = "ok"
  BY <1>8
<1>10. /\ q \in compliance' => new.pc \in {"replying", "over", "dead"}
       /\ new.reply = "answer" => q \in compliance' /\ new.pc \in {"replying", "over", "dead"}
       /\ compliance' \in {compliance, compliance \cup {q}}
       /\ assistant' \in {assistant, [assistant EXCEPT ![q] = new.reply]}
  BY <1>1, <1>2, <1>3, <1>7
<1>11. UNCHANGED <<cache, groupVars, usageVars, failures>>
  BY <1>2
<1>12. QED
  BY <1>2, <1>3, <1>4, <1>6, <1>8, <1>9, <1>10, <1>11, RequestMoves

\* The steps that leave a completion behind: Composed, Log, StoreReply, WebDies.
LEMMA SettledKeeps ==
    ASSUME InvocationAssumption, AgentInv, NEW q \in Requests,
           Composed(q) \/ Log(q) \/ StoreReply(q) \/ WebDies(q)
    PROVE  AgentInv'
<1>1. PICK old, c : old = req[q] /\ c = llm[q]
  OBVIOUS
<1>2. old \in Request /\ c \in Completion /\ asked \subseteq Requests
      /\ deaths \in 0..MaxDeaths
  BY <1>1 DEF AgentInv, TypeOK
<1>3. old.pc \in {"composing", "logging"} \/ old.reply = "answer" =>
          \A s \in old.chosen : result[q][s] = "ok"
  BY <1>1 DEF AgentInv, ReportsAreIn, Finished, At
<1>4. /\ old.reply = "answer" => q \in compliance /\ old.pc \in {"replying", "over", "dead"}
      /\ q \in compliance => old.pc \in {"replying", "over", "dead"}
  BY <1>1 DEF AgentInv, RepliesAreLogged, AnswerIsLogged
<1>5. old.pc \in {"logging", "replying"} => c.stage = "none" /\ c.spent < c.turn
  BY <1>1 DEF AgentInv, ThinksInTurn, TurnsAreCounted
<1>6. CASE Composed(q)
  <2>1. PICK new : new = [old EXCEPT !.pc = "logging"]
    OBVIOUS
  <2>2. /\ new \in Request /\ new.pc = "logging" /\ new.chosen = old.chosen
        /\ new.reply = old.reply
    BY <1>2, <2>1 DEF Request
  <2>3. /\ req' = [req EXCEPT ![q] = new] /\ llm' = [llm EXCEPT ![q] = NoCompletion]
        /\ old.pc = "composing"
        /\ UNCHANGED <<cache, groupVars, asked, assistant, compliance, usageVars, failures, deaths>>
    BY <1>1, <1>6, <2>1 DEF Composed, At, AgentInv, TypeOK, chatVars, faultVars
  <2>4. QED
    BY <1>1, <1>2, <1>3, <1>4, <2>2, <2>3, NoCompletionIs, RequestMoves
<1>7. CASE Log(q)
  <2>1. PICK reply \in {"answer", "fallback"} :
          req' = [req EXCEPT ![q].pc = "replying", ![q].reply = reply]
    BY <1>7 DEF Log
  <2>2. PICK new : new = [old EXCEPT !.pc = "replying", !.reply = reply]
    OBVIOUS
  <2>3. /\ new \in Request /\ new.pc = "replying" /\ new.chosen = old.chosen
        /\ new.reply = reply
    BY <1>2, <2>2 DEF Request
  <2>4. /\ req' = [req EXCEPT ![q] = new] /\ llm' = [llm EXCEPT ![q] = c]
        /\ old.pc = "logging" /\ compliance' = compliance \cup {q}
        /\ UNCHANGED <<cache, groupVars, asked, assistant, usageVars, failures, deaths>>
    BY <1>1, <1>7, <2>1, <2>2 DEF Log, At, AgentInv, TypeOK, faultVars
  <2>5. QED
    BY <1>1, <1>2, <1>3, <1>5, <2>3, <2>4, RequestMoves
<1>8. CASE StoreReply(q)
  <2>1. PICK new : new = [old EXCEPT !.pc = "over"]
    OBVIOUS
  <2>2. /\ new \in Request /\ new.pc = "over" /\ new.chosen = old.chosen
        /\ new.reply = old.reply
    BY <1>2, <2>1 DEF Request
  <2>3. /\ req' = [req EXCEPT ![q] = new] /\ llm' = [llm EXCEPT ![q] = c]
        /\ old.pc = "replying" /\ assistant' = [assistant EXCEPT ![q] = new.reply]
        /\ UNCHANGED <<cache, groupVars, asked, compliance, usageVars, failures, deaths>>
    BY <1>1, <1>8, <2>1, <2>2 DEF StoreReply, At, AgentInv, TypeOK, faultVars
  <2>4. QED
    BY <1>1, <1>2, <1>3, <1>4, <1>5, <2>2, <2>3, RequestMoves
<1>9. CASE WebDies(q)
  <2>1. PICK new : new = [old EXCEPT !.pc = "dead"]
    OBVIOUS
  <2>2. /\ new \in Request /\ new.pc = "dead" /\ new.chosen = old.chosen
        /\ new.reply = old.reply
    BY <1>2, <2>1 DEF Request
  <2>3. /\ req' = [req EXCEPT ![q] = new] /\ llm' = [llm EXCEPT ![q] = NoCompletion]
        /\ deaths' \in 0..MaxDeaths
        /\ UNCHANGED <<cache, groupVars, asked, assistant, compliance, usageVars, failures>>
    BY <1>1, <1>2, <1>9, <2>1 DEF WebDies, AgentInv, TypeOK, chatVars, InvocationAssumption
  <2>4. QED
    BY <1>1, <1>2, <1>3, <1>4, <2>2, <2>3, NoCompletionIs, RequestMoves
<1>10. QED
  BY <1>6, <1>7, <1>8, <1>9

\* A group is queued for a message none of whose specialists has a report.
LEMMA ClassifiedKeeps ==
    ASSUME InvocationAssumption, AgentInv, NEW q \in Requests, Classified(q) PROVE AgentInv'
<1>1. /\ req[q].pc = "classifying" /\ req[q].chosen = {}
      /\ \A s \in Specialists : result[q][s] = "none"
      /\ q \notin compliance /\ req[q].reply # "answer"
  BY DEF Classified, At, AgentInv, TypeOK, ReportsAreChosen, AnswerIsLogged, RepliesAreLogged
<1>2. UNCHANGED <<cache, task, result, chatVars, usageVars, faultVars>>
  BY DEF Classified
<1>3. CASE FallBack(q) /\ UNCHANGED queue
  BY <1>2, <1>3, FallBackKeeps DEF groupVars
<1>4. CASE /\ req' = [req EXCEPT ![q].pc = "composing"]
           /\ llm' = [llm EXCEPT ![q] = Complete(Composing({}))]
           /\ UNCHANGED queue
  <2>1. Compose(q)
    BY <1>1, <1>4 DEF Compose
  <2>2. UNCHANGED <<cache, groupVars, chatVars, usageVars, faultVars>>
    BY <1>2, <1>4 DEF groupVars
  <2>3. \A s \in req[q].chosen : result[q][s] = "ok"
    BY <1>1
  <2>4. QED
    BY <1>1, <2>1, <2>2, <2>3, ComposeKeeps
<1>5. ASSUME NEW names \in SUBSET Specialists,
             queue' = queue \cup {[req |-> q, name |-> s] : s \in names},
             req' = [req EXCEPT ![q].pc = "gathering", ![q].chosen = names],
             llm' = [llm EXCEPT ![q] = NoCompletion]
      PROVE  AgentInv'
  <2>1. PICK old, new : /\ old = req[q]
                        /\ new = [old EXCEPT !.pc = "gathering", !.chosen = names]
    OBVIOUS
  <2>2. old \in Request
    BY <2>1 DEF AgentInv, TypeOK
  <2>3. /\ new \in Request /\ new.pc = "gathering" /\ new.chosen = names
        /\ new.reply = old.reply
    BY <2>1, <2>2 DEF Request
  <2>4. /\ req' = [req EXCEPT ![q] = new]
        /\ \A p \in Requests : req'[p] = IF p = q THEN new ELSE req[p]
        /\ \A b \in Requests \cup Workers : llm'[b] = IF b = q THEN NoCompletion ELSE llm[b]
        /\ q \notin Workers
    BY <1>5, <2>1 DEF AgentInv, TypeOK, InvocationAssumption
  <2>5. \A t \in queue' : t \in queue \/ (t \in Task /\ t.req = q /\ t.name \in names)
    BY <1>5 DEF Task
  <2>6. TypeOK'
    <3>1. req' \in [Requests -> Request] /\ llm' \in [Requests \cup Workers -> Completion]
      BY <1>5, <2>3, <2>4, NoCompletionIs DEF AgentInv, TypeOK
    <3>2. queue' \subseteq Task
      BY <2>5 DEF AgentInv, TypeOK
    <3>3. QED
      BY <1>2, <2>4, <3>1, <3>2 DEF AgentInv, TypeOK, chatVars, usageVars, faultVars
  <2>7. TurnsAreCounted' /\ ThinksInTurn'
    BY <2>4, NoCompletionIs DEF AgentInv, TurnsAreCounted, ThinksInTurn
  <2>8. TasksAreOpen'
    <3>1. UNCHANGED <<task, result>>
      BY <1>2
    <3>2. \A t \in Task : t.req \in Requests /\ t.name \in Specialists
      BY DEF Task
    <3>3. ASSUME NEW t \in Task, result[t.req][t.name] = "none" /\ t.name \in req[t.req].chosen
          PROVE  t.req # q /\ t.name \in req'[t.req].chosen
      BY <1>1, <2>4, <3>2, <3>3
    <3>4. \A t \in Task : t.req = q => \A w \in Workers : t \notin task[w]
      BY <1>1 DEF AgentInv, TasksAreOpen
    <3>5. ASSUME NEW t \in queue'
          PROVE  /\ result'[t.req][t.name] = "none" /\ t.name \in req'[t.req].chosen
                 /\ \A w \in Workers : t \notin task'[w]
      <4>1. CASE t \in queue
        BY <3>1, <3>3, <4>1 DEF AgentInv, TypeOK, TasksAreOpen
      <4>2. CASE t \in Task /\ t.req = q /\ t.name \in names
        BY <1>1, <2>3, <2>4, <3>1, <3>4, <4>2
      <4>3. QED
        BY <2>5, <4>1, <4>2
    <3>6. ASSUME NEW w \in Workers, NEW t \in task'[w]
          PROVE  /\ result'[t.req][t.name] = "none" /\ t.name \in req'[t.req].chosen
                 /\ \A v \in Workers : t \in task'[v] => v = w
      BY <3>1, <3>3 DEF AgentInv, TypeOK, TasksAreOpen
    <3>7. QED
      BY <3>5, <3>6 DEF TasksAreOpen
  <2>9. ReportsAreChosen' /\ ReportsAreIn'
    BY <1>1, <1>2, <2>1, <2>3, <2>4
       DEF AgentInv, ReportsAreChosen, ReportsAreIn, Finished, At
  <2>10. AnswerIsLogged' /\ RepliesAreLogged'
    BY <1>1, <1>2, <2>1, <2>3, <2>4
       DEF AgentInv, TypeOK, AnswerIsLogged, RepliesAreLogged, chatVars
  <2>11. QED
    BY <2>6, <2>7, <2>8, <2>9, <2>10 DEF AgentInv
<1>6. QED
  BY <1>3, <1>4, <1>5 DEF Classified

LEMMA HandleKeeps ==
    ASSUME InvocationAssumption, AgentInv, NEW q \in Requests, HandleStep(q) PROVE AgentInv'
<1>1. CASE Gathered(q)
  <2>1. /\ req[q].pc = "gathering" /\ Compose(q)
        /\ UNCHANGED <<cache, groupVars, chatVars, usageVars, faultVars>>
    BY <1>1 DEF Gathered, At
  <2>2. \A s \in req[q].chosen : result[q][s] = "ok"
    BY <1>1 DEF Gathered, Results
  <2>3. QED
    BY <2>1, <2>2, ComposeKeeps
<1>2. CASE GatherFails(q)
  BY <1>2, FallBackKeeps DEF GatherFails
<1>3. CASE GatewayRaised(q)
  BY <1>3, FallBackKeeps DEF GatewayRaised
<1>4. QED
  BY <1>1, <1>2, <1>3, GuardKeeps, ClassifiedKeeps, SettledKeeps DEF HandleStep

-----------------------------------------------------------------------------
\* Worker w comes to work on held, a task of the queue or none, and what it
\* worked on before has its result or is lost.
LEMMA WorkerMoves ==
    ASSUME InvocationAssumption, AgentInv, NEW w \in Workers, NEW held \in SUBSET queue,
           NEW c \in Completion,
           Cardinality(held) <= 1, held = {} => c = NoCompletion,
           c.stage \in {"none", "looking", "asking"} => c.spent < c.turn,
           queue' = queue \ held, task' = [task EXCEPT ![w] = held],
           llm' = [llm EXCEPT ![w] = c], UNCHANGED result,
           UNCHANGED <<req, cache, chatVars, usageVars, failures>>,
           deaths' \in 0..MaxDeaths
    PROVE  AgentInv'
<1>1. /\ \A v \in Workers : task'[v] = IF v = w THEN held ELSE task[v]
      /\ \A b \in Requests \cup Workers : llm'[b] = IF b = w THEN c ELSE llm[b]
      /\ w \notin Requests
  BY DEF AgentInv, TypeOK, InvocationAssumption
<1>2. TypeOK'
  <2>1. /\ llm' \in [Requests \cup Workers -> Completion]
        /\ task' \in [Workers -> SUBSET Task] /\ queue' \subseteq Task
    BY DEF AgentInv, TypeOK
  <2>2. \A v \in Workers : Cardinality(task'[v]) <= 1
    BY <1>1 DEF AgentInv, TypeOK
  <2>3. \A v \in Workers : task'[v] = {} => llm'[v] = NoCompletion
    BY <1>1 DEF AgentInv, TypeOK
  <2>4. QED
    BY <2>1, <2>2, <2>3 DEF AgentInv, TypeOK, chatVars, usageVars
<1>3. TurnsAreCounted' /\ ThinksInTurn'
  BY <1>1 DEF AgentInv, TurnsAreCounted, ThinksInTurn
<1>4. TasksAreOpen'
  BY <1>1 DEF AgentInv, TasksAreOpen
<1>5. QED
  BY <1>2, <1>3, <1>4
     DEF AgentInv, chatVars, ReportsAreChosen, ReportsAreIn, Finished, At,
         AnswerIsLogged, RepliesAreLogged

LEMMA FinishKeeps ==
    ASSUME InvocationAssumption, AgentInv, NEW w \in Workers, NEW t \in task[w],
           NEW value \in {"ok", "error"}, Finish(w, t, value)
    PROVE  AgentInv'
<1>1. /\ t \in Task /\ t.req \in Requests /\ t.name \in Specialists
      /\ t = [req |-> t.req, name |-> t.name]
  BY DEF AgentInv, TypeOK, Task
<1>2. /\ result[t.req][t.name] = "none" /\ t.name \in req[t.req].chosen
      /\ t \notin queue /\ \A v \in Workers : t \in task[v] => v = w
  BY DEF AgentInv, TasksAreOpen
<1>3. /\ \A v \in Workers : task'[v] = IF v = w THEN {} ELSE task[v]
      /\ \A b \in Requests \cup Workers : llm'[b] = IF b = w THEN NoCompletion ELSE llm[b]
      /\ w \notin Requests
      /\ UNCHANGED <<req, cache, queue, chatVars, usageVars, faultVars>>
  BY DEF Finish, AgentInv, TypeOK, InvocationAssumption
<1>4. \A p \in Requests, s \in Specialists :
        result'[p][s] = IF p = t.req /\ s = t.name THEN value ELSE result[p][s]
  BY <1>1 DEF Finish, AgentInv, TypeOK
<1>5. TypeOK'
  <2>1. /\ llm' \in [Requests \cup Workers -> Completion]
        /\ task' \in [Workers -> SUBSET Task]
    BY NoCompletionIs DEF AgentInv, TypeOK, Finish
  <2>2. result' \in [Requests -> [Specialists -> {"none", "ok", "error"}]]
    BY <1>1 DEF AgentInv, TypeOK, Finish
  <2>3. \A v \in Workers : Cardinality(task'[v]) <= 1
    BY <1>3, FS_EmptySet DEF AgentInv, TypeOK
  <2>4. \A v \in Workers : task'[v] = {} => llm'[v] = NoCompletion
    BY <1>3 DEF AgentInv, TypeOK
  <2>5. QED
    BY <1>3, <2>1, <2>2, <2>3, <2>4 DEF AgentInv, TypeOK, chatVars, usageVars, faultVars
<1>6. TurnsAreCounted' /\ ThinksInTurn'
  BY <1>3, NoCompletionIs DEF AgentInv, TurnsAreCounted, ThinksInTurn
<1>7. TasksAreOpen'
  <2>1. ASSUME NEW u \in Task, u # t
        PROVE  u.req \in Requests /\ u.name \in Specialists
               /\ result'[u.req][u.name] = result[u.req][u.name]
    <3>1. u = [req |-> u.req, name |-> u.name] /\ u.req \in Requests /\ u.name \in Specialists
      BY DEF Task
    <3>2. ~ (u.req = t.req /\ u.name = t.name)
      BY <1>1, <2>1, <3>1
    <3>3. QED
      BY <1>4, <3>1, <3>2
  <2>2. ASSUME NEW u \in queue'
        PROVE  /\ result'[u.req][u.name] = "none" /\ u.name \in req'[u.req].chosen
               /\ \A v \in Workers : u \notin task'[v]
    BY <1>2, <1>3, <2>1 DEF AgentInv, TypeOK, TasksAreOpen
  <2>3. ASSUME NEW v \in Workers, NEW u \in task'[v]
        PROVE  /\ result'[u.req][u.name] = "none" /\ u.name \in req'[u.req].chosen
               /\ \A x \in Workers : u \in task'[x] => x = v
    <3>1. v # w /\ u \in task[v] /\ u # t /\ u \in Task
      BY <1>2, <1>3 DEF AgentInv, TypeOK
    <3>2. /\ result[u.req][u.name] = "none" /\ u.name \in req[u.req].chosen
          /\ \A x \in Workers : u \in task[x] => x = v
      BY <3>1 DEF AgentInv, TasksAreOpen
    <3>3. QED
      BY <1>3, <2>1, <3>1, <3>2
  <2>4. QED
    BY <2>2, <2>3 DEF TasksAreOpen
<1>8. ReportsAreChosen' /\ ReportsAreIn'
  <2>1. \A p \in Requests : req'[p] = req[p] /\ Finished(p)' = Finished(p)
    BY <1>3 DEF Finished, At
  <2>2. ~ Finished(t.req)
    BY <1>1, <1>2 DEF AgentInv, ReportsAreIn
  <2>3. ReportsAreChosen'
    BY <1>2, <1>4, <2>1 DEF AgentInv, ReportsAreChosen
  <2>4. ASSUME NEW p \in Requests, Finished(p), NEW s \in req[p].chosen
        PROVE  result'[p][s] = "ok"
    <3>1. s \in Specialists /\ p # t.req
      BY <2>2, <2>4 DEF AgentInv, TypeOK, Request
    <3>2. QED
      BY <1>4, <2>4, <3>1 DEF AgentInv, ReportsAreIn
  <2>5. QED
    BY <2>1, <2>3, <2>4 DEF ReportsAreIn
<1>9. AnswerIsLogged' /\ RepliesAreLogged'
  BY <1>3 DEF AgentInv, AnswerIsLogged, RepliesAreLogged, chatVars
<1>10. QED
  BY <1>5, <1>6, <1>7, <1>8, <1>9 DEF AgentInv

LEMMA WorkerKeeps ==
    ASSUME InvocationAssumption, AgentInv, NEW w \in Workers, WorkerStep(w) PROVE AgentInv'
<1>1. deaths \in 0..MaxDeaths /\ queue \subseteq Task /\ MaxDeaths \in Nat
  BY DEF AgentInv, TypeOK, InvocationAssumption
<1>2. ASSUME NEW t \in queue, TakeTask(w, t) PROVE AgentInv'
  <2>1. Asking(t.name) \in Prompts
    BY <1>1 DEF Asking, Prompts, Task
  <2>2. PICK c, held : /\ c = IF t.name \in ToolUsers THEN CompleteWithTools(Asking(t.name))
                                                      ELSE Complete(Asking(t.name))
                       /\ held = {t}
    OBVIOUS
  <2>3. c \in Completion /\ c.spent = 0 /\ c.turn = 1
    BY <2>1, <2>2, CompleteIs
  <2>4. c.spent < c.turn
    BY <2>3
  <2>5. Cardinality(held) = 1 /\ held # {} /\ held \in SUBSET queue
    BY <2>2, FS_Singleton
  <2>6. /\ queue' = queue \ held /\ task' = [task EXCEPT ![w] = held] /\ UNCHANGED result
        /\ UNCHANGED <<req, cache, chatVars, usageVars, failures>> /\ deaths' \in 0..MaxDeaths
        /\ llm' = [llm EXCEPT ![w] = c]
    BY <1>1, <1>2, <2>2 DEF TakeTask, faultVars
  <2>7. Cardinality(held) <= 1 /\ (held = {} => c = NoCompletion)
    BY <2>5
  <2>8. QED
    BY <2>3, <2>4, <2>5, <2>6, <2>7, WorkerMoves
<1>3. ASSUME NEW t \in task[w], NoHits(w, t) \/ SpecialistAnswers(w, t) \/ SpecialistRaises(w, t)
      PROVE  AgentInv'
  BY <1>3, FinishKeeps DEF NoHits, SpecialistAnswers, SpecialistRaises
<1>4. CASE WorkerDies(w)
  <2>1. Cardinality({}) <= 1 /\ {} \in SUBSET queue
    BY FS_EmptySet
  <2>2. /\ queue' = queue \ {} /\ task' = [task EXCEPT ![w] = {}] /\ UNCHANGED result
        /\ UNCHANGED <<req, cache, chatVars, usageVars, failures>> /\ deaths' \in 0..MaxDeaths
        /\ llm' = [llm EXCEPT ![w] = NoCompletion]
    BY <1>1, <1>4 DEF WorkerDies
  <2>3. QED
    BY <2>1, <2>2, NoCompletionIs, WorkerMoves
<1>5. QED
  BY <1>2, <1>3, <1>4 DEF WorkerStep

LEMMA AgentKeeps == ASSUME InvocationAssumption, AgentInv, [Next]_vars PROVE AgentInv'
<1>1. CASE UNCHANGED vars
  BY <1>1 DEF vars, groupVars, chatVars, usageVars, faultVars, AgentInv, TypeOK,
     TurnsAreCounted, ThinksInTurn, TasksAreOpen, ReportsAreChosen, ReportsAreIn,
     Finished, At, AnswerIsLogged, RepliesAreLogged
<1>2. CASE Next
  BY <1>2, GatewayKeeps, StoreMessageKeeps, HandleKeeps, SettledKeeps, WorkerKeeps DEF Next
<1>3. QED
  BY <1>1, <1>2

\* AgentInv is an invariant.
LEMMA AgentAlways == ASSUME InvocationAssumption PROVE Spec => []AgentInv
BY AgentInit, AgentKeeps, PTL DEF Spec

\* Every variable keeps its type: no completion takes more turns than it may, and
\* a worker without a task has no completion.
THEOREM InvocationTypes == ASSUME InvocationAssumption PROVE Spec => []TypeOK
<1>1. AgentInv => TypeOK
  BY DEF AgentInv
<1>2. QED
  BY <1>1, AgentAlways, PTL

\* A reply is composed from the reports of all specialists chosen for it, and then
\* none of its tasks is queued or running.
THEOREM AnswersAreWhole == ASSUME InvocationAssumption PROVE Spec => []AnswerIsWhole
<1>1. AgentInv => AnswerIsWhole
  <2>1. SUFFICES ASSUME AgentInv, NEW q \in Requests, Finished(q)
                 PROVE  /\ \A s \in req[q].chosen : result[q][s] = "ok"
                        /\ Outstanding(q) = {}
    BY DEF AnswerIsWhole, Finished
  <2>2. \A s \in req[q].chosen : result[q][s] = "ok"
    BY <2>1 DEF AgentInv, ReportsAreIn
  <2>3. QED
    BY <2>1, <2>2 DEF AgentInv, TasksAreOpen, Outstanding
<1>2. QED
  BY <1>1, AgentAlways, PTL

\* An answer is in the conversation only with its compliance row, and the row is
\* there only for a message whose composition came to its end.
THEOREM AnswersAreLogged == ASSUME InvocationAssumption PROVE Spec => []AnswerIsLogged
<1>1. AgentInv => AnswerIsLogged
  BY DEF AgentInv
<1>2. QED
  BY <1>1, AgentAlways, PTL

-----------------------------------------------------------------------------
(* Usage.                                                                  *)

\* A completion that has not begun to call, or is over, has nothing to record.
SpentIsPending ==
    \A a \in Requests \cup Workers :
        llm[a].stage \in {"none", "looking", "done", "failed"} => llm[a].spent = 0

UsageInv == SpentIsPending /\ UsageIsAccounted

LEMMA CallsOfOne ==
    ASSUME NEW a, NEW n \in Nat
    PROVE  IsFiniteSet({a} \X (1..n)) /\ Cardinality({a} \X (1..n)) = n
<1>1. IsFiniteSet({a}) /\ Cardinality({a}) = 1
  BY FS_Singleton
<1>2. IsFiniteSet(1..n) /\ Cardinality(1..n) = n
  BY FS_Interval
<1>3. /\ IsFiniteSet({a} \X (1..n))
      /\ Cardinality({a} \X (1..n)) = Cardinality({a}) * Cardinality(1..n)
  BY <1>1, <1>2, FS_Product
<1>4. QED
  BY <1>1, <1>2, <1>3

\* The calls in flight are those of a and those of the others; f stands for llm
\* before and after a step.
LEMMA InFlightSplits ==
    ASSUME InvocationAssumption, NEW f, NEW a \in Requests \cup Workers, NEW others,
           \A b \in Requests \cup Workers : f[b].spent \in 0..MaxTurns,
           others = UNION {{b} \X (1..f[b].spent) : b \in (Requests \cup Workers) \ {a}}
    PROVE  /\ Cardinality(others) \in Nat
           /\ Cardinality(UNION {{b} \X (1..f[b].spent) : b \in Requests \cup Workers})
                = Cardinality(others) + f[a].spent
<1>1. /\ MaxTurns \in Nat
      /\ \A b \in Requests \cup Workers : f[b].spent \in Nat /\ f[b].spent <= MaxTurns
  BY DEF InvocationAssumption
<1>2. IsFiniteSet(others)
  <2>1. IsFiniteSet(Requests \cup Workers)
    BY FS_Union DEF InvocationAssumption
  <2>2. IsFiniteSet(1..MaxTurns)
    BY <1>1, FS_Interval
  <2>3. IsFiniteSet((Requests \cup Workers) \X (1..MaxTurns))
    BY <2>1, <2>2, FS_Product
  <2>4. others \subseteq (Requests \cup Workers) \X (1..MaxTurns)
    BY <1>1
  <2>5. QED
    BY <2>3, <2>4, FS_Subset
<1>3. PICK mine : mine = {a} \X (1..f[a].spent)
  OBVIOUS
<1>4. IsFiniteSet(mine) /\ Cardinality(mine) = f[a].spent
  BY <1>1, <1>3, CallsOfOne
<1>5. UNION {{b} \X (1..f[b].spent) : b \in Requests \cup Workers} = others \cup mine
  BY <1>3
<1>6. others \cap mine = {}
  BY <1>3
<1>7. Cardinality(others) \in Nat
  BY <1>2, FS_CardinalityType
<1>8. Cardinality(others \cup mine) = Cardinality(others) + Cardinality(mine) - Cardinality({})
  BY <1>2, <1>4, <1>6, FS_Union
<1>9. Cardinality(others \cup mine) = Cardinality(others) + f[a].spent
  <2>1. f[a].spent \in Nat /\ Cardinality({}) = 0
    BY <1>1, FS_EmptySet
  <2>2. QED
    BY <1>4, <1>7, <1>8, <2>1
<1>10. QED
  BY <1>5, <1>7, <1>9

\* a comes from one completion to another; the calls in flight change by what it
\* has spent.
LEMMA InFlightMoves ==
    ASSUME InvocationAssumption, TypeOK, NEW a \in Requests \cup Workers,
           NEW new \in Completion, llm' = [llm EXCEPT ![a] = new]
    PROVE  /\ InFlight \in Nat /\ InFlight' \in Nat
           /\ InFlight' + llm[a].spent = InFlight + new.spent
<1>1. \A b \in Requests \cup Workers : llm'[b] = IF b = a THEN new ELSE llm[b]
  BY DEF TypeOK
<1>2. PICK others : others = UNION {{b} \X (1..llm[b].spent) : b \in (Requests \cup Workers) \ {a}}
  OBVIOUS
<1>3. others = UNION {{b} \X (1..llm'[b].spent) : b \in (Requests \cup Workers) \ {a}}
  BY <1>1, <1>2
<1>4. \A b \in Requests \cup Workers : llm[b].spent \in 0..MaxTurns
  BY DEF TypeOK, Completion
<1>5. \A b \in Requests \cup Workers : llm'[b].spent \in 0..MaxTurns
  BY <1>1, <1>4 DEF Completion
<1>6. Cardinality(others) \in Nat /\ InFlight = Cardinality(others) + llm[a].spent
  BY <1>2, <1>4, InFlightSplits DEF InFlight, Unrecorded
<1>7. InFlight' = Cardinality(others) + llm'[a].spent
  <2>1. PICK f : f = llm'
    OBVIOUS
  <2>2. /\ others = UNION {{b} \X (1..f[b].spent) : b \in (Requests \cup Workers) \ {a}}
        /\ \A b \in Requests \cup Workers : f[b].spent \in 0..MaxTurns
    BY <1>3, <1>5, <2>1
  <2>3. Cardinality(UNION {{b} \X (1..f[b].spent) : b \in Requests \cup Workers})
          = Cardinality(others) + f[a].spent
    BY <2>2, InFlightSplits
  <2>4. InFlight' = Cardinality(UNION {{b} \X (1..f[b].spent) : b \in Requests \cup Workers})
    BY <2>1 DEF InFlight, Unrecorded
  <2>5. QED
    BY <2>1, <2>3, <2>4
<1>8. llm[a].spent \in Nat /\ new.spent \in Nat /\ llm'[a].spent = new.spent
  BY <1>1, <1>4 DEF Completion
<1>9. QED
  BY <1>6, <1>7, <1>8

\* No fault, and what a has spent less is recorded.
LEMMA UsageKept ==
    ASSUME InvocationAssumption, TypeOK, UsageInv, NEW a \in Requests \cup Workers,
           NEW new \in Completion, llm' = [llm EXCEPT ![a] = new],
           new.stage \in {"none", "looking", "done", "failed"} => new.spent = 0,
           UNCHANGED faultVars, calls' \in Nat, billed' \in Nat,
           calls' + billed + llm[a].spent = calls + billed' + new.spent
    PROVE  UsageInv'
<1>1. \A b \in Requests \cup Workers : llm'[b] = IF b = a THEN new ELSE llm[b]
  BY DEF TypeOK
<1>2. SpentIsPending'
  BY <1>1 DEF UsageInv, SpentIsPending
<1>3. PICK allowed : allowed = MaxTurns * (failures + deaths)
  OBVIOUS
<1>4. allowed \in Nat
  BY <1>3 DEF InvocationAssumption, TypeOK
<1>5. MaxTurns * (failures' + deaths') = allowed
  BY <1>3 DEF faultVars
<1>6. billed + InFlight <= calls /\ calls <= billed + InFlight + allowed
  BY <1>3 DEF UsageInv, UsageIsAccounted
<1>7. llm[a].spent \in Nat /\ new.spent \in Nat /\ calls \in Nat /\ billed \in Nat
  BY DEF TypeOK, Completion
<1>8. InFlight \in Nat /\ InFlight' \in Nat /\ InFlight' + llm[a].spent = InFlight + new.spent
  BY InFlightMoves
<1>9. billed' + InFlight' <= calls' /\ calls' <= billed' + InFlight' + allowed
  <2>1. PICK c \in Nat, d \in Nat, b \in Nat, e \in Nat :
            c = calls /\ d = calls' /\ b = billed /\ e = billed'
    BY <1>7
  <2>2. PICK i \in Nat, j \in Nat, s \in Nat, t \in Nat :
            i = InFlight /\ j = InFlight' /\ s = llm[a].spent /\ t = new.spent
    BY <1>7, <1>8
  <2>3. /\ b + i <= c /\ c <= b + i + allowed
        /\ j + s = i + t /\ d + b + s = c + e + t
    BY <1>6, <1>8, <2>1, <2>2
  <2>4. e + j <= d /\ d <= e + j + allowed
    BY <1>4, <2>3
  <2>5. QED
    BY <2>1, <2>2, <2>4
<1>10. UsageIsAccounted'
  BY <1>5, <1>9 DEF UsageIsAccounted
<1>11. QED
  BY <1>2, <1>10 DEF UsageInv

\* A fault: what a has spent is never recorded, and that is one completion.
LEMMA UsageDropped ==
    ASSUME InvocationAssumption, TypeOK, UsageInv, NEW a \in Requests \cup Workers,
           NEW new \in Completion, llm' = [llm EXCEPT ![a] = new], new.spent = 0,
           UNCHANGED usageVars, failures' \in Nat, deaths' \in Nat,
           failures' + deaths' = failures + deaths + 1
    PROVE  UsageInv'
<1>1. \A b \in Requests \cup Workers : llm'[b] = IF b = a THEN new ELSE llm[b]
  BY DEF TypeOK
<1>2. SpentIsPending'
  BY <1>1 DEF UsageInv, SpentIsPending
<1>3. PICK allowed : allowed = MaxTurns * (failures + deaths)
  OBVIOUS
<1>4. allowed \in Nat /\ MaxTurns \in Nat
  BY <1>3 DEF InvocationAssumption, TypeOK
<1>5. MaxTurns * (failures' + deaths') = allowed + MaxTurns
  <2>1. \A m \in Nat, n \in Nat : m * (n + 1) = m * n + m
    OBVIOUS
  <2>2. failures + deaths \in Nat
    BY DEF TypeOK
  <2>3. QED
    BY <1>3, <1>4, <2>1, <2>2
<1>6. billed + InFlight <= calls /\ calls <= billed + InFlight + allowed
  BY <1>3 DEF UsageInv, UsageIsAccounted
<1>7. llm[a].spent \in Nat /\ llm[a].spent <= MaxTurns /\ calls \in Nat /\ billed \in Nat
  BY <1>4 DEF TypeOK, Completion
<1>8. InFlight \in Nat /\ InFlight' \in Nat /\ InFlight' + llm[a].spent = InFlight
  <2>1. /\ InFlight \in Nat /\ InFlight' \in Nat
        /\ InFlight' + llm[a].spent = InFlight + 0
    BY InFlightMoves
  <2>2. QED
    BY <2>1
<1>9. billed + InFlight' <= calls /\ calls <= billed + InFlight' + (allowed + MaxTurns)
  <2>1. PICK c \in Nat, b \in Nat, i \in Nat, j \in Nat, s \in Nat :
            c = calls /\ b = billed /\ i = InFlight /\ j = InFlight' /\ s = llm[a].spent
    BY <1>7, <1>8
  <2>2. b + i <= c /\ c <= b + i + allowed /\ j + s = i /\ s <= MaxTurns
    BY <1>6, <1>7, <1>8, <2>1
  <2>3. b + j <= c /\ c <= b + j + (allowed + MaxTurns)
    BY <1>4, <2>2
  <2>4. QED
    BY <2>1, <2>3
<1>10. UsageIsAccounted'
  BY <1>5, <1>9 DEF UsageIsAccounted, usageVars
<1>11. QED
  BY <1>2, <1>10 DEF UsageInv

\* Nothing was pending and nothing is.
LEMMA UsageIdle ==
    ASSUME InvocationAssumption, TypeOK, UsageInv, NEW a \in Requests \cup Workers,
           NEW new \in Completion, llm' = [llm EXCEPT ![a] = new],
           llm[a].spent = 0, new.spent = 0, UNCHANGED <<usageVars, faultVars>>
    PROVE  UsageInv'
<1>1. calls \in Nat /\ billed \in Nat /\ calls' = calls /\ billed' = billed
  BY DEF TypeOK, usageVars
<1>2. calls' + billed + llm[a].spent = calls + billed' + new.spent
  BY <1>1
<1>3. QED
  BY <1>1, <1>2, UsageKept

LEMMA UsageStands ==
    ASSUME UsageInv, UNCHANGED <<llm, usageVars, faultVars>> PROVE UsageInv'
BY DEF UsageInv, SpentIsPending, UsageIsAccounted, InFlight, Unrecorded, usageVars, faultVars

LEMMA UsageInit == ASSUME InvocationAssumption, Init PROVE UsageInv
<1>1. \A a \in Requests \cup Workers : llm[a].spent = 0
  BY NoCompletionIs DEF Init
<1>2. Unrecorded = {}
  BY <1>1 DEF Unrecorded
<1>3. InFlight = 0 /\ calls = 0 /\ billed = 0 /\ failures = 0 /\ deaths = 0
  BY <1>2, FS_EmptySet DEF InFlight, Init
<1>4. MaxTurns * (0 + 0) \in Nat
  BY DEF InvocationAssumption
<1>5. UsageIsAccounted
  BY <1>3, <1>4 DEF UsageIsAccounted
<1>6. QED
  BY <1>1, <1>5 DEF UsageInv, SpentIsPending

LEMMA GatewayAccounts ==
    ASSUME InvocationAssumption, AgentInv, UsageInv, NEW a \in Requests \cup Workers,
           GatewayStep(a)
    PROVE  UsageInv'
<1>1. PICK c : c = llm[a]
  OBVIOUS
<1>2. /\ TypeOK /\ c \in Completion /\ llm \in [Requests \cup Workers -> Completion]
      /\ calls \in Nat /\ billed \in Nat /\ failures \in Nat /\ deaths \in Nat
  BY <1>1 DEF AgentInv, TypeOK
<1>3. c.stage \in {"none", "looking", "done", "failed"} => c.spent = 0
  BY <1>1 DEF UsageInv, SpentIsPending
<1>4. c.turn \in 1..MaxTurns /\ c.spent \in 0..MaxTurns /\ c.spent \in Nat /\ MaxTurns \in Nat
  BY <1>2 DEF Completion, InvocationAssumption
<1>5. c.stage \in {"none", "looking", "asking"} => c.spent < c.turn
  BY <1>1 DEF AgentInv, TurnsAreCounted
<1>6. ASSUME NEW stage \in {"done", "asking", "recording"}, Advance(a, stage),
             stage = "done" => c.spent = 0, UNCHANGED <<usageVars, faultVars>>
      PROVE  UsageInv'
  <2>1. PICK new : new = [c EXCEPT !.stage = stage]
    OBVIOUS
  <2>2. llm' = [llm EXCEPT ![a] = new]
    BY <1>1, <1>2, <1>6, <2>1 DEF Advance
  <2>3. new \in Completion /\ new.stage = stage /\ new.spent = c.spent
    BY <1>2, <2>1 DEF Completion
  <2>4. /\ calls' \in Nat /\ billed' \in Nat
        /\ calls' + billed + llm[a].spent = calls + billed' + new.spent
    BY <1>1, <1>2, <1>4, <1>6, <2>3 DEF usageVars
  <2>5. QED
    BY <1>2, <1>6, <2>2, <2>3, <2>4, UsageKept
<1>7. CASE LookUp(a)
  BY <1>1, <1>3, <1>6, <1>7 DEF LookUp, Stage
<1>8. CASE StoreAnswer(a)
  BY <1>6, <1>8 DEF StoreAnswer
<1>9. CASE Answered(a)
  <2>1. /\ c.stage = "asking" /\ calls' = calls + 1 /\ calls' \in Nat
        /\ billed' = billed /\ UNCHANGED faultVars
    BY <1>1, <1>2, <1>9 DEF Answered, Stage
  <2>2. ASSUME NEW new \in Completion, llm' = [llm EXCEPT ![a] = new],
               new.spent = c.spent + 1, new.stage \in {"asking", "recording", "storing"}
        PROVE  UsageInv'
    <3>1. calls' + billed + llm[a].spent = calls + billed' + new.spent
      BY <1>1, <1>2, <1>4, <2>1, <2>2
    <3>2. QED
      BY <1>2, <2>1, <2>2, <3>1, UsageKept
  <2>3. CASE c.turn < MaxTurns /\ llm' = [llm EXCEPT ![a].turn = @ + 1, ![a].spent = @ + 1]
    <3>1. PICK new : new = [c EXCEPT !.turn = c.turn + 1, !.spent = c.spent + 1]
      OBVIOUS
    <3>2. llm' = [llm EXCEPT ![a] = new]
      BY <1>1, <1>2, <2>3, <3>1
    <3>3. c.turn + 1 \in 1..MaxTurns /\ c.spent + 1 \in 0..MaxTurns
      BY <1>4, <1>5, <2>1, <2>3
    <3>4. new \in Completion /\ new.spent = c.spent + 1 /\ new.stage = "asking"
      BY <1>2, <2>1, <3>1, <3>3 DEF Completion
    <3>5. QED
      BY <2>2, <3>2, <3>4
  <2>4. ASSUME NEW stage \in {"recording", "storing"},
               llm' = [llm EXCEPT ![a].spent = @ + 1, ![a].stage = stage]
        PROVE  UsageInv'
    <3>1. PICK new : new = [c EXCEPT !.spent = c.spent + 1, !.stage = stage]
      OBVIOUS
    <3>2. llm' = [llm EXCEPT ![a] = new]
      BY <1>1, <1>2, <2>4, <3>1
    <3>3. c.spent + 1 \in 0..MaxTurns
      BY <1>4, <1>5, <2>1
    <3>4. new \in Completion /\ new.spent = c.spent + 1 /\ new.stage = stage
      BY <1>2, <3>1, <3>3 DEF Completion
    <3>5. QED
      BY <2>2, <3>2, <3>4
  <2>5. QED
    BY <1>1, <1>9, <2>3, <2>4 DEF Answered
<1>10. CASE CallFails(a)
  <2>1. PICK new : new = [NoCompletion EXCEPT !.stage = "failed"]
    OBVIOUS
  <2>2. llm' = [llm EXCEPT ![a] = new] /\ UNCHANGED usageVars
        /\ failures' = failures + 1 /\ deaths' = deaths
    BY <1>10, <2>1 DEF CallFails
  <2>3. new \in Completion /\ new.spent = 0
    BY <2>1, NoCompletionIs DEF Completion
  <2>4. failures' \in Nat /\ deaths' \in Nat /\ failures' + deaths' = failures + deaths + 1
    BY <1>2, <2>2
  <2>5. QED
    BY <1>2, <2>2, <2>3, <2>4, UsageDropped
<1>11. CASE RecordUsage(a)
  <2>1. PICK new : new = [c EXCEPT !.stage = "done", !.spent = 0]
    OBVIOUS
  <2>2. llm' = [llm EXCEPT ![a] = new]
    BY <1>1, <1>2, <1>11, <2>1 DEF RecordUsage
  <2>3. 0 \in 0..MaxTurns
    BY <1>4
  <2>4. new \in Completion /\ new.spent = 0
    BY <1>2, <2>1, <2>3 DEF Completion
  <2>5. /\ billed' = billed + c.spent /\ billed' \in Nat /\ calls' = calls
        /\ UNCHANGED faultVars
    BY <1>1, <1>2, <1>4, <1>11 DEF RecordUsage
  <2>6. calls' \in Nat /\ calls' + billed + llm[a].spent = calls + billed' + new.spent
    BY <1>1, <1>2, <1>4, <2>4, <2>5
  <2>7. QED
    BY <1>2, <2>2, <2>4, <2>5, <2>6, UsageKept
<1>12. QED
  BY <1>7, <1>8, <1>9, <1>10, <1>11 DEF GatewayStep

LEMMA RequestAccounts ==
    ASSUME InvocationAssumption, AgentInv, UsageInv, NEW q \in Requests,
           StoreMessage(q) \/ HandleStep(q) \/ WebDies(q)
    PROVE  UsageInv'
<1>1. TypeOK /\ failures \in Nat /\ deaths \in Nat
  BY DEF AgentInv, TypeOK
<1>2. ASSUME llm[q].spent = 0, NEW new \in Completion, new.spent = 0,
             llm' = [llm EXCEPT ![q] = new], UNCHANGED <<usageVars, faultVars>>
      PROVE  UsageInv'
  BY <1>1, <1>2, UsageIdle
<1>3. \A c \in {"none", "done", "failed"} : Stage(q) = c => llm[q].spent = 0
  BY DEF UsageInv, SpentIsPending, Stage
<1>4. ~(req[q].pc \in {"classifying", "composing"}) => llm[q].spent = 0
  <2>1. ~(req[q].pc \in {"classifying", "composing"}) => llm[q].stage = "none"
    BY DEF AgentInv, ThinksInTurn
  <2>2. QED
    BY <1>3, <2>1 DEF Stage
<1>5. NoCompletion \in Completion /\ NoCompletion.spent = 0
  BY NoCompletionIs
<1>6. ASSUME NEW names \in SUBSET Specialists
      PROVE  /\ Complete(Composing(names)) \in Completion
             /\ Complete(Composing(names)).spent = 0
  <2>1. Composing(names) \in Prompts
    BY DEF Composing, Prompts
  <2>2. QED
    BY <2>1, CompleteIs
<1>7. /\ Complete(Classifying) \in Completion /\ Complete(Classifying).spent = 0
  <2>1. Classifying \in Prompts
    BY DEF Classifying, Prompts
  <2>2. QED
    BY <2>1, CompleteIs
<1>8. req[q].chosen \in SUBSET Specialists
  BY <1>1 DEF TypeOK, Request
<1>9. CASE StoreMessage(q) \/ Log(q) \/ StoreReply(q)
  BY <1>9, UsageStands DEF StoreMessage, Log, StoreReply
<1>10. CASE Guard(q)
  <2>1. UNCHANGED <<usageVars, faultVars>> /\ llm[q].spent = 0
    BY <1>4, <1>10 DEF Guard, At
  <2>2. CASE UNCHANGED llm
    BY <2>1, <2>2, UsageStands
  <2>3. CASE llm' = [llm EXCEPT ![q] = Complete(Classifying)]
    BY <1>2, <1>7, <2>1, <2>3
  <2>4. QED
    BY <1>10, <2>2, <2>3 DEF Guard
<1>11. CASE Classified(q)
  <2>1. UNCHANGED <<usageVars, faultVars>> /\ llm[q].spent = 0
    BY <1>3, <1>11 DEF Classified
  <2>2. \/ llm' = [llm EXCEPT ![q] = NoCompletion]
        \/ llm' = [llm EXCEPT ![q] = Complete(Composing({}))]
    BY <1>11 DEF Classified, FallBack
  <2>3. QED
    BY <1>2, <1>5, <1>6, <2>1, <2>2
<1>12. CASE Gathered(q)
  <2>1. /\ UNCHANGED <<usageVars, faultVars>> /\ llm[q].spent = 0
        /\ llm' = [llm EXCEPT ![q] = Complete(Composing(req[q].chosen))]
    BY <1>4, <1>12 DEF Gathered, Compose, At
  <2>2. QED
    BY <1>2, <1>6, <1>8, <2>1
<1>13. CASE GatherFails(q) \/ Composed(q) \/ GatewayRaised(q)
  <2>1. /\ UNCHANGED <<usageVars, faultVars>> /\ llm[q].spent = 0
        /\ llm' = [llm EXCEPT ![q] = NoCompletion]
    BY <1>3, <1>4, <1>13 DEF GatherFails, Composed, GatewayRaised, FallBack, At
  <2>2. QED
    BY <1>2, <1>5, <2>1
<1>14. CASE WebDies(q)
  <2>1. /\ UNCHANGED usageVars /\ failures' = failures /\ deaths' = deaths + 1
        /\ llm' = [llm EXCEPT ![q] = NoCompletion]
    BY <1>14 DEF WebDies
  <2>2. failures' \in Nat /\ deaths' \in Nat /\ failures' + deaths' = failures + deaths + 1
    BY <1>1, <2>1
  <2>3. QED
    BY <1>1, <1>5, <2>1, <2>2, UsageDropped
<1>15. QED
  BY <1>9, <1>10, <1>11, <1>12, <1>13, <1>14 DEF HandleStep

LEMMA WorkerAccounts ==
    ASSUME InvocationAssumption, AgentInv, UsageInv, NEW w \in Workers, WorkerStep(w)
    PROVE  UsageInv'
<1>1. TypeOK /\ failures \in Nat /\ deaths \in Nat
  BY DEF AgentInv, TypeOK
<1>2. ASSUME llm[w].spent = 0, NEW new \in Completion, new.spent = 0,
             llm' = [llm EXCEPT ![w] = new], UNCHANGED <<usageVars, faultVars>>
      PROVE  UsageInv'
  BY <1>1, <1>2, UsageIdle
<1>3. NoCompletion \in Completion /\ NoCompletion.spent = 0
  BY NoCompletionIs
<1>4. ASSUME NEW t \in queue, TakeTask(w, t) PROVE UsageInv'
  <2>1. llm[w].spent = 0
    BY <1>1, <1>3, <1>4 DEF TakeTask, TypeOK
  <2>2. t.name \in Specialists
    BY <1>1, <1>4 DEF TypeOK, Task
  <2>3. Asking(t.name) \in Prompts
    BY <2>2 DEF Asking, Prompts
  <2>4. PICK new : new = IF t.name \in ToolUsers
                           THEN CompleteWithTools(Asking(t.name))
                           ELSE Complete(Asking(t.name))
    OBVIOUS
  <2>5. new \in Completion /\ new.spent = 0
    BY <2>3, <2>4, CompleteIs
  <2>6. llm' = [llm EXCEPT ![w] = new] /\ UNCHANGED <<usageVars, faultVars>>
    BY <1>4, <2>4 DEF TakeTask
  <2>7. QED
    BY <1>2, <2>1, <2>5, <2>6
<1>5. ASSUME NEW t \in task[w], NoHits(w, t) \/ SpecialistAnswers(w, t) \/ SpecialistRaises(w, t)
      PROVE  UsageInv'
  <2>1. Stage(w) \in {"looking", "done", "failed"}
    BY <1>5 DEF NoHits, SpecialistAnswers, SpecialistRaises
  <2>2. llm[w].spent = 0
    BY <2>1 DEF UsageInv, SpentIsPending, Stage
  <2>3. llm' = [llm EXCEPT ![w] = NoCompletion] /\ UNCHANGED <<usageVars, faultVars>>
    BY <1>5 DEF NoHits, SpecialistAnswers, SpecialistRaises, Finish
  <2>4. QED
    BY <1>2, <1>3, <2>2, <2>3
<1>6. CASE WorkerDies(w)
  <2>1. /\ UNCHANGED usageVars /\ failures' = failures /\ deaths' = deaths + 1
        /\ llm' = [llm EXCEPT ![w] = NoCompletion]
    BY <1>6 DEF WorkerDies
  <2>2. failures' \in Nat /\ deaths' \in Nat /\ failures' + deaths' = failures + deaths + 1
    BY <1>1, <2>1
  <2>3. QED
    BY <1>1, <1>3, <2>1, <2>2, UsageDropped
<1>7. QED
  BY <1>4, <1>5, <1>6 DEF WorkerStep

\* The LLMUsage rows not marked cached never count a call twice, and miss calls only
\* with a process that died, a tool loop one of whose later calls raised, or an
\* answer the cache did not take: one completion for each such fault.
THEOREM UsageIsAlwaysAccounted == ASSUME InvocationAssumption PROVE Spec => []UsageIsAccounted
<1>1. Init => UsageInv
  BY UsageInit
<1>2. AgentInv /\ UsageInv /\ [Next]_vars => UsageInv'
  <2>1. CASE UNCHANGED vars
    BY <2>1, UsageStands DEF vars
  <2>2. CASE Next
    BY <2>2, GatewayAccounts, RequestAccounts, WorkerAccounts DEF Next
  <2>3. QED
    BY <2>1, <2>2
<1>3. UsageInv => UsageIsAccounted
  BY DEF UsageInv
<1>4. QED
  BY <1>1, <1>2, <1>3, AgentAlways, PTL DEF Spec

-----------------------------------------------------------------------------
(* The addon.                                                              *)

\* Where commands may stand.
Steps == [Commands -> {"new", "activated", "deactivated", "visible", "over"}]

\* A request that no commit has overlapped holds the value of the row.
ReadsAreCurrent ==
    \A r \in WebProcesses :
        request[r].pc = "read" /\ ~request[r].overlapped => Holds(request[r].value)

FlagInv == BriefTypeOK /\ FlagIsFresh /\ ReadsAreCurrent

\* A generation that is not overtaken composes a brief that is not there.
ComposedIsNeeded ==
    \A g \in Generators :
        gen[g].pc = "composing" /\ ~gen[g].overtaken => report.status # "generated"

\* A sender holds the brief there is, unless it was overtaken; what it believes
\* mailed was.
SentIsKnown ==
    \A s \in Senders : sender[s].pc # "idle" =>
        /\ sender[s].version \in 1..report.version
        /\ sender[s].overtaken \/ sender[s].version = report.version
        /\ sender[s].pc = "mailed" => sender[s].version \in mailed

BriefInv == BriefTypeOK /\ ComposedIsNeeded /\ SentIsKnown /\ DeliveredWasMailed

\* A request, and a sender, whose history is brought up to date.
LEMMA HistoryIsTyped ==
    /\ \A held \in [pc : {"idle", "missed", "read", "let in"},
                    value : {"none", "on", "off"}, overlapped : BOOLEAN] :
          [held EXCEPT !.overlapped = TRUE]
            \in [pc : {"idle", "missed", "read", "let in"},
                value : {"none", "on", "off"}, overlapped : BOOLEAN]
    /\ \A mail \in [pc : {"idle", "found", "addressed", "mailed"},
                    version : 0..MaxVersions, overtaken : BOOLEAN], b \in BOOLEAN :
          LET new == [mail EXCEPT !.overtaken = @ \/ b]
          IN  /\ new.pc = mail.pc /\ new.version = mail.version
              /\ new.overtaken = (mail.overtaken \/ b)
OBVIOUS

-----------------------------------------------------------------------------
\* The first state.
LEMMA BriefStart == ASSUME MaxVersions \in Nat, BriefInit PROVE FlagInv /\ BriefInv
<1>1. RequestIdle \in [pc : {"idle", "missed", "read", "let in"},
                       value : {"none", "on", "off"}, overlapped : BOOLEAN]
  BY DEF RequestIdle
<1>2. GenIdle \in [pc : {"idle", "composing", "written"}, overtaken : BOOLEAN]
  BY DEF GenIdle
<1>3. SenderIdle \in [pc : {"idle", "found", "addressed", "mailed"},
                      version : 0..MaxVersions, overtaken : BOOLEAN]
  BY DEF SenderIdle
<1>4. BriefTypeOK
  <2>1. /\ request \in [WebProcesses -> [pc : {"idle", "missed", "read", "let in"},
                                    value : {"none", "on", "off"}, overlapped : BOOLEAN]]
        /\ gen \in [Generators -> [pc : {"idle", "composing", "written"}, overtaken : BOOLEAN]]
        /\ sender \in [Senders -> [pc : {"idle", "found", "addressed", "mailed"},
                                   version : 0..MaxVersions, overtaken : BOOLEAN]]
    BY <1>1, <1>2, <1>3 DEF BriefInit
  <2>2. /\ entry \in [value : {"none", "on", "off"}, expires : BOOLEAN]
        /\ command \in [Commands -> {"new", "activated", "deactivated", "visible", "over"}]
        /\ report \in [status : {"none", "generated", "delivered"}, version : 0..MaxVersions]
        /\ report.status = "none" /\ report.version = 0
    BY DEF BriefInit, NoEntry
  <2>3. QED
    BY <2>1, <2>2 DEF BriefInit, BriefTypeOK
<1>5. FlagInv
  BY <1>4 DEF BriefInit, FlagInv, FlagIsFresh, ReadsAreCurrent, NoEntry, RequestIdle
<1>6. BriefInv
  BY <1>4 DEF BriefInit, BriefInv, ComposedIsNeeded, SentIsKnown, DeliveredWasMailed,
              GenIdle, SenderIdle
<1>7. QED
  BY <1>5, <1>6

\* A save of the row, by whomever: every request that holds a value read before
\* it is overlapped.
LEMMA CommitsKeep ==
    ASSUME BriefTypeOK, NEW to \in {"none", "on", "off"}, Commits(to)
    PROVE  /\ request' \in [WebProcesses -> [pc : {"idle", "missed", "read", "let in"},
                                value : {"none", "on", "off"}, overlapped : BOOLEAN]]
           /\ ReadsAreCurrent'
           /\ flag' \in {"none", "on", "off"}
           /\ UNCHANGED <<config, briefs>>
<1>1. request' \in [WebProcesses -> [pc : {"idle", "missed", "read", "let in"},
                                 value : {"none", "on", "off"}, overlapped : BOOLEAN]]
  <2>1. ASSUME NEW r \in WebProcesses
        PROVE  [request[r] EXCEPT !.overlapped = TRUE]
                 \in [pc : {"idle", "missed", "read", "let in"},
                     value : {"none", "on", "off"}, overlapped : BOOLEAN]
    BY HistoryIsTyped DEF BriefTypeOK
  <2>2. QED
    BY <2>1 DEF BriefTypeOK, Commits
<1>2. ReadsAreCurrent'
  <2>1. ASSUME NEW r \in WebProcesses, request'[r].pc = "read"
        PROVE  request'[r].overlapped
    <3>1. /\ request[r] \in [pc : {"idle", "missed", "read", "let in"},
                             value : {"none", "on", "off"}, overlapped : BOOLEAN]
          /\ request'[r] = IF request[r].pc = "read"
                             THEN [request[r] EXCEPT !.overlapped = TRUE] ELSE request[r]
      BY DEF BriefTypeOK, Commits
    <3>2. PICK held \in [pc : {"idle", "missed", "read", "let in"},
                         value : {"none", "on", "off"}, overlapped : BOOLEAN] :
                held = request[r]
      BY <3>1
    <3>3. CASE held.pc = "read"
      BY <3>1, <3>2, <3>3
    <3>4. CASE held.pc # "read"
      BY <2>1, <3>1, <3>2, <3>4
    <3>5. QED
      BY <3>3, <3>4
  <2>2. QED
    BY <2>1 DEF ReadsAreCurrent
<1>3. QED
  BY <1>1, <1>2 DEF Commits

\* The flag, its cache and those who ask for it do not touch the brief.
LEMMA FlagSteps ==
    ASSUME FlagInv, NEW k \in Commands, Command(k) PROVE FlagInv' /\ UNCHANGED briefs
<1> USE DEF FlagInv
<1>1. CASE Activate(k) \/ Deactivate(k)
  <2>1. PICK to \in {"none", "on", "off"}, step \in {"activated", "deactivated"} :
          /\ command' = [command EXCEPT ![k] = step]
          /\ Commits(to) /\ UNCHANGED <<entry, edits>>
    BY <1>1 DEF Activate, Deactivate, BriefTypeOK
  <2>2. command' \in Steps /\ command'[k] = step
    BY <2>1 DEF BriefTypeOK, Steps
  <2>3. /\ request' \in [WebProcesses -> [pc : {"idle", "missed", "read", "let in"},
                                        value : {"none", "on", "off"}, overlapped : BOOLEAN]]
        /\ ReadsAreCurrent' /\ flag' \in {"none", "on", "off"}
        /\ UNCHANGED <<config, briefs>>
    BY <2>1, CommitsKeep
  <2>4. BriefTypeOK'
    <3>1. UNCHANGED <<config, report, gen, sender, mailed, crossed, entry, edits>>
      BY <2>1, <2>3 DEF briefs
    <3>2. command' \in [Commands -> {"new", "activated", "deactivated", "visible", "over"}]
      BY <2>2 DEF Steps
    <3>3. QED
      BY <2>3, <3>1, <3>2 DEF BriefTypeOK
  <2>5. FlagIsFresh'
    BY <2>2 DEF FlagIsFresh
  <2>6. QED
    BY <2>3, <2>4, <2>5
<1>2. CASE DeleteKey(k)
  <2>1. BriefTypeOK'
    BY <1>2 DEF DeleteKey, BriefTypeOK, NoEntry, briefs
  <2>2. FlagIsFresh' /\ ReadsAreCurrent' /\ UNCHANGED briefs
    BY <1>2 DEF DeleteKey, NoEntry, FlagIsFresh, ReadsAreCurrent, Holds
  <2>3. QED
    BY <2>1, <2>2
<1>3. CASE OnActivate(k)
  <2>1. BriefTypeOK'
    BY <1>3 DEF OnActivate, BriefTypeOK, briefs
  <2>2. \A j \in Commands : command[j] \in {"activated", "deactivated"} => command'[j] = command[j]
    BY <1>3 DEF OnActivate, BriefTypeOK
  <2>3. FlagIsFresh' /\ ReadsAreCurrent' /\ UNCHANGED briefs
    BY <1>3, <2>2 DEF OnActivate, FlagIsFresh, ReadsAreCurrent, Holds
  <2>4. QED
    BY <2>1, <2>3
<1>4. CASE CommandDies(k)
  <2>1. BriefTypeOK'
    BY <1>4 DEF CommandDies, BriefTypeOK, briefs
  <2>2. \A j \in Commands \ {k} : command'[j] = command[j]
    BY <1>4 DEF CommandDies, BriefTypeOK
  <2>3. FlagIsFresh' /\ ReadsAreCurrent' /\ UNCHANGED briefs
    BY <1>4, <2>2 DEF CommandDies, FlagIsFresh, ReadsAreCurrent, Holds
  <2>4. QED
    BY <2>1, <2>3
<1>5. QED
  BY <1>1, <1>2, <1>3, <1>4 DEF Command

LEMMA AdminKeeps ==
    ASSUME FlagInv, NEW to \in {"none", "on", "off"}, AdminEdits(to)
    PROVE  FlagInv' /\ UNCHANGED briefs
<1>1. Commits(to) /\ UNCHANGED <<entry, command>> /\ edits' = edits + 1
  BY DEF AdminEdits
<1>2. /\ request' \in [WebProcesses -> [pc : {"idle", "missed", "read", "let in"},
                                    value : {"none", "on", "off"}, overlapped : BOOLEAN]]
      /\ ReadsAreCurrent' /\ flag' \in {"none", "on", "off"}
      /\ UNCHANGED <<config, briefs>>
  BY <1>1, CommitsKeep DEF FlagInv
<1>3. BriefTypeOK'
  <2>1. edits' \in Nat
    <3>1. edits \in Nat /\ edits' = edits + 1
      BY DEF FlagInv, BriefTypeOK, AdminEdits
    <3>2. QED
      BY <3>1
  <2>2. /\ UNCHANGED <<config, report, gen, sender, mailed, crossed>>
        /\ entry' = entry /\ command' = command
    BY <1>1, <1>2 DEF briefs
  <2>3. QED
    BY <1>2, <2>1, <2>2 DEF FlagInv, BriefTypeOK
<1>4. FlagIsFresh'
  <2>1. CASE entry.value = "none"
    BY <1>1, <2>1 DEF FlagIsFresh
  <2>2. CASE entry.value # "none"
    <3>1. excused'
      BY ZenonT(30), <2>2 DEF AdminEdits
    <3>2. QED
      BY <3>1 DEF FlagIsFresh
  <2>3. QED
    BY <2>1, <2>2
<1>5. QED
  BY <1>2, <1>3, <1>4 DEF FlagInv

LEMMA ExpireKeeps == ASSUME FlagInv, Expire PROVE FlagInv' /\ UNCHANGED briefs
<1>1. BriefTypeOK'
  BY DEF FlagInv, Expire, BriefTypeOK, NoEntry, briefs
<1>2. QED
  BY <1>1 DEF Expire, NoEntry, FlagInv, FlagIsFresh, ReadsAreCurrent, Holds

\* The request r comes to hold what its step says, the others what they held.
LEMMA RequestSteps ==
    ASSUME FlagInv, NEW r \in WebProcesses, RequestStep(r) PROVE FlagInv' /\ UNCHANGED briefs
<1> USE DEF FlagInv
<1> DEFINE Held == [pc : {"idle", "missed", "read", "let in"},
                    value : {"none", "on", "off"}, overlapped : BOOLEAN]
<1>1. RequestIdle \in Held /\ RequestIdle.pc = "idle"
  BY DEF RequestIdle
<1>2. \A v : Decided(v) \in Held /\ Decided(v).pc # "read"
  BY DEF Decided, RequestIdle
<1>3. ASSUME NEW new \in Held, Hold(r, new), UNCHANGED <<flag, entry, command, edits, excused, briefs>>,
             config' \in {"none", "empty", "recipients"},
             new.pc = "read" => Holds(new.value)
      PROVE  FlagInv'
  <2>1. request' = [request EXCEPT ![r] = new]
    BY <1>3 DEF Hold
  <2>2. request' \in [WebProcesses -> Held]
    BY <2>1, <1>3 DEF BriefTypeOK
  <2>3. BriefTypeOK'
    BY <1>3, <2>2 DEF BriefTypeOK, briefs
  <2>4. FlagIsFresh'
    BY <1>3 DEF FlagIsFresh, Holds
  <2>5. ReadsAreCurrent'
    BY <1>3, <2>1 DEF BriefTypeOK, ReadsAreCurrent, Holds
  <2>6. QED
    BY <2>3, <2>4, <2>5
<1>4. CASE AskCache(r)
  <2> DEFINE new == IF entry.value = "none" THEN [RequestIdle EXCEPT !.pc = "missed"]
                    ELSE Decided(entry.value)
  <2>1. new \in Held /\ new.pc # "read"
    BY <1>1, <1>2 DEF RequestIdle
  <2>2. Hold(r, new) /\ UNCHANGED <<flag, entry, command, edits, excused, config, briefs>>
    BY <1>4 DEF AskCache
  <2> HIDE DEF new
  <2>3. QED
    BY <1>3, <2>1, <2>2 DEF BriefTypeOK
<1>5. CASE ReadFlag(r)
  <2> DEFINE new == [RequestIdle EXCEPT !.pc = "read",
                                        !.value = IF flag = "on" THEN "on" ELSE "off"]
  <2>1. new \in Held /\ Holds(new.value)
    BY DEF RequestIdle, Holds
  <2>2. Hold(r, new) /\ UNCHANGED <<flag, entry, command, edits, excused, config, briefs>>
    BY <1>5 DEF ReadFlag
  <2> HIDE DEF new
  <2>3. QED
    BY <1>3, <2>1, <2>2 DEF BriefTypeOK
<1>6. CASE SetCache(r)
  <2>1. request[r] \in Held /\ request[r].pc = "read"
    BY <1>6 DEF BriefTypeOK, SetCache, RequestAt
  <2>2. Decided(request[r].value) \in Held /\ Decided(request[r].value).pc # "read"
    BY <1>2
  <2>3. request' = [request EXCEPT ![r] = Decided(request[r].value)]
    BY <1>6 DEF SetCache, Hold
  <2>4. /\ entry' = [value |-> request[r].value, expires |-> TRUE]
        /\ excused' = request[r].overlapped
        /\ UNCHANGED <<flag, command, edits, config, briefs>>
    BY <1>6 DEF SetCache
  <2>5. BriefTypeOK'
    <3>1. request' \in [WebProcesses -> Held]
      BY <2>2, <2>3 DEF BriefTypeOK
    <3>2. QED
      BY <2>1, <2>4, <3>1 DEF BriefTypeOK, briefs
  <2>6. FlagIsFresh'
    BY <2>1, <2>4 DEF ReadsAreCurrent, FlagIsFresh, Holds
  <2>7. ReadsAreCurrent'
    BY <2>2, <2>3, <2>4 DEF BriefTypeOK, ReadsAreCurrent, Holds
  <2>8. QED
    BY <2>4, <2>5, <2>6, <2>7
<1>7. CASE View(r) \/ RequestDies(r)
  <2>1. Hold(r, RequestIdle) /\ UNCHANGED <<flag, entry, command, edits, excused, config, briefs>>
    BY <1>7 DEF View, RequestDies
  <2>2. QED
    BY <1>1, <1>3, <2>1 DEF BriefTypeOK
<1>8. CASE Configure(r)
  <2>1. /\ Hold(r, RequestIdle) /\ config' \in {"empty", "recipients"}
        /\ UNCHANGED <<flag, entry, command, edits, excused, briefs>>
    BY <1>8 DEF Configure
  <2>2. QED
    BY <1>1, <1>3, <2>1
<1>9. UNCHANGED briefs
  BY DEF RequestStep, IsEnabled, AskCache, ReadFlag, SetCache, View, Configure, RequestDies
<1>10. QED
  BY <1>4, <1>5, <1>6, <1>7, <1>8, <1>9 DEF RequestStep, IsEnabled

\* A generation moves on, or is marked as overtaken.
LEMMA GenerationMoves ==
    ASSUME NEW held \in [pc : {"idle", "composing", "written"}, overtaken : BOOLEAN]
    PROVE  /\ [held EXCEPT !.pc = "composing"]
                  \in [pc : {"idle", "composing", "written"}, overtaken : BOOLEAN]
           /\ \A b \in BOOLEAN :
                 LET new == [held EXCEPT !.overtaken = @ \/ b]
                 IN  /\ new \in [pc : {"idle", "composing", "written"}, overtaken : BOOLEAN]
                     /\ new.pc = held.pc /\ new.overtaken = (held.overtaken \/ b)
  OBVIOUS

\* What the brief's tasks leave alone.
LEMMA BriefStepsKeepFlag ==
    ASSUME FlagInv, BriefTypeOK', UNCHANGED <<flags, config>> PROVE FlagInv'
BY DEF FlagInv, flags, FlagIsFresh, ReadsAreCurrent, Holds

LEMMA FlagStepsKeepBrief ==
    ASSUME BriefInv, BriefTypeOK', UNCHANGED briefs PROVE BriefInv'
BY DEF BriefInv, briefs, ComposedIsNeeded, SentIsKnown, DeliveredWasMailed

LEMMA GenerateKeeps ==
    ASSUME MaxVersions \in Nat, BriefInv, NEW g \in Generators, Generate(g)
    PROVE  BriefInv' /\ UNCHANGED <<flags, config>>
<1> USE DEF BriefInv
<1> DEFINE Generating == [pc : {"idle", "composing", "written"}, overtaken : BOOLEAN]
           Mailing == [pc : {"idle", "found", "addressed", "mailed"},
                       version : 0..MaxVersions, overtaken : BOOLEAN]
<1>1. CASE BeginGenerate(g)
  <2>1. gen' \in [Generators -> Generating]
    <3>1. gen \in [Generators -> Generating]
      BY DEF BriefTypeOK
    <3>2. PICK new \in Generating : new = [gen[g] EXCEPT !.pc = "composing"]
      <4>1. gen[g] \in Generating
        BY <3>1
      <4>2. [gen[g] EXCEPT !.pc = "composing"] \in Generating
        BY <4>1, GenerationMoves
      <4>3. QED
        BY <4>2
    <3>3. gen' = [gen EXCEPT ![g] = new]
      BY <1>1, <3>2 DEF BeginGenerate
    <3>4. QED
      BY <3>1, <3>3
  <2>2. BriefTypeOK'
    BY <1>1, <2>1 DEF BeginGenerate, BriefTypeOK, flags
  <2>3. ComposedIsNeeded'
    BY <1>1 DEF BeginGenerate, ToGenerate, BriefTypeOK, ComposedIsNeeded
  <2>4. SentIsKnown' /\ DeliveredWasMailed'
    BY <1>1 DEF BeginGenerate, SentIsKnown, DeliveredWasMailed
  <2>5. QED
    BY <1>1, <2>2, <2>3, <2>4 DEF BeginGenerate
<1>2. CASE WriteReport(g)
  <2>1. report' = [status |-> "generated", version |-> report.version + 1]
        /\ report.version \in 0..MaxVersions /\ report.version < MaxVersions
    BY <1>2 DEF WriteReport, BriefTypeOK
  <2>2. gen' \in [Generators -> Generating]
    <3>1. ASSUME NEW h \in Generators
          PROVE  /\ gen[h] \in Generating
                 /\ [gen[h] EXCEPT !.overtaken = @ \/ gen[h].pc = "composing"] \in Generating
      <4>1. gen[h] \in Generating
        BY DEF BriefTypeOK
      <4>2. QED
        BY <4>1, GenerationMoves
    <3>2. [pc |-> "written", overtaken |-> FALSE] \in Generating
      OBVIOUS
    <3>3. QED
      BY <1>2, <3>1, <3>2 DEF WriteReport
  <2>3. sender' \in [Senders -> Mailing]
    <3>1. ASSUME NEW s \in Senders
          PROVE  [sender[s] EXCEPT !.overtaken = @ \/ sender[s].pc # "idle"] \in Mailing
      <4>1. sender[s] \in Mailing
        BY DEF BriefTypeOK
      <4>2. QED
        BY <4>1, HistoryIsTyped
    <3>2. QED
      BY <1>2, <3>1 DEF WriteReport
  <2>4. BriefTypeOK'
    <3>1. /\ report' \in [status : {"none", "generated", "delivered"}, version : 0..MaxVersions]
          /\ report'.status # "none" /\ report'.version # 0
          /\ 1..report.version \subseteq 1..report'.version
      BY <2>1
    <3>2. crossed' = FALSE /\ UNCHANGED <<flags, config, mailed>>
      BY <1>2 DEF WriteReport
    <3>3. QED
      BY <2>2, <2>3, <3>1, <3>2 DEF BriefTypeOK, flags
  <2>5. ComposedIsNeeded'
    <3>1. ASSUME NEW h \in Generators, gen'[h].pc = "composing"
          PROVE  gen'[h].overtaken
      <4>1. h # g
        BY <1>2, <3>1 DEF WriteReport
      <4>2. /\ gen[h] \in Generating
            /\ gen'[h] = [gen[h] EXCEPT !.overtaken = @ \/ gen[h].pc = "composing"]
        BY <1>2, <4>1 DEF WriteReport, BriefTypeOK
      <4>3. /\ gen'[h].pc = gen[h].pc
            /\ gen'[h].overtaken = (gen[h].overtaken \/ gen[h].pc = "composing")
        BY <4>2, GenerationMoves
      <4>4. QED
        BY <3>1, <4>3
    <3>2. QED
      BY <3>1 DEF ComposedIsNeeded
  <2>6. SentIsKnown'
    <3>1. ASSUME NEW s \in Senders, sender'[s].pc # "idle"
          PROVE  /\ sender'[s].version \in 1..report'.version
                 /\ sender'[s].overtaken
                 /\ sender'[s].pc = "mailed" => sender'[s].version \in mailed'
      <4>1. /\ sender[s] \in Mailing
            /\ sender'[s] = [sender[s] EXCEPT !.overtaken = @ \/ sender[s].pc # "idle"]
        BY <1>2 DEF WriteReport, BriefTypeOK
      <4>2. /\ sender'[s].version = sender[s].version /\ sender'[s].pc = sender[s].pc
            /\ sender'[s].overtaken = (sender[s].overtaken \/ sender[s].pc # "idle")
        BY <4>1, HistoryIsTyped
      <4>3. /\ sender[s].version \in 1..report.version
            /\ sender[s].pc = "mailed" => sender[s].version \in mailed
        BY <3>1, <4>2 DEF SentIsKnown
      <4>4. sender'[s].overtaken
        BY <3>1, <4>2
      <4>5. sender'[s].version \in 1..report'.version
        BY <2>1, <4>2, <4>3
      <4>6. mailed' = mailed
        BY <1>2 DEF WriteReport
      <4>7. QED
        BY <4>2, <4>3, <4>4, <4>5, <4>6
    <3>2. QED
      BY <3>1 DEF SentIsKnown
  <2>7. DeliveredWasMailed'
    BY <2>1 DEF DeliveredWasMailed
  <2>8. QED
    BY <1>2, <2>4, <2>5, <2>6, <2>7 DEF WriteReport
<1>3. CASE EndGenerate(g)
  <2>1. gen' \in [Generators -> Generating]
    BY <1>3 DEF EndGenerate, BriefTypeOK, GenIdle
  <2>2. BriefTypeOK'
    BY <1>3, <2>1 DEF EndGenerate, BriefTypeOK, flags
  <2>3. ComposedIsNeeded'
    BY <1>3 DEF EndGenerate, BriefTypeOK, ComposedIsNeeded, GenIdle
  <2>4. SentIsKnown' /\ DeliveredWasMailed'
    BY <1>3 DEF EndGenerate, SentIsKnown, DeliveredWasMailed
  <2>5. QED
    BY <1>3, <2>2, <2>3, <2>4 DEF EndGenerate
<1>4. QED
  BY <1>1, <1>2, <1>3 DEF Generate

\* The sender s comes to hold new; the brief may become DELIVERED.
LEMMA SenderMoves ==
    ASSUME MaxVersions \in Nat, BriefInv, NEW s \in Senders,
           NEW new \in [pc : {"idle", "found", "addressed", "mailed"},
                        version : 0..MaxVersions, overtaken : BOOLEAN],
           sender' = [sender EXCEPT ![s] = new],
           UNCHANGED <<flags, config, gen>>,
           mailed' \in SUBSET (1..report.version), mailed \subseteq mailed',
           \/ UNCHANGED <<report, crossed>>
           \/ report' = [report EXCEPT !.status = "delivered"] /\ DeliveredWasMailed'
              /\ report.version # 0 /\ crossed' \in BOOLEAN,
           new.pc # "idle" =>
               /\ new.version \in 1..report.version
               /\ new.overtaken \/ new.version = report.version
               /\ new.pc = "mailed" => new.version \in mailed'
    PROVE  BriefInv'
<1>1. report'.version = report.version
  BY DEF BriefInv, BriefTypeOK
<1>2. report'.status # report.status => report'.status = "delivered" /\ report.version # 0
  BY DEF BriefInv, BriefTypeOK
<1>3. report' \in [status : {"none", "generated", "delivered"}, version : 0..MaxVersions]
  <2>1. PICK held \in [status : {"none", "generated", "delivered"},
                       version : 0..MaxVersions] : held = report
    BY DEF BriefInv, BriefTypeOK
  <2>2. report' = held \/ report' = [held EXCEPT !.status = "delivered"]
    BY <2>1
  <2>3. QED
    BY <2>2
<1>4. BriefTypeOK'
  BY <1>1, <1>2, <1>3 DEF BriefInv, BriefTypeOK, flags
<1>5. ComposedIsNeeded'
  BY <1>2 DEF BriefInv, ComposedIsNeeded
<1>6. SentIsKnown'
  <2>1. \A t \in Senders : sender'[t] = IF t = s THEN new ELSE sender[t]
    BY DEF BriefInv, BriefTypeOK
  <2>2. SUFFICES ASSUME NEW t \in Senders, sender'[t].pc # "idle"
                 PROVE  /\ sender'[t].version \in 1..report.version
                        /\ sender'[t].overtaken \/ sender'[t].version = report.version
                        /\ sender'[t].pc = "mailed" => sender'[t].version \in mailed'
    BY <1>1 DEF SentIsKnown
  <2>3. CASE t = s
    BY <2>1, <2>2, <2>3
  <2>4. CASE t # s
    BY <2>1, <2>2, <2>4 DEF BriefInv, SentIsKnown
  <2>5. QED
    BY <2>3, <2>4
<1>7. DeliveredWasMailed'
  BY DEF BriefInv, DeliveredWasMailed
<1>8. QED
  BY <1>4, <1>5, <1>6, <1>7 DEF BriefInv

LEMMA SendKeeps ==
    ASSUME MaxVersions \in Nat, BriefInv, NEW s \in Senders, Send(s)
    PROVE  BriefInv' /\ UNCHANGED <<flags, config>>
<1> DEFINE Mailing == [pc : {"idle", "found", "addressed", "mailed"},
                       version : 0..MaxVersions, overtaken : BOOLEAN]
<1>1. /\ sender[s] \in Mailing /\ mailed \in SUBSET (1..report.version)
      /\ report.version \in 0..MaxVersions
      /\ sender[s].pc # "idle" =>
            /\ sender[s].version \in 1..report.version
            /\ sender[s].overtaken \/ sender[s].version = report.version
            /\ sender[s].pc = "mailed" => sender[s].version \in mailed
  BY DEF BriefInv, BriefTypeOK, SentIsKnown
<1>2. SenderIdle \in Mailing /\ SenderIdle.pc = "idle"
  BY DEF SenderIdle
<1>3. ASSUME EndSend(s), UNCHANGED <<flags, config, report, gen, mailed, crossed>>
      PROVE  BriefInv'
  <2>1. sender' = [sender EXCEPT ![s] = SenderIdle]
    BY <1>3 DEF EndSend
  <2>2. QED
    BY <1>1, <1>2, <1>3, <2>1, SenderMoves
<1>4. CASE FindReport(s)
  <2> DEFINE new == [pc |-> "found", version |-> report.version, overtaken |-> FALSE]
  <2>1. /\ report.status # "none" /\ sender' = [sender EXCEPT ![s] = new]
        /\ UNCHANGED <<flags, config, report, gen, mailed, crossed>>
    BY <1>4 DEF FindReport
  <2>2. report.version \in 1..report.version
    <3>1. report.version # 0
      BY <2>1 DEF BriefInv, BriefTypeOK
    <3>2. QED
      BY <1>1, <3>1
  <2>3. new \in Mailing /\ new.version = report.version /\ new.pc = "found"
    BY <1>1
  <2> HIDE DEF new
  <2>4. QED
    BY <1>1, <2>1, <2>2, <2>3, SenderMoves
<1>5. CASE ReadConfig(s) /\ config = "recipients"
  <2> DEFINE new == [sender[s] EXCEPT !.pc = "addressed"]
  <2>1. /\ sender[s].pc = "found" /\ sender' = [sender EXCEPT ![s] = new]
        /\ UNCHANGED <<flags, config, report, gen, mailed, crossed>>
    BY <1>5 DEF ReadConfig, SenderAt, SenderTo, BriefInv, BriefTypeOK
  <2>2. /\ new \in Mailing /\ new.pc = "addressed" /\ new.version = sender[s].version
        /\ new.overtaken = sender[s].overtaken
    BY <1>1
  <2> HIDE DEF new
  <2>3. QED
    BY <1>1, <2>1, <2>2, SenderMoves
<1>6. CASE Mail(s)
  <2> DEFINE new == [sender[s] EXCEPT !.pc = "mailed"]
  <2>1. /\ sender[s].pc = "addressed" /\ sender' = [sender EXCEPT ![s] = new]
        /\ UNCHANGED <<flags, config, report, gen, crossed>>
        /\ mailed' = mailed \cup {sender[s].version}
    BY <1>6 DEF Mail, SenderAt, SenderTo, BriefInv, BriefTypeOK
  <2>2. /\ new \in Mailing /\ new.pc = "mailed" /\ new.version = sender[s].version
        /\ new.overtaken = sender[s].overtaken
    BY <1>1
  <2>3. mailed' \in SUBSET (1..report.version) /\ mailed \subseteq mailed'
    BY <1>1, <2>1
  <2> HIDE DEF new
  <2>4. QED
    BY <1>1, <2>1, <2>2, <2>3, SenderMoves
<1>7. CASE Deliver(s)
  <2>1. /\ sender[s].pc = "mailed" /\ sender' = [sender EXCEPT ![s] = SenderIdle]
        /\ report' = [report EXCEPT !.status = "delivered"]
        /\ crossed' = sender[s].overtaken
        /\ UNCHANGED <<flags, config, gen, mailed>>
    BY <1>7 DEF Deliver, SenderAt, EndSend
  <2>2. report.version # 0 /\ report'.version = report.version
    <3>1. report \in [status : {"none", "generated", "delivered"}, version : 0..MaxVersions]
      BY DEF BriefInv, BriefTypeOK
    <3>2. report.version # 0
      BY <1>1, <2>1
    <3>3. QED
      BY <2>1, <3>1, <3>2
  <2>3. DeliveredWasMailed' /\ crossed' \in BOOLEAN
    BY <1>1, <2>1, <2>2 DEF DeliveredWasMailed
  <2>4. QED
    BY <1>1, <1>2, <2>1, <2>2, <2>3, SenderMoves
<1>8. CASE MailFails(s) \/ SenderDies(s) \/ (ReadConfig(s) /\ config # "recipients")
  BY <1>3, <1>8 DEF MailFails, SenderDies, ReadConfig
<1>9. BriefInv'
  BY <1>4, <1>5, <1>6, <1>7, <1>8 DEF Send
<1>10. UNCHANGED <<flags, config>>
  BY DEF Send, FindReport, ReadConfig, Mail, MailFails, Deliver, SenderDies
<1>11. QED
  BY <1>9, <1>10

LEMMA BriefKeeps ==
    ASSUME MaxVersions \in Nat, FlagInv, BriefInv, [BriefNext]_briefVars PROVE FlagInv' /\ BriefInv'
<1>1. ASSUME NEW k \in Commands, Command(k) PROVE FlagInv' /\ BriefInv'
  BY <1>1, FlagSteps, FlagStepsKeepBrief DEF FlagInv
<1>2. CASE Expire
  BY <1>2, ExpireKeeps, FlagStepsKeepBrief DEF FlagInv
<1>3. ASSUME NEW r \in WebProcesses, RequestStep(r) PROVE FlagInv' /\ BriefInv'
  BY <1>3, RequestSteps, FlagStepsKeepBrief DEF FlagInv
<1>4. ASSUME NEW g \in Generators, Generate(g) PROVE FlagInv' /\ BriefInv'
  BY <1>4, GenerateKeeps, BriefStepsKeepFlag DEF BriefInv
<1>5. ASSUME NEW s \in Senders, Send(s) PROVE FlagInv' /\ BriefInv'
  BY <1>5, SendKeeps, BriefStepsKeepFlag DEF BriefInv
<1>6. ASSUME NEW to \in {"none", "on", "off"}, AdminEdits(to) PROVE FlagInv' /\ BriefInv'
  BY <1>6, AdminKeeps, FlagStepsKeepBrief DEF FlagInv
<1>7. CASE UNCHANGED briefVars
  <2>1. BriefTypeOK'
    BY <1>7 DEF briefVars, flags, briefs, FlagInv, BriefTypeOK
  <2>2. QED
    BY <1>7, <2>1, BriefStepsKeepFlag, FlagStepsKeepBrief DEF briefVars
<1>8. QED
  BY <1>1, <1>2, <1>3, <1>4, <1>5, <1>6, <1>7 DEF BriefNext

\* The cache contradicts the row of the addon only while a command is between its
\* save and its cache.delete, or for a cause that is named: an edit in the Django
\* admin, a read that a save overlapped, a death.
THEOREM CachedFlagIsFresh == ASSUME MaxVersions \in Nat PROVE BriefSpec => []FlagIsFresh
<1>1. FlagInv => FlagIsFresh
  BY DEF FlagInv
<1>2. QED
  BY <1>1, BriefStart, BriefKeeps, PTL DEF BriefSpec

\* The text of a DELIVERED brief went out, unless it was rewritten while it was
\* mailed.
THEOREM DeliveredBriefWasMailed ==
    ASSUME MaxVersions \in Nat PROVE BriefSpec => []DeliveredWasMailed
<1>1. BriefInv => DeliveredWasMailed
  BY DEF BriefInv
<1>2. QED
  BY <1>1, BriefStart, BriefKeeps, PTL DEF BriefSpec

\* A GENERATED brief is replaced only by a generation that had begun before it was
\* there.
THEOREM BriefIsKept == ASSUME MaxVersions \in Nat PROVE BriefSpec => GenerationIsIdempotent
<1> DEFINE Replaces == report.status = "generated" /\ report'.version # report.version
           Overtaken == \E g \in Generators : gen[g].overtaken /\ gen'[g].pc = "written"
<1>1. BriefInv /\ FlagInv /\ [BriefNext]_briefVars => [Replaces => Overtaken]_briefVars
  <2>1. SUFFICES ASSUME BriefInv, FlagInv, BriefNext, Replaces PROVE Overtaken
    OBVIOUS
  <2>2. PICK g \in Generators : WriteReport(g)
    <3>1. ~UNCHANGED report
      BY <2>1
    <3>2. ASSUME NEW s \in Senders, Send(s) PROVE FALSE
      BY <2>1, <3>1, <3>2 DEF Send, FindReport, ReadConfig, Mail, MailFails, Deliver,
                              SenderDies, BriefInv, BriefTypeOK
    <3>3. ~Expire
      BY <2>1, <3>1, ExpireKeeps DEF briefs
    <3>4. \E g \in Generators : Generate(g)
      BY <2>1, <3>1, <3>2, <3>3, FlagSteps, RequestSteps, AdminKeeps DEF BriefNext, briefs
    <3>5. QED
      BY <3>1, <3>4 DEF Generate, BeginGenerate, EndGenerate
  <2>3. gen[g].pc = "composing" /\ gen'[g].pc = "written"
    BY <2>1, <2>2 DEF WriteReport, BriefInv, BriefTypeOK
  <2>4. gen[g].overtaken
    BY <2>1, <2>3 DEF BriefInv, ComposedIsNeeded
  <2>5. QED
    BY <2>3, <2>4
<1>2. QED
  BY <1>1, BriefStart, BriefKeeps, PTL DEF BriefSpec, GenerationIsIdempotent
=============================================================================
