-------------------------- MODULE AgentInvocation --------------------------
(***************************************************************************)
(* A chat message and the agents that answer it: send_message of apps/chat, *)
(* Orchestrator.handle, the run_specialist tasks of apps/agents, and the   *)
(* LLM gateway all of them call.                                           *)
(*                                                                         *)
(* A web process stores the message, classifies it with the LLM, has the   *)
(* chosen specialists run as a Celery group, waits at most 120 seconds for *)
(* their results and lets the LLM compose the reply. Celery workers run    *)
(* the specialists. A completion looks the prompt up in the cache, else    *)
(* calls the LLM, stores the answer and records the usage; a specialist    *)
(* with tools calls the LLM several times and records the sum at the end.  *)
(*                                                                         *)
(* Tasks are acknowledged when a worker takes them: a task whose worker    *)
(* dies is lost. Prompts of one kind may be equal or differ: a look-up may  *)
(* hit an answer stored for a prompt of that kind, and may always miss, as  *)
(* it does when the entry has expired. The cache and the LLM may raise; the *)
(* database does not fail here.                                            *)
(***************************************************************************)
EXTENDS Naturals, FiniteSets

CONSTANTS
    Requests,     \* messages, each handled by a web process
    Workers,      \* Celery workers
    Specialists,  \* REGISTRY, strings
    ToolUsers,    \* specialists with tool_names; the others call complete()
    MaxTurns,     \* max_tool_iterations
    MaxFailures,  \* bound: LLM calls and cache accesses that raise
    MaxDeaths     \* bound: processes that die

ASSUME InvocationAssumption ==
    /\ Requests \cap Workers = {}
    /\ IsFiniteSet(Requests) /\ IsFiniteSet(Workers)
    /\ ToolUsers \subseteq Specialists
    /\ MaxTurns \in Nat \ {0} /\ MaxFailures \in Nat /\ MaxDeaths \in Nat

VARIABLES
    req,        \* req[q]: where send_message stands with message q
    llm,        \* llm[a]: the completion of web process or worker a
    cache,      \* prompts whose answer has been cached
    queue,      \* run_specialist tasks in the broker
    task,       \* task[w]: the task worker w runs, {} or a singleton
    result,     \* result[q]: the results of the group of q
    asked,      \* messages of the user in the conversation
    assistant,  \* assistant[q]: the reply to q in the conversation
    compliance, \* messages with a ComplianceLog row
    calls,      \* LLM calls answered
    billed,     \* LLM calls that the LLMUsage rows not marked cached count
    failures,   \* LLM calls and cache accesses that raised
    deaths      \* processes that died

groupVars == <<queue, task, result>>
chatVars  == <<asked, assistant, compliance>>
usageVars == <<calls, billed>>
faultVars == <<failures, deaths>>
vars == <<req, llm, cache, groupVars, chatVars, usageVars, faultVars>>

-----------------------------------------------------------------------------
Task == [req : Requests, name : Specialists]

\* A prompt: what it is for, with the specialists whose reports it contains.
Classifying == {"classify"}
Composing(names) == {"compose"} \cup names
Asking(name) == {name}
Prompts == SUBSET (Specialists \cup {"classify", "compose"})

\* "looking": the cache is asked next. "asking": the LLM is. spent: its calls
\* answered and not yet recorded.
Completion ==
    [stage : {"none", "looking", "asking", "storing", "recording", "done", "failed"},
     prompt : Prompts, turn : 1..MaxTurns, spent : 0..MaxTurns]

NoCompletion == [stage |-> "none", prompt |-> {}, turn |-> 1, spent |-> 0]

Request ==
    [pc : {"idle", "guarding", "classifying", "gathering", "composing",
           "logging", "replying", "over", "dead"},
     chosen : SUBSET Specialists,
     reply : {"none", "rejected", "fallback", "answer"}]

TypeOK ==
    /\ req \in [Requests -> Request]
    /\ llm \in [Requests \cup Workers -> Completion]
    /\ cache \subseteq Prompts
    /\ queue \subseteq Task
    /\ task \in [Workers -> SUBSET Task]
    /\ \A w \in Workers : Cardinality(task[w]) <= 1
    /\ \A w \in Workers : task[w] = {} => llm[w] = NoCompletion
    /\ result \in [Requests -> [Specialists -> {"none", "ok", "error"}]]
    /\ asked \subseteq Requests
    /\ assistant \in [Requests -> {"none", "rejected", "fallback", "answer"}]
    /\ compliance \subseteq Requests
    /\ calls \in Nat /\ billed \in Nat
    /\ failures \in 0..MaxFailures /\ deaths \in 0..MaxDeaths

Init ==
    /\ req = [q \in Requests |-> [pc |-> "idle", chosen |-> {}, reply |-> "none"]]
    /\ llm = [a \in Requests \cup Workers |-> NoCompletion]
    /\ cache = {} /\ queue = {}
    /\ task = [w \in Workers |-> {}]
    /\ result = [q \in Requests |-> [s \in Specialists |-> "none"]]
    /\ asked = {} /\ compliance = {}
    /\ assistant = [q \in Requests |-> "none"]
    /\ calls = 0 /\ billed = 0 /\ failures = 0 /\ deaths = 0

-----------------------------------------------------------------------------
(* The LLM gateway, on behalf of a web process or a worker a.              *)

Stage(a) == llm[a].stage

Complete(prompt) == [NoCompletion EXCEPT !.stage = "looking", !.prompt = prompt]
CompleteWithTools(prompt) == [NoCompletion EXCEPT !.stage = "asking", !.prompt = prompt]

UsesTools(a) == \E s \in ToolUsers : llm[a].prompt = Asking(s)

Advance(a, stage) == llm' = [llm EXCEPT ![a].stage = stage]

\* A hit is recorded as a row of its own, marked cached: no call is made, and
\* `billed` is not what such a row says.
LookUp(a) ==
    /\ Stage(a) = "looking"
    /\ \/ llm[a].prompt \in cache /\ Advance(a, "done")
       \/ Advance(a, "asking")
    /\ UNCHANGED <<req, cache, groupVars, chatVars, usageVars, faultVars>>

\* Mutation: the turns are counted from zero.
AnsweredOnceMore(a) ==
    /\ Stage(a) = "asking"
    /\ calls' = calls + 1
    /\ \/ /\ UsesTools(a) /\ llm[a].turn <= MaxTurns
          /\ llm' = [llm EXCEPT ![a].turn = @ + 1, ![a].spent = @ + 1]
       \/ llm' = [llm EXCEPT ![a].spent = @ + 1,
                             ![a].stage = IF UsesTools(a) THEN "recording" ELSE "storing"]
    /\ UNCHANGED <<req, cache, groupVars, chatVars, billed, faultVars>>

\* messages.create returns. A model that asks for tools is called again with
\* what they return, unless the turns are used up.
Answered(a) ==
    /\ Stage(a) = "asking"
    /\ calls' = calls + 1
    /\ \/ /\ UsesTools(a) /\ llm[a].turn < MaxTurns
          /\ llm' = [llm EXCEPT ![a].turn = @ + 1, ![a].spent = @ + 1]
       \/ llm' = [llm EXCEPT ![a].spent = @ + 1,
                             ![a].stage = IF UsesTools(a) THEN "recording" ELSE "storing"]
    /\ UNCHANGED <<req, cache, groupVars, chatVars, billed, faultVars>>

\* cache.get, the call (for complete() after its retries) or cache.set raises.
\* What the call whose answer was to be cached spent, or what earlier turns of a
\* tool loop did, goes with it: the usage is recorded last.
CallFails(a) ==
    /\ Stage(a) \in {"looking", "asking", "storing"}
    /\ failures < MaxFailures
    /\ failures' = failures + 1
    /\ llm' = [llm EXCEPT ![a] = [NoCompletion EXCEPT !.stage = "failed"]]
    /\ UNCHANGED <<req, cache, groupVars, chatVars, usageVars, deaths>>

StoreAnswer(a) ==
    /\ Stage(a) = "storing"
    /\ cache' = cache \cup {llm[a].prompt}
    /\ Advance(a, "recording")
    /\ UNCHANGED <<req, groupVars, chatVars, usageVars, faultVars>>

\* Mutation: the row is that of the last call only.
RecordLastCall(a) ==
    /\ Stage(a) = "recording"
    /\ billed' = billed + 1
    /\ llm' = [llm EXCEPT ![a].stage = "done", ![a].spent = 0]
    /\ UNCHANGED <<req, cache, groupVars, chatVars, calls, faultVars>>

\* _record_usage.
RecordUsage(a) ==
    /\ Stage(a) = "recording"
    /\ billed' = billed + llm[a].spent
    /\ llm' = [llm EXCEPT ![a].stage = "done", ![a].spent = 0]
    /\ UNCHANGED <<req, cache, groupVars, chatVars, calls, faultVars>>

GatewayStep(a) ==
    LookUp(a) \/ Answered(a) \/ CallFails(a) \/ StoreAnswer(a) \/ RecordUsage(a)

-----------------------------------------------------------------------------
(* send_message and Orchestrator.handle.                                   *)

At(q, where) == req[q].pc = where

\* The row of the user's message is there before anything can go wrong.
StoreMessage(q) ==
    /\ At(q, "idle")
    /\ asked' = asked \cup {q}
    /\ req' = [req EXCEPT ![q].pc = "guarding"]
    /\ UNCHANGED <<llm, cache, groupVars, assistant, compliance, usageVars, faultVars>>

\* detect_prompt_injection rejects the message; else it is classified.
Guard(q) ==
    /\ At(q, "guarding")
    /\ \/ /\ req' = [req EXCEPT ![q].pc = "replying", ![q].reply = "rejected"]
          /\ UNCHANGED llm
       \/ /\ req' = [req EXCEPT ![q].pc = "classifying"]
          /\ llm' = [llm EXCEPT ![q] = Complete(Classifying)]
    /\ UNCHANGED <<cache, groupVars, chatVars, usageVars, faultVars>>

\* An exception of handle is caught by _run_agent.
FallBack(q) ==
    /\ req' = [req EXCEPT ![q].pc = "replying", ![q].reply = "fallback"]
    /\ llm' = [llm EXCEPT ![q] = NoCompletion]

\* The intent names specialists, which are queued as a group, or none; or it is
\* not JSON.
Classified(q) ==
    /\ At(q, "classifying") /\ Stage(q) = "done"
    /\ \/ FallBack(q) /\ UNCHANGED queue
       \/ \E names \in SUBSET Specialists \ {{}} :
             /\ queue' = queue \cup {[req |-> q, name |-> s] : s \in names}
             /\ req' = [req EXCEPT ![q].pc = "gathering", ![q].chosen = names]
             /\ llm' = [llm EXCEPT ![q] = NoCompletion]
       \/ /\ req' = [req EXCEPT ![q].pc = "composing"]
          /\ llm' = [llm EXCEPT ![q] = Complete(Composing({}))]
          /\ UNCHANGED queue
    /\ UNCHANGED <<cache, task, result, chatVars, usageVars, faultVars>>

Results(q) == {result[q][s] : s \in req[q].chosen}

Compose(q) ==
    /\ req' = [req EXCEPT ![q].pc = "composing"]
    /\ llm' = [llm EXCEPT ![q] = Complete(Composing(req[q].chosen))]

\* Mutation: job.get does not propagate, and what is there is composed.
GatheredAnything(q) ==
    /\ At(q, "gathering")
    /\ Results(q) \cap {"ok", "error"} # {}
    /\ Compose(q)
    /\ UNCHANGED <<cache, groupVars, chatVars, usageVars, faultVars>>

Gathered(q) ==
    /\ At(q, "gathering")
    /\ Results(q) = {"ok"}
    /\ Compose(q)
    /\ UNCHANGED <<cache, groupVars, chatVars, usageVars, faultVars>>

\* Mutation: job.get() without a timeout.
GatherRaises(q) ==
    /\ At(q, "gathering")
    /\ "error" \in Results(q)
    /\ FallBack(q)
    /\ UNCHANGED <<cache, groupVars, chatVars, usageVars, faultVars>>

\* job.get raises what a specialist raised, at once, or after 120 seconds that
\* not all results are there. The tasks of the group go on.
GatherFails(q) ==
    /\ At(q, "gathering")
    /\ Results(q) \cap {"error", "none"} # {}
    /\ FallBack(q)
    /\ UNCHANGED <<cache, groupVars, chatVars, usageVars, faultVars>>

Composed(q) ==
    /\ At(q, "composing") /\ Stage(q) = "done"
    /\ req' = [req EXCEPT ![q].pc = "logging"]
    /\ llm' = [llm EXCEPT ![q] = NoCompletion]
    /\ UNCHANGED <<cache, groupVars, chatVars, usageVars, faultVars>>

\* The gateway raised while classifying or composing.
GatewayRaised(q) ==
    /\ Stage(q) = "failed"
    /\ FallBack(q)
    /\ UNCHANGED <<cache, groupVars, chatVars, usageVars, faultVars>>

\* Mutation: only output that passes the validation is logged.
LogIfValid(q) ==
    /\ At(q, "logging")
    /\ \E valid \in BOOLEAN :
          /\ compliance' = IF valid THEN compliance \cup {q} ELSE compliance
          /\ req' = [req EXCEPT ![q].pc = "replying", ![q].reply = "answer"]
    /\ UNCHANGED <<llm, cache, groupVars, asked, assistant, usageVars, faultVars>>

\* log_for_compliance. An empty output is logged, and shown as the fallback.
Log(q) ==
    /\ At(q, "logging")
    /\ compliance' = compliance \cup {q}
    /\ \E reply \in {"answer", "fallback"} :
          req' = [req EXCEPT ![q].pc = "replying", ![q].reply = reply]
    /\ UNCHANGED <<llm, cache, groupVars, asked, assistant, usageVars, faultVars>>

StoreReply(q) ==
    /\ At(q, "replying")
    /\ assistant' = [assistant EXCEPT ![q] = req[q].reply]
    /\ req' = [req EXCEPT ![q].pc = "over"]
    /\ UNCHANGED <<llm, cache, groupVars, asked, compliance, usageVars, faultVars>>

WebDies(q) ==
    /\ req[q].pc \notin {"idle", "over", "dead"}
    /\ deaths < MaxDeaths
    /\ deaths' = deaths + 1
    /\ req' = [req EXCEPT ![q].pc = "dead"]
    /\ llm' = [llm EXCEPT ![q] = NoCompletion]
    /\ UNCHANGED <<cache, groupVars, chatVars, usageVars, failures>>

HandleStep(q) ==
    \/ Guard(q) \/ Classified(q) \/ Gathered(q) \/ GatherFails(q)
    \/ Composed(q) \/ GatewayRaised(q) \/ Log(q) \/ StoreReply(q)

-----------------------------------------------------------------------------
(* run_specialist.                                                         *)

TakeTask(w, t) ==
    /\ task[w] = {}
    /\ queue' = queue \ {t}
    /\ task' = [task EXCEPT ![w] = {t}]
    /\ llm' = [llm EXCEPT ![w] = IF t.name \in ToolUsers
                                   THEN CompleteWithTools(Asking(t.name))
                                   ELSE Complete(Asking(t.name))]
    /\ UNCHANGED <<req, cache, result, chatVars, usageVars, faultVars>>

Finish(w, t, value) ==
    /\ result' = [result EXCEPT ![t.req][t.name] = value]
    /\ task' = [task EXCEPT ![w] = {}]
    /\ llm' = [llm EXCEPT ![w] = NoCompletion]
    /\ UNCHANGED <<req, cache, queue, chatVars, usageVars, faultVars>>

\* A specialist without tools searches first, and answers itself for no hits.
NoHits(w, t) ==
    /\ t.name \notin ToolUsers /\ Stage(w) = "looking"
    /\ Finish(w, t, "ok")

SpecialistAnswers(w, t) == Stage(w) = "done" /\ Finish(w, t, "ok")

SpecialistRaises(w, t) == Stage(w) = "failed" /\ Finish(w, t, "error")

WorkerDies(w) ==
    /\ task[w] # {}
    /\ deaths < MaxDeaths
    /\ deaths' = deaths + 1
    /\ task' = [task EXCEPT ![w] = {}]
    /\ llm' = [llm EXCEPT ![w] = NoCompletion]
    /\ UNCHANGED <<req, cache, queue, result, chatVars, usageVars, failures>>

WorkerStep(w) ==
    \/ \E t \in queue : TakeTask(w, t)
    \/ \E t \in task[w] : NoHits(w, t) \/ SpecialistAnswers(w, t) \/ SpecialistRaises(w, t)
    \/ WorkerDies(w)

Next ==
    \/ \E a \in Requests \cup Workers : GatewayStep(a)
    \/ \E q \in Requests : StoreMessage(q) \/ HandleStep(q) \/ WebDies(q)
    \/ \E w \in Workers : WorkerStep(w)

Spec == Init /\ [][Next]_vars

\* A web process that is alive goes on: the LLM client and job.get have timeouts.
\* Nothing is assumed of the workers.
FairSpec == Spec /\ \A q \in Requests : WF_vars(HandleStep(q) \/ GatewayStep(q))

-----------------------------------------------------------------------------
(* Properties.                                                             *)

Outstanding(q) == {t \in queue \cup UNION {task[w] : w \in Workers} : t.req = q}

\* A reply is composed from the reports of all specialists chosen for it and
\* never from some of them: then none of its tasks is queued or running. Work
\* that goes on for a message that is over follows a fallback or a death.
AnswerIsWhole ==
    \A q \in Requests :
        At(q, "composing") \/ At(q, "logging") \/ req[q].reply = "answer" =>
            /\ \A s \in req[q].chosen : result[q][s] = "ok"
            /\ Outstanding(q) = {}

\* What the model wrote is shown only once its compliance row exists, and a row
\* exists only for a message whose composition came to its end.
AnswerIsLogged ==
    \A q \in Requests :
        /\ assistant[q] = "answer" => q \in compliance
        /\ q \in compliance => req[q].pc \in {"replying", "over", "dead"}

\* The calls answered and not recorded: each process has its first, its second ...
Unrecorded == UNION {{a} \X (1..llm[a].spent) : a \in Requests \cup Workers}

InFlight == Cardinality(Unrecorded)

\* The LLMUsage rows that are not marked cached never count a call twice, and
\* miss calls only with a process that died, a tool loop one of whose later calls
\* raised, or an answer the cache did not take: no more than one completion for
\* each such fault. Rows of cache hits repeat what the call they stand for cost.
UsageIsAccounted ==
    /\ billed + InFlight <= calls
    /\ calls <= billed + InFlight + MaxTurns * (failures + deaths)

\* Every message of the user gets a reply, be it the fallback, however few
\* workers live: only the death of its web process leaves it without one.
MessageIsAnswered ==
    \A q \in Requests : q \in asked ~> (assistant[q] # "none" \/ At(q, "dead"))
=============================================================================
