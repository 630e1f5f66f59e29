----------------------------- MODULE AddonBrief -----------------------------
(***************************************************************************)
(* One addon of one tenant, the weekly brief: the commands that activate   *)
(* and deactivate it, the Django admin, which edits the same row, the flag *)
(* its views ask for, which the shared cache keeps for five minutes, and   *)
(* the brief of one week as the generate and send tasks treat it. The      *)
(* tasks ask for no flag.                                                  *)
(*                                                                         *)
(* Commands, requests and tasks overlap, and each may die between two      *)
(* statements; every statement is a transaction of its own. The sections   *)
(* and the summary of a brief are known by the generation that wrote them: *)
(* a section or a summary that fails leaves a remark in its place, and the *)
(* generation goes on.                                                     *)
(***************************************************************************)
EXTENDS Naturals

CONSTANTS
    Commands,     \* runs of activate_addon and deactivate_addon, once each
    WebProcesses, \* processes that serve the addon's views
    Generators,   \* tasks that generate the brief
    Senders,      \* tasks that mail it
    MaxEdits,     \* bound: saves of the row in the Django admin
    MaxVersions   \* bound: briefs written

ASSUME VersionsAssumption == MaxVersions \in Nat
ASSUME EditsAssumption == MaxEdits \in Nat

VARIABLES
    flag,       \* the AddonActivation row: "none", "on" or "off"
    entry,      \* the entry ff:{tenant}:{addon}: its value, and whether it expires
    command,    \* command[k]: where it stands
    edits,      \* counter: saves in the Django admin
    request,    \* request[r]: where is_enabled stands, and the value it holds
    config,     \* the WeeklyBriefConfig row: "none", "empty" or "recipients"
    report,     \* the WeeklyBriefReport row of the week: status, version
    gen,        \* gen[g]: where the task stands
    sender,     \* sender[s]: where the task stands, and the version it holds
    mailed,     \* history: versions that went out
    excused,    \* history: a stale entry is explained by an edit, an overlap or a death
    crossed     \* history: the delivered brief was rewritten while it was mailed

flags == <<flag, entry, command, edits, request, excused>>
briefs == <<report, gen, sender, mailed, crossed>>
briefVars == <<flags, config, briefs>>

NoEntry == [value |-> "none", expires |-> TRUE]

BriefTypeOK ==
    /\ flag \in {"none", "on", "off"}
    /\ entry \in [value : {"none", "on", "off"}, expires : BOOLEAN]
    /\ command \in [Commands -> {"new", "activated", "deactivated", "visible", "over"}]
    /\ edits \in Nat
    /\ request \in [WebProcesses -> [pc : {"idle", "missed", "read", "let in"},
                                 value : {"none", "on", "off"}, overlapped : BOOLEAN]]
    /\ config \in {"none", "empty", "recipients"}
    /\ report \in [status : {"none", "generated", "delivered"}, version : 0..MaxVersions]
    /\ gen \in [Generators -> [pc : {"idle", "composing", "written"}, overtaken : BOOLEAN]]
    /\ sender \in [Senders -> [pc : {"idle", "found", "addressed", "mailed"},
                               version : 0..MaxVersions, overtaken : BOOLEAN]]
    /\ mailed \subseteq 1..report.version
    /\ report.status = "none" <=> report.version = 0

RequestIdle == [pc |-> "idle", value |-> "none", overlapped |-> FALSE]
GenIdle == [pc |-> "idle", overtaken |-> FALSE]
SenderIdle == [pc |-> "idle", version |-> 0, overtaken |-> FALSE]

BriefInit ==
    /\ flag = "none"
    /\ entry = NoEntry
    /\ command = [k \in Commands |-> "new"]
    /\ edits = 0
    /\ request = [r \in WebProcesses |-> RequestIdle]
    /\ config = "none"
    /\ report = [status |-> "none", version |-> 0]
    /\ gen = [g \in Generators |-> GenIdle]
    /\ sender = [s \in Senders |-> SenderIdle]
    /\ mailed = {}
    /\ excused = FALSE
    /\ crossed = FALSE

-----------------------------------------------------------------------------
(* The flag: enable and disable of core/feature_flags.py, in the commands. *)

\* The row changes; who holds a value read before now holds an old one.
Commits(to) ==
    /\ flag' = to
    /\ request' = [r \in WebProcesses |->
           IF request[r].pc = "read" THEN [request[r] EXCEPT !.overlapped = TRUE]
           ELSE request[r]]
    /\ UNCHANGED <<config, briefs>>

\* enable: update_or_create.
Activate(k) ==
    /\ command[k] = "new"
    /\ command' = [command EXCEPT ![k] = "activated"]
    /\ Commits("on")
    /\ UNCHANGED <<entry, edits, excused>>

\* disable: an update of the row, if there is one.
Deactivate(k) ==
    /\ command[k] = "new"
    /\ command' = [command EXCEPT ![k] = "deactivated"]
    /\ Commits(IF flag = "none" THEN "none" ELSE "off")
    /\ UNCHANGED <<entry, edits, excused>>

\* AddonActivationAdmin: staff add the row, tick `active`, or delete the row.
\* Nothing tells the cache: an entry that is there stays.
AdminEdits(to) ==
    /\ edits < MaxEdits
    /\ to # flag
    /\ edits' = edits + 1
    /\ Commits(to)
    /\ excused' = (excused \/ entry.value # "none")
    /\ UNCHANGED <<entry, command>>

\* Mutation: the entry is left to expire.
KeepKey(k) ==
    /\ command[k] \in {"activated", "deactivated"}
    /\ command' = [command EXCEPT ![k] = IF @ = "activated" THEN "visible" ELSE "over"]
    /\ UNCHANGED <<flag, entry, edits, request, excused, config, briefs>>

\* cache.delete. on_deactivate does nothing.
DeleteKey(k) ==
    /\ command[k] \in {"activated", "deactivated"}
    /\ command' = [command EXCEPT ![k] = IF @ = "activated" THEN "visible" ELSE "over"]
    /\ entry' = NoEntry
    /\ excused' = FALSE
    /\ UNCHANGED <<flag, edits, request, config, briefs>>

\* call_lifecycle: on_activate makes the configuration, unless there is one.
\* An exception of the hook is logged.
OnActivate(k) ==
    /\ command[k] = "visible"
    /\ command' = [command EXCEPT ![k] = "over"]
    /\ config' \in {config, IF config = "none" THEN "empty" ELSE config}
    /\ UNCHANGED <<flag, entry, edits, request, excused, briefs>>

CommandDies(k) ==
    /\ command[k] \notin {"new", "over"}
    /\ command' = [command EXCEPT ![k] = "over"]
    /\ excused' = (excused \/ command[k] \in {"activated", "deactivated"})
    /\ UNCHANGED <<flag, entry, edits, request, config, briefs>>

Expire ==
    /\ entry.value # "none"
    /\ entry.expires
    /\ entry' = NoEntry
    /\ excused' = FALSE
    /\ UNCHANGED <<flag, command, edits, request, config, briefs>>

-----------------------------------------------------------------------------
(* A request for one of the addon's views: addon_required, is_enabled.     *)

RequestAt(r, pc) == request[r].pc = pc
Hold(r, holds) == request' = [request EXCEPT ![r] = holds]

\* What becomes of the request: let in, or 404.
Decided(value) == IF value = "on" THEN [RequestIdle EXCEPT !.pc = "let in"] ELSE RequestIdle

AskCache(r) ==
    /\ RequestAt(r, "idle")
    /\ Hold(r, IF entry.value = "none" THEN [RequestIdle EXCEPT !.pc = "missed"]
               ELSE Decided(entry.value))
    /\ UNCHANGED <<flag, entry, command, edits, excused, config, briefs>>

ReadFlag(r) ==
    /\ RequestAt(r, "missed")
    /\ Hold(r, [RequestIdle EXCEPT !.pc = "read",
                                   !.value = IF flag = "on" THEN "on" ELSE "off"])
    /\ UNCHANGED <<flag, entry, command, edits, excused, config, briefs>>

\* Mutation: a flag seldom changes, so it is cached for good.
SetCacheForGood(r) ==
    /\ RequestAt(r, "read")
    /\ entry' = [value |-> request[r].value, expires |-> FALSE]
    /\ excused' = request[r].overlapped
    /\ Hold(r, Decided(request[r].value))
    /\ UNCHANGED <<flag, command, edits, config, briefs>>

SetCache(r) ==
    /\ RequestAt(r, "read")
    /\ entry' = [value |-> request[r].value, expires |-> TRUE]
    /\ excused' = request[r].overlapped
    /\ Hold(r, Decided(request[r].value))
    /\ UNCHANGED <<flag, command, edits, config, briefs>>

\* home, history, detail and pdf_export change nothing.
View(r) ==
    /\ RequestAt(r, "let in")
    /\ Hold(r, RequestIdle)
    /\ UNCHANGED <<flag, entry, command, edits, excused, config, briefs>>

\* configure makes the configuration where there is none, and saves the form.
Configure(r) ==
    /\ RequestAt(r, "let in")
    /\ Hold(r, RequestIdle)
    /\ config' \in {"empty", "recipients"}
    /\ UNCHANGED <<flag, entry, command, edits, excused, briefs>>

RequestDies(r) ==
    /\ ~RequestAt(r, "idle")
    /\ Hold(r, RequestIdle)
    /\ UNCHANGED <<flag, entry, command, edits, excused, config, briefs>>

-----------------------------------------------------------------------------
(* generate_weekly_brief_for_tenant: WeeklyBriefGenerator.generate.        *)

\* Mutation: the week's brief is looked up, not its status.
ToGenerateAgain == TRUE

\* A brief that is GENERATED is returned as it is.
ToGenerate == report.status # "generated"

BeginGenerate(g) ==
    /\ gen[g].pc = "idle"
    /\ ToGenerate
    /\ gen' = [gen EXCEPT ![g].pc = "composing"]
    /\ UNCHANGED <<flags, config, report, sender, mailed, crossed>>

\* update_or_create, after the sections have been collected and the summary
\* composed: the brief of the week is GENERATED, whatever it was. Tasks that
\* hold the one before are overtaken.
WriteReport(g) ==
    /\ gen[g].pc = "composing"
    /\ report.version < MaxVersions
    /\ report' = [status |-> "generated", version |-> report.version + 1]
    /\ gen' = [h \in Generators |->
           IF h = g THEN [pc |-> "written", overtaken |-> FALSE]
           ELSE [gen[h] EXCEPT !.overtaken = @ \/ gen[h].pc = "composing"]]
    /\ sender' = [s \in Senders |->
           [sender[s] EXCEPT !.overtaken = @ \/ sender[s].pc # "idle"]]
    /\ crossed' = FALSE
    /\ UNCHANGED <<flags, config, mailed>>

\* LongTermMemory().index, done or failed, or the task dies.
EndGenerate(g) ==
    /\ gen[g].pc # "idle"
    /\ gen' = [gen EXCEPT ![g] = GenIdle]
    /\ UNCHANGED <<flags, config, report, sender, mailed, crossed>>

-----------------------------------------------------------------------------
(* send_weekly_brief_email. Which status the brief has is not asked.       *)

SenderAt(s, pc) == sender[s].pc = pc
SenderTo(s, pc) == sender' = [sender EXCEPT ![s].pc = pc]
EndSend(s) == sender' = [sender EXCEPT ![s] = SenderIdle]

\* Mutation: that there is a report is taken for granted.
FindReportUnchecked(s) ==
    /\ SenderAt(s, "idle")
    /\ sender' = [sender EXCEPT ![s] = [pc |-> "found", version |-> report.version,
                                        overtaken |-> FALSE]]
    /\ UNCHANGED <<flags, config, report, gen, mailed, crossed>>

FindReport(s) ==
    /\ SenderAt(s, "idle")
    /\ report.status # "none"
    /\ sender' = [sender EXCEPT ![s] = [pc |-> "found", version |-> report.version,
                                        overtaken |-> FALSE]]
    /\ UNCHANGED <<flags, config, report, gen, mailed, crossed>>

\* Without recipients there is nothing to do.
ReadConfig(s) ==
    /\ SenderAt(s, "found")
    /\ IF config = "recipients" THEN SenderTo(s, "addressed") ELSE EndSend(s)
    /\ UNCHANGED <<flags, config, report, gen, mailed, crossed>>

Mail(s) ==
    /\ SenderAt(s, "addressed")
    /\ mailed' = mailed \cup {sender[s].version}
    /\ SenderTo(s, "mailed")
    /\ UNCHANGED <<flags, config, report, gen, crossed>>

\* Mutation: fail_silently=True.
MailFailsSilently(s) ==
    /\ SenderAt(s, "addressed")
    /\ SenderTo(s, "mailed")
    /\ UNCHANGED <<flags, config, report, gen, mailed, crossed>>

\* send_mail raises, and the task ends.
MailFails(s) ==
    /\ SenderAt(s, "addressed")
    /\ EndSend(s)
    /\ UNCHANGED <<flags, config, report, gen, mailed, crossed>>

\* status and delivered_at are saved; the text of the row is left as it is.
Deliver(s) ==
    /\ SenderAt(s, "mailed")
    /\ report' = [report EXCEPT !.status = "delivered"]
    /\ crossed' = sender[s].overtaken
    /\ EndSend(s)
    /\ UNCHANGED <<flags, config, gen, mailed>>

SenderDies(s) ==
    /\ ~SenderAt(s, "idle")
    /\ EndSend(s)
    /\ UNCHANGED <<flags, config, report, gen, mailed, crossed>>

-----------------------------------------------------------------------------
Command(k) ==
    Activate(k) \/ Deactivate(k) \/ DeleteKey(k) \/ OnActivate(k) \/ CommandDies(k)

IsEnabled(r) == ReadFlag(r) \/ SetCache(r) \/ RequestDies(r)

RequestStep(r) == AskCache(r) \/ IsEnabled(r) \/ View(r) \/ Configure(r)

Generate(g) == BeginGenerate(g) \/ WriteReport(g) \/ EndGenerate(g)

Send(s) ==
    FindReport(s) \/ ReadConfig(s) \/ Mail(s) \/ MailFails(s) \/ Deliver(s) \/ SenderDies(s)

BriefNext ==
    \/ \E k \in Commands : Command(k)
    \/ \E to \in {"none", "on", "off"} : AdminEdits(to)
    \/ Expire
    \/ \E r \in WebProcesses : RequestStep(r)
    \/ \E g \in Generators : Generate(g)
    \/ \E s \in Senders : Send(s)

\* An entry's five minutes pass, and a request that has asked the cache comes
\* to its end. Nothing makes an operator, or a task, go on.
BriefSpec == BriefInit /\ [][BriefNext]_briefVars /\ WF_briefVars(Expire)
             /\ \A r \in WebProcesses : WF_briefVars(IsEnabled(r))

-----------------------------------------------------------------------------
(* Properties.                                                             *)

Holds(value) == value = IF flag = "on" THEN "on" ELSE "off"

\* The cache contradicts the row of the addon only while a command stands
\* between its save and its cache.delete, or died there, or a request read the
\* row before a save and wrote the cache after it (and, for a command's save,
\* after its delete), or the row was edited in the Django admin, which deletes
\* no key, while the entry was there.
FlagIsFresh ==
    \/ entry.value = "none" \/ Holds(entry.value)
    \/ \E k \in Commands : command[k] \in {"activated", "deactivated"}
    \/ excused

\* Whatever overlapped, and wherever the row was changed, views come to agree
\* with the last change: a stale entry is not renewed by the requests it
\* answers.
FlagConverges == <>[](entry.value = "none" \/ Holds(entry.value))

\* Generating again leaves a GENERATED brief as it is; only a generation that
\* had begun before it was there replaces it.
GenerationIsIdempotent ==
    [][report.status = "generated" /\ report'.version # report.version
       => \E g \in Generators : gen[g].overtaken /\ gen'[g].pc = "written"]_briefVars

\* The text of a DELIVERED brief went out, unless another generation wrote it
\* between the task's reading of the brief and its saving of the status.
DeliveredWasMailed ==
    report.status = "delivered" /\ ~crossed => report.version \in mailed
=============================================================================
