---------------------------- MODULE BeatDispatch ----------------------------
(***************************************************************************)
(* The periodic syncs: beat ticks, dispatchers that fan a tick out to the  *)
(* tenants, the task queue all of them share, and the workers that run     *)
(* one task after another, each in the schema of the task's tenant.        *)
(*                                                                         *)
(* A dispatcher lists the active tenants, looks into the schema of each    *)
(* for an active integration, and only then queues a sync for each it      *)
(* found. A schema that cannot be read raises, and nothing is queued. What *)
(* a sync reads and stores is the matter of SnapshotSync, McpGateway and   *)
(* KnowledgeIngest; here it is stored, or it fails. A task is acknowledged *)
(* when it is taken: that of a dead worker is gone. Which queues the       *)
(* workers listen to is a matter of the command that starts them.          *)
(***************************************************************************)
EXTENDS Naturals, Sequences, FiniteSets

CONSTANTS
    Tenants,     \* schemas, without the public one
    Public,      \* the public schema, which has no tables of a tenant
    Jobs,        \* the periodic jobs of the beat schedule, out of AllJobs
    Workers,     \* worker processes
    MaxQueue,    \* bound: beat and users send only while fewer tasks wait
    MaxChanges,  \* bound: changes by admins and operators
    MaxFaults    \* bound: syncs that fail, brokers and workers that die

-----------------------------------------------------------------------------
(* The jobs. rechecks: the sync asks again whether the integration is       *)
(* active; domain: the dispatcher, or only the sync, needs the settings of  *)
(* the Workspace domain; fans: the sync queues a task for each file.        *)

Snapshot(provider) ==
    [job |-> provider, provider |-> provider, rechecks |-> TRUE,
     domain |-> "none", fans |-> FALSE]
Delegated(job, domain, fans) ==
    [job |-> job, provider |-> "google_workspace_dwd", rechecks |-> FALSE,
     domain |-> domain, fans |-> fans]

DirectoryJob == Delegated("directory", "dispatch", FALSE)
AuditJob == Delegated("audit", "sync", FALSE)
KnowledgeJob == Delegated("knowledge", "sync", TRUE)

AsanaJob == Snapshot("asana")
BasecampJob == Snapshot("basecamp")
CaflouJob == Snapshot("caflou")
CalendlyJob == Snapshot("calendly")
CanvaJob == Snapshot("canva")
DropboxJob == Snapshot("dropbox")
EcomailJob == Snapshot("ecomail")
FapiJob == Snapshot("fapi")
HubspotJob == Snapshot("hubspot")
JiraJob == Snapshot("jira")
MailchimpJob == Snapshot("mailchimp")
Microsoft365Job == Snapshot("microsoft365")
NotionJob == Snapshot("notion")
PipedriveJob == Snapshot("pipedrive")
RaynetJob == Snapshot("raynet")
SalesforceJob == Snapshot("salesforce")
SlackJob == Snapshot("slack")
SmartemailingJob == Snapshot("smartemailing")
TrelloJob == Snapshot("trello")

\* CELERY_BEAT_SCHEDULE.
AllJobs ==
    {DirectoryJob, AuditJob, KnowledgeJob, AsanaJob, BasecampJob, CaflouJob,
     CalendlyJob, CanvaJob, DropboxJob, EcomailJob, FapiJob, HubspotJob, JiraJob,
     MailchimpJob, Microsoft365Job, NotionJob, PipedriveJob, RaynetJob,
     SalesforceJob, SlackJob, SmartemailingJob, TrelloJob}

ASSUME JobsAssumption == Jobs \subseteq AllJobs
ASSUME SchemasAssumption == Public \notin Tenants
ASSUME BoundsAssumption == MaxChanges \in Nat /\ MaxFaults \in Nat

Providers == {j.provider : j \in Jobs}

\* No task is routed and no default queue is set: .delay and beat send to the
\* queue that Celery names.
TaskQueue == "celery"

\* The queues of a worker: started without -Q, as for development, it takes what
\* Celery names; docker-compose.prod.yml names others.
Deployments == {{"celery"}, {"default", "weekly_brief", "agents"}}

-----------------------------------------------------------------------------
VARIABLES
    open,        \* Tenant.is_active
    enabled,     \* enabled[t, p]: Integration.is_active, in the schema of t
    sound,       \* whether the schema of t can be read
    listens,     \* the queues the workers listen to
    settings,    \* whether the Workspace domain, admin and key are set
    queue,       \* the broker's list: oldest task first
    worker,      \* worker[w]: the task it runs, and where it stands
    schema,      \* schema[w]: the schema the worker's connection is in
    served,      \* history: job and tenant synced since the job's last tick
    changes,     \* history: changes by admins and operators
    faults       \* history: syncs failed, deaths

world == <<open, enabled, sound, settings, listens>>
beatVars == <<world, queue, worker, schema, served, changes, faults>>

DispatchOf(j) == [kind |-> "dispatch", job |-> j, tenant |-> Public]
SyncOf(j, t) == [kind |-> "sync", job |-> j, tenant |-> t]
IngestOf(t) == [kind |-> "ingest", job |-> KnowledgeJob, tenant |-> t]
Tasks == {DispatchOf(j) : j \in Jobs} \cup {SyncOf(j, t) : j \in Jobs, t \in Tenants}
         \cup {IngestOf(t) : t \in Tenants}

Free == [pc |-> "free", task |-> {}, todo |-> {}, found |-> {}]

BeatTypeOK ==
    /\ open \in [Tenants -> BOOLEAN]
    /\ enabled \in [Tenants \X Providers -> BOOLEAN]
    /\ sound \in [Tenants -> BOOLEAN]
    /\ settings \in BOOLEAN /\ listens \in Deployments
    /\ queue \in Seq(Tasks)
    /\ worker \in [Workers -> [pc : {"free", "taken", "checking", "sending", "fetching"},
                               task : SUBSET Tasks, todo : SUBSET Tenants,
                               found : SUBSET Tenants]]
    /\ \A w \in Workers : Cardinality(worker[w].task) = IF worker[w].pc = "free" THEN 0 ELSE 1
    /\ schema \in [Workers -> Tenants \cup {Public}]
    /\ served \in SUBSET (Jobs \X Tenants)
    /\ changes \in 0..MaxChanges /\ faults \in 0..MaxFaults

BeatInit ==
    /\ open = [t \in Tenants |-> TRUE]
    /\ enabled = [x \in Tenants \X Providers |-> TRUE]
    /\ sound = [t \in Tenants |-> TRUE]
    /\ settings \in BOOLEAN /\ listens \in Deployments
    /\ queue = <<>>
    /\ worker = [w \in Workers |-> Free]
    /\ schema = [w \in Workers |-> Public]
    /\ served = {}
    /\ changes = 0 /\ faults = 0

-----------------------------------------------------------------------------
(* Around the workers.                                                     *)

Send(task) == queue' = Append(queue, task)

\* A period of j is over.
Beat(j) ==
    /\ Len(queue) < MaxQueue
    /\ Send(DispatchOf(j))
    /\ served' = served \ ({j} \X Tenants)
    /\ UNCHANGED <<world, worker, schema, changes, faults>>

\* An admin asks for an ingest on the dashboard, enabled or not.
AskForIngest(t) ==
    /\ KnowledgeJob \in Jobs
    /\ Len(queue) < MaxQueue
    /\ Send(SyncOf(KnowledgeJob, t))
    /\ UNCHANGED <<world, worker, schema, served, changes, faults>>

\* A tenant is opened or closed, an integration connected or disconnected, a
\* schema broken off in a migration, or repaired.
Change ==
    /\ changes < MaxChanges
    /\ changes' = changes + 1
    /\ \/ \E t \in Tenants : open' = [open EXCEPT ![t] = ~@] /\ UNCHANGED <<enabled, sound>>
       \/ \E t \in Tenants, p \in Providers :
             enabled' = [enabled EXCEPT ![<<t, p>>] = ~@] /\ UNCHANGED <<open, sound>>
       \/ \E t \in Tenants : sound' = [sound EXCEPT ![t] = ~@] /\ UNCHANGED <<open, enabled>>
    /\ UNCHANGED <<settings, listens, queue, worker, schema, served, faults>>

-----------------------------------------------------------------------------
(* Tasks.                                                                  *)

Runs(w, kind, pc) ==
    /\ worker[w].pc = pc
    /\ \A task \in worker[w].task : task.kind = kind

TaskOf(w) == CHOOSE task \in worker[w].task : TRUE

\* Mutation: the connection stays in the schema the task entered.
EndsInside(w) ==
    /\ worker' = [worker EXCEPT ![w] = Free]
    /\ UNCHANGED schema

\* The task returns or raises; schema_context puts the schema back.
Ends(w) ==
    /\ worker' = [worker EXCEPT ![w] = Free]
    /\ schema' = [schema EXCEPT ![w] = Public]

\* The queue all tasks are in has to be one the worker listens to.
Take(w) ==
    /\ worker[w].pc = "free"
    /\ TaskQueue \in listens
    /\ queue # <<>>
    /\ worker' = [worker EXCEPT ![w] = [Free EXCEPT !.pc = "taken", !.task = {Head(queue)}]]
    /\ queue' = Tail(queue)
    /\ UNCHANGED <<world, schema, served, changes, faults>>

\* The dispatcher has no domain to ask for.
DispatchNothing(w) ==
    /\ Runs(w, "dispatch", "taken")
    /\ TaskOf(w).job.domain = "dispatch" /\ ~settings
    /\ Ends(w)
    /\ UNCHANGED <<world, queue, served, changes, faults>>

Has(t, w) == enabled[t, TaskOf(w).job.provider]

\* Where the dispatcher stands with todo tenants to look into, and found ones
\* to queue a sync for.
Going(w, todo, found) ==
    IF todo = {} /\ found = {} THEN Free
    ELSE [worker[w] EXCEPT !.pc = IF todo = {} THEN "sending" ELSE "checking",
                           !.todo = todo, !.found = found]

\* The active tenants are listed.
ListTenants(w) ==
    /\ Runs(w, "dispatch", "taken")
    /\ TaskOf(w).job.domain = "dispatch" => settings
    /\ worker' = [worker EXCEPT ![w] = Going(w, {t \in Tenants : open[t]}, {})]
    /\ UNCHANGED <<world, queue, schema, served, changes, faults>>

\* Mutation: the loop is left at a tenant without the integration.
CheckUntilNone(w, t) ==
    /\ sound[t]
    /\ worker' = [worker EXCEPT ![w] =
          IF Has(t, w) THEN Going(w, worker[w].todo \ {t}, worker[w].found \cup {t})
                       ELSE Going(w, {}, worker[w].found)]
    /\ UNCHANGED <<world, queue, schema, served, changes, faults>>

\* A schema is entered and left again; has the tenant the integration?
Check(w, t) ==
    /\ sound[t]
    /\ worker' = [worker EXCEPT ![w] =
          Going(w, worker[w].todo \ {t}, worker[w].found \cup {u \in {t} : Has(u, w)})]
    /\ UNCHANGED <<world, queue, schema, served, changes, faults>>

\* A schema cannot be read: the dispatcher raises, and those it found are lost.
CheckRaises(w, t) ==
    /\ ~sound[t]
    /\ Ends(w)
    /\ UNCHANGED <<world, queue, served, changes, faults>>

SendSync(w) ==
    /\ Runs(w, "dispatch", "sending")
    /\ \E t \in worker[w].found :
          /\ Send(SyncOf(TaskOf(w).job, t))
          /\ worker' = [worker EXCEPT ![w] = Going(w, {}, worker[w].found \ {t})]
    /\ UNCHANGED <<world, schema, served, changes, faults>>

-----------------------------------------------------------------------------
\* The sync may go on: the integration if it asks, and the settings.
Ready(w) ==
    LET j == TaskOf(w).job IN
    /\ sound[TaskOf(w).tenant]
    /\ j.rechecks => Has(TaskOf(w).tenant, w)
    /\ j.domain # "none" => settings

\* The schema of the tenant is entered.
StartSync(w) ==
    /\ Runs(w, "sync", "taken")
    /\ IF Ready(w)
       THEN /\ worker' = [worker EXCEPT ![w].pc = "fetching"]
            /\ schema' = [schema EXCEPT ![w] = TaskOf(w).tenant]
       ELSE Ends(w)
    /\ UNCHANGED <<world, queue, served, changes, faults>>

\* What was read is stored: in the schema the connection is in.
StoreSync(w) ==
    /\ Runs(w, "sync", "fetching")
    /\ \/ /\ sound[schema[w]]
          /\ served' = served \cup {<<TaskOf(w).job, schema[w]>>}
       \/ /\ ~sound[schema[w]]
          /\ UNCHANGED served
    /\ Ends(w)
    /\ UNCHANGED <<world, queue, changes, faults>>

\* A changed file: a task of its own, and no schema goes with it.
SendIngest(w) ==
    /\ Runs(w, "sync", "fetching")
    /\ TaskOf(w).job.fans
    /\ Len(queue) < MaxQueue
    /\ Send(IngestOf(schema[w]))
    /\ UNCHANGED <<world, worker, schema, served, changes, faults>>

\* ingest_drive_file looks for its document in the connection's schema: a
\* public one has no such table, and the task raises.
Ingest(w) ==
    /\ Runs(w, "ingest", "taken")
    /\ Ends(w)
    /\ UNCHANGED <<world, queue, served, changes, faults>>

\* The provider or the broker fails, or the worker is killed: one task is over.
Fault(w) ==
    /\ worker[w].pc # "free"
    /\ faults < MaxFaults
    /\ faults' = faults + 1
    /\ Ends(w)
    /\ UNCHANGED <<world, queue, served, changes>>

-----------------------------------------------------------------------------
CheckAny(w) ==
    /\ Runs(w, "dispatch", "checking")
    /\ \E t \in worker[w].todo : Check(w, t) \/ CheckRaises(w, t)

Step(w) ==
    \/ Take(w) \/ DispatchNothing(w) \/ ListTenants(w) \/ CheckAny(w)
    \/ SendSync(w) \/ StartSync(w) \/ StoreSync(w) \/ Ingest(w)

BeatNext ==
    \/ \E j \in Jobs : Beat(j)
    \/ \E t \in Tenants : AskForIngest(t)
    \/ Change
    \/ \E w \in Workers : Step(w) \/ SendIngest(w) \/ Fault(w)

BeatSpec == BeatInit /\ [][BeatNext]_beatVars

\* Beat is a clock, which only our bound holds up; a worker goes on.
FairBeatSpec ==
    /\ BeatSpec
    /\ \A j \in Jobs : SF_beatVars(Beat(j))
    /\ \A w \in Workers : WF_beatVars(Step(w))

-----------------------------------------------------------------------------
(* Properties.                                                             *)

\* j is on for t, and nothing keeps a dispatcher from the other tenants, nor the
\* workers from the tasks.
Wanted(j, t) ==
    /\ TaskQueue \in listens
    /\ open[t] /\ enabled[t, j.provider]
    /\ j.domain # "none" => settings
    /\ \A u \in Tenants : open[u] => sound[u]

\* A tick is fanned out to every active tenant that has the integration
\* enabled (docs/CONNECTORS.md:33), however many tasks of other jobs and
\* tenants share the queue and the workers, and whatever failed before: who
\* stays enabled is synced again and again. That is so where the workers listen
\* to the queue of the tasks; those of docker-compose.prod.yml do not, and there
\* no tick is ever dispatched.
EveryTenantIsServed ==
    /\ \A j \in Jobs, t \in Tenants :
          <>[]Wanted(j, t) => []<>(<<j, t>> \in served)
    /\ TaskQueue \notin listens => [](served = {})

\* Tenants stay apart on connections they share: a worker is in the schema of a
\* tenant only while it runs a sync of that tenant, whatever sync it was that
\* failed or was killed before; so what a sync stores is stored where it belongs.
TenantsStayApart ==
    \A w \in Workers :
        schema[w] # Public =>
            /\ worker[w].pc = "fetching"
            /\ \E j \in Jobs : worker[w].task = {SyncOf(j, schema[w])}

\* A job counts as done for a tenant by nothing but a sync of that job for that
\* tenant, run by a worker.
DoneByItsSync ==
    [][\A j \in Jobs, t \in Tenants : <<j, t>> \in served' \ served =>
          \E w \in Workers : worker[w].task = {SyncOf(j, t)}]_beatVars

\* A file is ingested "end-to-end" (knowledge/tasks.py:27): its task runs in
\* the schema of the tenant whose sync queued it.
IngestRunsAtHome ==
    \A w \in Workers : Runs(w, "ingest", "taken") =>
        \A task \in worker[w].task : schema[w] = task.tenant
=============================================================================
