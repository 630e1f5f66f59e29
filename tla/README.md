# Sentinex in TLA+

Sentinex is a multi-tenant Django application. It reads the data of a company
out of some thirty SaaS products into PostgreSQL, indexes its Google Drive,
streams events over Kafka into ClickHouse and lets LLM agents answer questions
over all of it. The work is done by Celery workers, a Kafka consumer and web
requests that share the database, a cache and the broker, mostly without locks
and without one transaction around a whole operation. This directory models
the parts where that matters, checks them with TLC and proves the main
invariants with TLAPS.

`PROJECT.json` is the index: the components, the runs, for each definition the
source lines it stands for, for each property a mutation of the code that
breaks it, the hazards and the theorems. This file explains.

Contents: [1 Inventory](#1-inventory) · [2 Plan](#2-plan) ·
[3 Modules](#3-modules) · [4 Runs](#4-runs) · [5 Fairness](#5-fairness) ·
[6 Proofs](#6-proofs) · [7 Not modelled](#7-not-modelled) ·
[8 How to run](#8-how-to-run)

## 1 Inventory

Paths are below `src/apps/`. "Hard" names what makes a component difficult to
test; "right when" what its properties should say.

| Component | State | Operations | Talks to | Hard | Right when |
|---|---|---|---|---|---|
| Connector sync, `connectors/_framework` with Pipedrive | `SyncRun`, `IngestionCursor`, mirror tables | `BaseSync.run`: read cursor, create run, fetch pages, persist rows, finalise, write cursor | Celery beat starts it, remote API, rate limiter in the cache, identity resolver | runs overlap, rows and fetches fail, workers die, deals change or are deleted between two pages of an offset | the cursor passes nothing that was not mirrored; runs end on record with right counts |
| Drive knowledge ingest, `data_access/knowledge` | `WorkspaceDocument`, `KnowledgeChunk`, cursor of the change log, queue of tasks | full and incremental sync, `ingest_drive_file`, `remove_document` | Drive API, broker, embedding model | tasks of one file overlap or arrive out of order, removals race with tasks, deaths between transactions | the cursor covers only what was acted upon; a quiet index equals the Drive, text and metadata; reindexing does not blank a document |
| Event stream, `events`, `analytics/consumers` | offsets, `_seen`, two buffers, a lock, ClickHouse tables | consume, handle, flush, dead-letter, stop | Kafka, ClickHouse | committed offsets, or none, against buffered rows, failing inserts, restarts, repeated events | every event is accounted for; losses and duplicates are bounded by the faults |
| Connections and snapshot syncs, nineteen packages of `connectors` and the Workspace sync | `Integration` (active, meta, setup error), `Credential`, `DataSnapshot` | OAuth callback or paste-key wizard, disconnect, reset, `run_sync` | providers, beat, gateway | admins connect other accounts, or paste bad keys, in requests that overlap, while runs go on; some calls of a run fail | a snapshot is of one account; the credential stays usable; a key that does not work is shown; no failure is stored as a zero |
| OAuth credentials, shown for `connectors/asana` | `Credential`, `Integration.is_active`, tokens in each client | connect, disconnect, request, refresh on 401, save | OAuth provider | refresh tokens that rotate, shared by clients that overlap; lost answers | the stored pair stays usable and whole |
| Identity resolver, `identity` | `Person`, `PersonIdentity`, roles, links from mirrors | exact lookup, fuzzy match, create, upsert identities | called by `persist` of several connectors | transactions of one person overlap; addresses appear late | no identifier reaches another human; duplicates of races heal; no deadlock |
| Slack messages, `connectors/slack/ingest.py` | tracked channels with a watermark each, messages | upsert channels, history since the watermark, persist | Slack API, `BaseSync` | the watermark moves with each message persisted, newest first; answers are cut off; runs overlap | no message is skipped but for a named reason; a backlog is worked off |
| Token bucket, `connectors/_framework` | cached bucket | acquire | shared cache | read-modify-write by many workers, an entry that expires | the rate is bounded; acquire ends |
| Periodic jobs, `data_access/tasks.py`, `tasks.py` of each connector | the broker's list, active tenants and integrations, the schema of each worker | beat tick, dispatch, sync, file tasks | all syncs | one queue for all tenants, workers that listen to others, schemas that cannot be read, tasks that lose their tenant | every tenant that wants a sync gets it; a task runs in its tenant's schema |
| MCP gateway, `data_access/mcp` | per-minute counter, credential, `MCPCall` | call: limit, refresh, dispatch, audit | providers, the Workspace sync | counter races; a minute that ends; error paths without audit | calls are bounded and audited |
| Agents, `chat`, `agents` | `Message`, `AgentRun`, `LLMUsage`, `ComplianceLog`, cached answers, rolling memory | send message, orchestrate, specialist tasks, `complete`, tools | LLM providers, Celery, Kafka | partial failure of a group, worker death, late results, cache | a message is answered, from all reports or with the fallback; calls are billed; a run ends on record; masked text is restored |
| Feature flags and addons, `core` | flag rows, cached flags | enable, disable, edits in the Django admin, `is_enabled` | cache | cache-aside race | the cached flag is stale for a reason and not for ever |
| Weekly brief, `addons/weekly_brief` | configuration, report row with a status | configure, generate, deliver | orchestrator, mail, flag | tasks overlap; death around the mail | generating again changes nothing; what is DELIVERED went out |
| Chunker, `data_access/knowledge/chunker.py`; PII masking, `agents/guardrails.py` | none | pure functions | — | boundaries | no text is lost; unmask restores |
| Tenants, invitations, middleware, `core` | schema per tenant | routing, accept | — | per-request state | — |
| Insight functions, observability, billing views, memory graph | rows | reads, single writes | — | little | — |

### How the modelled parts interact

* Celery beat starts the connector syncs. `BaseSync.run` calls `persist` of the
  subclass for each row, in a transaction of the row. For persons, `persist`
  calls the identity resolver in that transaction. So *ConnectorSync* treats a
  row as one step, and *IdentityResolver* opens that step up.
* The HTTP clients the syncs use hold OAuth tokens read from `Credential` when
  the client is made; *TokenRefresh* models them. To *ConnectorSync* a token
  that cannot be refreshed is a fetch that fails.
* Drive syncs share the `IngestionCursor` table with the connectors and queue
  their work on the Celery broker instead of doing it.
* Beat ticks, dispatchers, syncs and file tasks share one broker queue and its
  workers; *BeatDispatch* has that queue, and which schema a worker is in. A sync
  that is one step there is opened up in *SnapshotSync* (what it reads and stores),
  *McpGateway* (how Workspace reads) and *KnowledgeIngest* (what it queues).
* *SnapshotSync* and *McpGateway* share *ConnectorProfiles*, which says how the
  packages differ; *TokenRefresh* follows the tokens that to those two are only
  "of one account".
* A chat request queues specialist tasks on the broker and waits for their
  results; *AgentInvocation* has both sides and the LLM gateway they share.
* Agents publish events to Kafka. `ClickHouseSink` is written to store them, and
  *EventPipeline* composes it with the consumer as its docstring says; but no code of
  the repository subscribes it: `events/management/commands/kafka_consumer.py:33` and
  `events/consumers/agent_consumer.py:67` subscribe a `dispatch` that only logs, and
  nobody calls the sink's `flush()`.
* There is no `ATOMIC_REQUESTS` and there are no `select_for_update` calls: outside an
  explicit `transaction.atomic` each statement is a transaction of its own.
  This fixes the grain of the actions in all modules.

## 2 Plan

In order of importance; the first twelve entries exist.

1. `ConnectorSync` — the cursor protocol every incremental connector uses, and
   `SyncLedger`, the abstract ledger it implements. Done, proved.
2. `KnowledgeIngest` — cursor, queue and index. Done, proved.
3. `EventPipeline` — delivery from Kafka to ClickHouse, and `EventDelivery`, the
   abstract delivery it implements. Done, proved.
4. `TokenRefresh` — the credential. Done, proved.
5. `IdentityResolver` — one person from many systems. Done, proved.
6. `AgentInvocation` — chat, orchestrator, specialist tasks, LLM gateway with
   cache and usage, compliance log. Done, proved.
7. `ConnectorProfiles` and `SnapshotSync` — the connectors that make one
   `DataSnapshot` per run, with a definition per provider and file. Done, proved.
8. `McpGateway` over the same profiles. Done, proved.
9. `TokenBucket` — Done, proved.
10. `BeatDispatch` — ticks, tenants, queue and schemas. Done, its safety proved.
11. `AddonBrief` — the flag and the brief behind it. Done, proved.
12. `SlackMessages` — the watermark of a channel. Done, `NothingSlips` proved.
13. `AgentRuns`, from RUNNING to its end.
14. Pure algorithms against reference definitions: the chunker, PII masking, prices.

13 and 14 are left.

## 3 Modules

### ConnectorSync

`BaseSync.run` (`connectors/_framework/base_sync.py`) with fetch and persist of
`PipedriveDealSync`, the subclass that uses its cursor.

| Code | Model |
|---|---|
| `IngestionCursor.cursor` of `pipedrive.deals` | `cursor`, a time, 0 for the empty string |
| `SyncRun` row | `row[r]`: status, `cursor_after`, counters |
| local variables and `SyncContext` of a run | `ctx[r]`, location `pc[r]` |
| `ScbPipedriveDeal` | `mirror[d]`, the version of the payload stored |
| Pipedrive | `remote`, `clock`, `place`; `RemoteWrite` creates or changes a deal, `RemoteDelete` deletes one |
| `_read_cursor`, create, RUNNING | `ReadCursor`, `CreateRun`, `StartRun` |
| `iter_deals`, by offset over the deals that are not deleted, which keeps what is not older than the cursor | `FetchPage`, `LastPage`, `KeptOfPage`, `ChangedSince` |
| `_persist_one`: row committed, or raised before or after the cursor was raised in `persist` | `PersistRow`, `RowFails(r, i, late)` |
| `except` branch, `_finalize_run`, `_write_cursor` | `RunFails`, `FinishRun`, `WriteCursor` |
| worker killed | `Crash` |

Rows of one page are persisted in any order, which includes the order of the
code. A time is a number and several changes may share one, as update times have the
resolution of a second. `place` is the list Pipedrive shows at the moment, in the order
of creation, and a page is what is at its offset then: a deletion moves the deals
behind it up, and one of them may slide onto a page that was read. `excused` and
`missed` are history: they name the four ways in which the code may pass over a change
(the row failed; the deal changed on a page already read; it slid onto one because
another deal was deleted; an older payload of an overlapping run came later).
`NoSilentLoss` says of the deals that are listed that there is no fifth. A deal that is
deleted keeps its mirror row for ever, as nothing in the code removes one; a deal that
is restored is not modelled.

`SyncLedger` is the abstract specification: what someone who reads the
`SyncRun` rows and the cursor may rely on. An entry is opened, begun and closed
once, its counters add up, and the cursor is moved only by a run that closed its
entry as completed or partial, at most once, to the value in the entry. In
`ConnectorSync`, `Ledger == INSTANCE SyncLedger WITH ...` maps the rows, the
cursor and the runs that may still act; reading the cursor, fetching and
persisting are stutters.

### KnowledgeIngest

`tasks.py`, `indexer.py` and `discovery.py` of `data_access/knowledge`.
The Drive change log is a counter `log`; a page token is a position in it; a
version of a file is the position of its last change. A sync `s` drains pages
(`DrainPage`), acts on each entry (`ApplyEdit` queues a task; `ApplyRemoval` deletes the
chunks, and `Cascade` and `RemoveRow` are the two statements of the transaction in
which `qs.delete()` deletes first the chunks that refer to the row, and then the
row) and saves the
cursor (`FinishIncremental`); a full sync takes the start token first
(`GetStartToken`), lists (`ListFile`) and saves (`FinishFull`). A worker runs a
task in the transactions the code has: `UpsertRow`, `Extract`, `SaveExtracted`
(`save()` of all columns, which also inserts a row that has been removed in
between), `BeginReplace` and `CommitReplace` (the delete and the insert of
`transaction.atomic`; a delete sees what is committed when it runs). All chunks
of one text are one element of `chunks`, tagged with the key of the row. A
worker or sync may die between any two steps.

A file may lose its text and get one again (`empty`). That is a normal course:
`Extract` finds nothing, and the row is marked as skipped while the chunks of the
old text stay with it. Searches ask for the source and the owner and not for the
status (knowledge/search.py), so they still find them; `Fresh` says so.

`swallowed`, `disturbed` and `orphaned` are history. A removal that falls between
the last incremental run and the start token of a full run is in neither: the
document stays. `disturbed` are the files one of whose tasks failed, overlapped
another or acted out of order; a change made in Drive while nothing is under way
gives such a file a new start. `orphaned` are the files whose row was deleted over
chunks that a task had committed since the cascade. The
column that refers to the row has no constraint (data_access/models.py:271), so
those chunks stay for good, also when the file is indexed again; searches join the
rows (knowledge/search.py:49) and never find them. The attempt to prove
`QuietIndexIsFresh` brought this to light: the property used to say that no chunks
are left of a file that is gone, which takes a third sync to break. It now says
of which files that is true. It also asks of the row and of the chunks that they carry
the metadata of the file's last change, which a `save()` of all columns by an older
task would undo: `disturbed` is what excuses that.

### EventPipeline

The loop of `SentinexKafkaConsumer` (`events/kafka_client.py`) with
`ClickHouseSink.handle` as handler, and the sink
(`analytics/consumers/clickhouse_sink.py`). The process is single-threaded, so
an action lasts from one `await` to the next: `Take`, `AutoCommit` (offsets are
committed in the background), `Handle` up to the lock, `AppendRow`, `Insert` row
by row, `ClearBuffer`, `SendToDlq`. A concurrent task may call
`flush()` (`CallFlush`). Faults are inserts that raise (`MaxFailures`), `Stop`, a kill and a
restart (`MaxRestarts`) with empty buffers and an empty `_seen`. A process starts at the
committed offset. If the group has none it starts at the end of what is published
(`StartsAt`), since the consumer leaves `auto_offset_reset` at `latest`
(kafka_client.py:114-120): a process that is killed before its first commit leaves a gap,
and `skipped` has the offsets in it. The integration test passes `earliest` to a
consumer of its own (tests/integration/test_kafka_event_bus.py:59) and does not see this.
`Publish` appends the next message of `Log`, in which a producer's retry repeats an
event; malformed events lack a field of their row, unreadable messages are no JSON objects.

`Accounted` is therefore a statement about consumer and sink as they would run together;
in the repository they are not put together yet (section 1).

`EventDelivery` is the abstract specification: what who publishes an event and who
reads the tables may rely on. It has no loop, lock, buffer or handler, only events
that are *held* from when they are read until they are let go of, which takes a row,
a dead letter or a missing field; offsets acknowledged and never taken back; a row
stored again only on account of a fault; and events given up only with the process
that held them. A process reads on where the last one acknowledged; only while nothing
was acknowledged may it pass over what is there, and `skipped` keeps those offsets. In
`EventPipeline`, `Delivery == INSTANCE EventDelivery WITH ...` maps
buffers and hand to what is held. Calling `flush()`, taking the lock and moving a
row from the hand to a buffer are stutters.

### TokenRefresh

`AsanaClient`, `refresh_tokens`, `run_sync` and the OAuth callback of
`connectors/asana`, and `disconnect` of `data_access/views.py`. Token pairs are
numbered as the provider issues them; whether a refresh token can be used twice
is the variable `rotates`, chosen at the start, as the code does not know it
either. `ExchangeCode`, `Activate`, `CreateCredential` and `StoreTokens` are the
statements of the callback; `Start`, `ReadTokens`, `Answered`, `Unauthorized`,
`Refreshed`, `AnswerLost`, `RefreshFails`, `SaveTokens`, `SaveFails` and
`Finish` those of a client. `orphans` is history: refresh tokens that were
exchanged while the answer, or the worker that was to save it, was lost. A
rotating provider then locks the account out, and no client can help that.

### IdentityResolver

`resolve_person` (`identity/services.py`) in the transaction of `_persist_one`,
called by `PipedrivePersonSync` and `SlackUserSync`. A row is a Pipedrive person
or a Slack user; its identifiers are its mail address (in the order of
`_collect_person_identities`, first) and the id of its system. An action is a
statement: `LookUp` for each identifier, `Touch`, `MergeFields`, `MatchByName`,
`CreatePerson`, `UpsertIdentity` for each identifier, and then the mirror row
(`LinkMirror`) or the Slack identity (`AttachSlackId`) with the commit. A
transaction under way keeps what it wrote to itself (`writes`, `draft`) and
holds the locks of the rows it wrote (`held`); a unique key being inserted
blocks another writer as a row lock does. Queries read what is committed at
that moment, as READ COMMITTED does. Names of one human are alike and names of
two humans are not, so that a match by name is right when it is made; what the
model tests is that the code asks for the name. `LateAddress` are rows whose
address shows up after their first sync. `racing` is history.

`resolve_organization` has the same shape and is left out, as are phone numbers.

The model also shows what is not a race: an exact match gives the person no
further identity, so two rows first synced without an address keep two persons
after both show the same one (docs/CONNECTORS.md:350 says the records link to
the same rows). No property asks for more.

### AgentInvocation

| Code | Model |
|---|---|
| `send_message`, `_run_agent` (`chat/views.py`), `Orchestrator.handle` in a web process | `req[q]`: `StoreMessage`, `Guard`, `Classified`, `Gathered`, `GatherFails`, `Composed`, `Log`, `StoreReply`; `FallBack` is the `except` of `_run_agent` |
| group of `run_specialist` tasks in the broker, on workers, their results | `queue`, `task[w]`, `result[q]`: `TakeTask`, `NoHits`, `SpecialistAnswers`, `SpecialistRaises` |
| `complete`, `complete_with_tools` (`agents/llm_gateway.py`) | `llm[a]` for each process: `LookUp`, `Answered`, `CallFails`, `StoreAnswer`, `RecordUsage` |
| `Message`, `ComplianceLog`, `LLMUsage` rows | `asked`, `assistant`, `compliance`, `billed` |
| a process is killed | `WebDies`, `WorkerDies` |

The specialists chosen are any subset; one the model names twice is not run
twice here. Equal and different prompts are told apart by the choice `LookUp`
has. A task is acknowledged when it is taken (the default of Celery, which the
settings keep), so that a death loses it. `GatherFails` is both a specialist's
exception and the timeout of `job.get`.

`UsageIsAccounted` bounds what the usage rows miss by the faults. The docstring
of `LLMUsage` calls it a log for every LLM call: the exceptions are the calls of a
tool loop one of whose later turns raises, and an answered call whose answer the cache
does not take, as `cache.set` (llm_gateway.py:203-216) comes before `_record_usage` and
may raise (`CallFails` where an answer is being stored). The property counts the rows that are not marked as
cached. A cache hit writes a row of its own with the tokens and the `cost_czk` of the
call it stands for, and the budget check sums the costs of all rows
(guardrails.py:91-95), so that a budget counts such a call once more for each hit.

### ConnectorProfiles and SnapshotSync

The packages of `connectors` have one shape: views that connect an account, an
OAuth module, a client, a `run_sync`, an integration for the gateway.
*SnapshotSync* is that shape and *ConnectorProfiles* the differences, a record
per provider and file, each translated from that file: which fields a token
answer has and keeps, which a client reads and refuses to do without, whether it
refreshes on a 401, whether the callback replaces `Integration.meta`, which
calls a run makes, once, in pages or for each item, and what the failure of each
does (ends the run, raises, is stored with `ok` False, or is stored with `ok`
True all the same).

| Code | Model |
|---|---|
| `Integration` row: `is_active`, `meta`, setup error, `last_sync_at` | `row` |
| `Credential` row | `cred`: the account it belongs to, the fields it holds |
| requests to `connect`, `callback`, `save_credentials` | `admin[a]`, one for each admin who has a session, an action per statement that is a transaction |
| `record_setup_attempt`, `clear_setup_attempt`, `reset_setup`, `disconnect` | `RecordAttempt`, `ClearAttempt`, `ResetSetup`, `Disconnect` |
| the client of the wizard's ping, which reads the key that is stored by then | `ReadKey` |
| a sync task in `run_sync` | `worker[w]`: `StartSync`, `MakeClient`, `Answer`, `Fail`, `Unauthorised`, `Refresh`, `SaveTokens`, `Store`, `SaveRow` |

Requests overlap. Meta and tokens are separate saves, so of two callbacks the older may
save its meta after the newer one has saved both, or its tokens: the meta can be left
behind the credential, which `overtaken` names, and ahead of it as well, which the
property does not exclude. The record of a failed attempt is not kept by key, so a
request whose own key answered clears or activates over the record of another
(`overlooked`; ecomail/views.py:74-77), and one that dies leaves none (`died`).
`MetaKeepsUp` and `UnverifiedKeyIsShown` say that these are all the ways.

Accounts are numbered by the connections that brought them. A run holds what it
read of the row and of the credential, and the accounts that answered it. The
providers a property leaves out are named in it: Slack makes a client for each
stage of its pipeline, so that a snapshot may count two workspaces; Canva saves
the `meta` it read at its beginning, so that an old account's may come back; and
where a metric is stored with `ok` True over calls that failed, in the
providers outside `AllOrNothing`, the code goes on without them on purpose. One
difference between document and code: docs/CONNECTORS.md:86-88 promises a null
where a Canva tool fails, and `run_sync` stores designs, templates and folders
that failed as a count of 0 with `ok` True (canva/sync.py:52-54, 74-88). The last
lines of Canva's `run_sync`, which are to store refreshed tokens, compare a row
read once with itself and do nothing.

### McpGateway

`MCPGateway.call` (`data_access/mcp/gateway.py`) over the integrations of the
profiles: `Count` and `CountUp` are the two cache calls of the limit, `Refuse`
its exception, then `ReadCredential`, `RenewEarly`, `SaveRenewed`, the
integration's `Ask`, `Unauthorised`, `Renew`, `SaveTokens`, `Answer`, and
`Audit`. A call the limit refuses, and a refresh that fails before the call, leave no audit row
(`_audit` comes after both), and `CallsAreAudited` does not claim one. `made`, `lost`, `passed` and `overlapped` are history. A caller is the
Workspace sync with its three calls, or one call.

The counter's key holds the primary key of the integration and not the tenant
(gateway.py:73), and primary keys count from 1 in every schema, so tenants share
a limit that docs/DATA_ACCESS.md:250 gives to each. The model has that key, and
`Pks` for two tenants; the run has one tenant, since the property is per key.

### TokenBucket

`acquire` (`connectors/_framework/rate_limit.py`), a caller takes one token:
`Call`, `Find` and `Save` (the two cache calls), `Wait`, `Wake`, `GiveUp`, and
`Expire` for the entry's life. `CountFromNow` may at any moment reset the
history `taken`, so that the bound holds from every moment on and not only from
the start. The assumption `Capacity <= Refill * TTL` holds of every bucket in the source:
the entry is kept an hour and the slowest bucket fills in about a minute.

### SlackMessages

`SlackChannelSync` and `SlackMessageSync` (`connectors/slack/ingest.py`), under
`BaseSync.run`. Unlike the cursor of *ConnectorSync*, the watermark is in each
channel's row and is moved by `persist`, in the transaction of each message.

| Code | Model |
|---|---|
| `ScbSlackChannel` rows: tracked, archived, `last_message_synced_ts` | `rows`, `channel[c]` |
| `ScbSlackMessage` rows | `stored[c]`, messages numbered in the order of their ts |
| the queryset of `fetch()`, evaluated once | `Start`: the run keeps `todo` and the watermarks `since` |
| `fetch_messages`: one answer of `conversations.history` | `Fetch`, `History`, `CutOff` |
| `persist`: the channel is read, then message and watermark are saved | `ReadChannel`, `CommitMessage` |
| a row that raises; a fetch or `acquire` that raises, a worker that dies | `MessageFails`, `Stops` |

`forward` says at which end Slack cuts a history that is longer than an answer, and
is chosen at the start, as the code does not know it either. If Slack keeps the newer
messages, those cut off are behind the watermark for good. `lost` is history.
Messages in a run's hands may be persisted in any order, which includes newest
first, the order in which Slack answers. A message whose author has no identity yet is
stored without a person and not fetched again, so that only the order of
`ingest_full` (users, channels, messages) links it.

### BeatDispatch

| Code | Model |
|---|---|
| `CELERY_BEAT_SCHEDULE` | `AllJobs`, a job per entry; `Beat(j)` |
| the broker | `queue`; a task is acknowledged when it is taken, so that a death loses it |
| `-Q` of the workers | `listens`, out of `Deployments`; `TaskQueue` is where `.delay` and beat send to |
| dispatchers of `data_access/tasks.py` and of each connector | `DispatchNothing`, `ListTenants`, `Check`, `CheckRaises`, `SendSync` |
| sync tasks, `schema_context` | `StartSync`, `StoreSync`, `Ends`; `schema[w]` |
| `ingest_drive_file.delay` in a knowledge sync, `ingest_drive_file` | `SendIngest`, `Ingest` |
| admins, operators, a migration that breaks off | `Change`, `AskForIngest` |

No task is routed and no default queue is set, so every task goes to the queue Celery
names, `celery`. A worker started as docs/DEVELOPMENT.md:218 says listens to it. The
worker of docker-compose.prod.yml listens to `default,weekly_brief,agents` (line 39) and
not to it: there no tick is dispatched, and docs/CONNECTORS.md:33-35, by which a tick goes
to every active tenant that has the integration enabled, does not hold. The second half of
`EveryTenantIsServed` says that of the model.

A dispatcher looks into all schemas before it queues the first sync: one that
cannot be read stops the tick for everybody, which is why `Wanted` asks for
readable schemas. Connector syncs ask again whether the integration is active,
Workspace ones do not. `config/celery.py:14` assigns a schedule of its own to the
app, with one task that no code defines. Celery decides which of the two counts;
the model has that of `config/settings/base.py`, to which docs/CONNECTORS.md:31
refers, and says nothing if it is the other. No code creates
the `Integration` row of the Workspace delegation, so that `enabled` starts as an
operator has set it.

### AddonBrief

`is_enabled`, `enable` and `disable` (`core/feature_flags.py`) as the commands
and `addon_required` call them, composed with the weekly brief whose views they
guard. `flag` is the row and `entry` the entry of the cache. `AdminEdits` is the Django
admin (`core/admin.py:72-76`), whose save deletes no cache key: an entry that is there
then contradicts the row until it expires, or a command deletes it. A request is `AskCache`,
`ReadFlag`, `SetCache`, then `View` or `Configure`. Generating is
`BeginGenerate`, `WriteReport`, `EndGenerate`; mailing is `FindReport`,
`ReadConfig`, `Mail` or `MailFails`, `Deliver`. The tasks ask for no flag, and
nothing schedules them, so that a task may come at any time, for an addon that is
off too. `version` numbers the briefs written for the week. A delivered brief that is generated again goes back to
GENERATED, and one that is sent again is mailed again: the code does both.

## 4 Runs

| Run | States | What it shows |
|---|---|---|
| ConnectorSync | 1.2 M | `NoSilentLoss`, `ImplementsLedger`, `RegressesOnlyByOverlap`, `RunEnds` |
| KnowledgeIngest | 3.1 M | `CursorCoversApplied`, `QuietIndexIsFresh`, `NoDarkReindex` |
| EventPipeline | 1.1 M | `Accounted`, `DuplicatesAreBounded`, `HandlerReturns`, `ImplementsDelivery` |
| TokenRefresh | 2.2 M | `AccountIsNotLockedOut`, `PairIsOfOneAnswer` |
| SnapshotSync | 2.9 M | `OneAccountPerSnapshot`, `MetaKeepsUp`, `CredentialIsComplete`, `UnverifiedKeyIsShown`, `OkIsAnswered` |
| McpGateway | 0.63 M | `LimitHoldsWithoutOverlap`, `CallsAreAudited` |
| TokenBucket | 0.18 M | `BurstIsBounded`, `AcquireEnds` |
| BeatDispatch | 0.29 M | `TenantsStayApart`, `EveryTenantIsServed` |
| BeatDispatchIngest | violation | `ingest_drive_file` runs in the public schema: `.delay(f)` in a tenant's schema hands the file over and not the schema, no plain Celery worker knows it, and the public schema has no document table. Only tests, which run tasks eagerly, stay in the schema |
| AddonBrief | 1.0 M | `FlagIsFresh`, `FlagConverges`, `GenerationIsIdempotent`, `DeliveredWasMailed` |
| IdentityResolver | 0.12 M | `NeverMixedUp`, `AddressMovesOnlyInRace`, `RacesAreRepaired`, `ResolutionEnds` |
| AgentInvocation | 0.78 M | `AnswerIsWhole`, `AnswerIsLogged`, `UsageIsAccounted`, `MessageIsAnswered` |

The runs of ConnectorSync, KnowledgeIngest, IdentityResolver and AgentInvocation
check their module's `TypeOK` too. The modules EventPipeline, TokenRefresh, SnapshotSync,
McpGateway, SlackMessages, TokenBucket, BeatDispatch and AddonBrief state the types
for the reader and for the proofs (`BucketTypeOK`, `SlackTypeOK`, `BriefTypeOK` and
`BeatTypeOK` in those that share a module of proofs).

*SlackMessages* is the one component whose safety property rests on its proof; its
configuration `SlackMessages.cfg` (0.25 M states) checks `NothingSlips`, and the
liveness property `CatchesUp`, and is not among the runs of `PROJECT.json`.

*KnowledgeIngest* takes it that a file task works in the schema of the sync that
queued it, which *BeatDispatchIngest* refutes of the deployed code: the run says
what holds once the schema is handed over.

**What the models show besides, without a run.** A FAILED run has `errors_count`
0 if its fetch failed, as `_finalize_run` writes over the `ctx.errors + 1` of the
`except` branch (base_sync.py:142, 180). Two ingest tasks of one file that
overlap both delete before either inserts and leave two sets of chunks, though
`ingest_drive_file` is called idempotent. `FLUSH_INTERVAL_S` is used by nothing,
so that a row may stay in a buffer for ever.

**Bounds, and why they are enough.**

* *ConnectorSync*: two deals, `PageSize` 1, two runs, `MaxVersion` 2 and 1. A lost
  change takes a reader, a writer or a deletion in between, and a row that moves the
  cursor: two runs and two deals. The first deal changes twice, so that it can change
  behind the reader; a deal is deleted once, and the other slides onto the page before.
  The proofs cover all other sizes.
* *KnowledgeIngest*: a supported and an unsupported file, two syncs (each full or
  incremental), two workers, three changes. Every race in the module is between
  two actors over one file; three changes are create, edit or empty, and remove.
* *EventPipeline*: six messages with every kind, of which any number is published before
  the first process starts; `BatchSize` 2, the smallest at which a buffer holds more than
  one row in the middle of a flush; two failing inserts, one restart. The proofs cover
  all other sizes.
* *TokenRefresh*: three clients, four token pairs. Two clients race for a token;
  the third starts from what they left. The proofs cover all other sizes.
* *IdentityResolver*: two humans, three rows, two workers that can sync the same
  row, one rollback. `MaxPersons` 4 is never reached.
* *SnapshotSync*: all providers, each chosen at the start; two accounts, since a
  property relates an earlier one to a later one; two workers, one of which may
  have begun before the second account, and two admins, whose callbacks or wizard posts
  overlap. Workers are symmetric and admins too. The proofs cover all other sizes.
* *McpGateway*: all providers, two callers, a limit of two and three calls over two
  minutes: the limit is reached, passed by overlap, and left behind by a minute's
  end. `MaxCalls` bounds the calls let through.
* *SlackMessages*: one channel, since channels share nothing but the run that goes
  from one to the next, which may happen at any time after `Start`; three messages and
  answers of two, so that a backlog is cut; two runs; one fault. The proof covers all
  other sizes.
* *TokenBucket*: two workers, a burst of two, one token a second, an entry that lasts
  two seconds, four seconds. A worker can wait, be overtaken, and find the entry
  gone. The proof covers all other sizes.
* *BeatDispatch*: two tenants and one worker, so that they share all of it; the
  directory job, whose dispatcher asks for the domain, and the knowledge job, which
  fans out. One waiting task besides those a dispatcher sends, three changes, one
  fault. The workers listen to either of the two deployments' queues. In the run of the
  violation nothing has to change at all.
* *AddonBrief*: two commands, one request at a time (it is the one that may be
  stale), one edit by the Django admin, two generations that can overlap, one sender,
  two briefs: one that is mailed and one written meanwhile. The proofs cover more.
* *AgentInvocation*: two messages and one worker, so that the tasks of one wait
  behind those of the other and go on after its reply; a specialist with tools
  and one without; two turns of a tool loop, one failing call, to the provider or to
  the cache, one death.

`CHECK_DEADLOCK FALSE` stands in every configuration, because the systems may stop: their
runs, syncs and changes are bounded, a process that was stopped need not be started
again, and where no worker listens to the queue of the tasks, beat goes on only until
`MaxQueue` tasks wait.

## 5 Fairness

* *ConnectorSync*: weak fairness of each run's own steps. HTTP requests have
  timeouts and `acquire()` gives up after 30 s, so a run that is alive goes on.
  `Crash` and `RemoteWrite` are not fair.
* *EventPipeline*: weak fairness of the loop's steps, of a flush under way and of
  `Take`: the event loop runs every task that is ready, and asyncio locks are
  handed over in order. Nobody has to publish, call `flush()`, stop, kill or restart.
* *IdentityResolver*: strong fairness of a worker's next statement, as PostgreSQL
  serves the waiters of a row in order. Nothing is assumed of what starts a sync:
  `ingest_tasks` of Pipedrive and Slack are in no beat schedule and no code queues them.
  `RacesAreRepaired` therefore has as a premise that somebody syncs each row of the human
  again and again (`[]<><<Syncs(r)>>_vars`). `AddressAppears` and `Rollback` are not fair.
* *AgentInvocation*: weak fairness of a web process's next step only: the LLM
  client and `job.get` have timeouts. Nothing is assumed of the workers, and
  the tasks may never run. A web process may die at any step: gunicorn runs with
  `--timeout 120`, which may kill the process before `job.get(timeout=120)` raises, and
  then nobody answers; `MessageIsAnswered` speaks of processes that live on.
* *SlackMessages*: weak fairness of a run's own steps, as in *ConnectorSync*. Nothing
  in the source starts the ingest tasks, so `CatchesUp` asks for runs that go on
  completing as a premise.
* *TokenBucket*: weak fairness of time and of a worker inside `acquire`.
* *BeatDispatch* (`FairBeatSpec`; its safety is proved of `BeatSpec`, without
  fairness): weak fairness of each worker's next step, as a worker process that
  is alive, or restarted by its supervisor, goes on. Strong fairness of `Beat(j)`:
  beat is a clock that sends whatever waits in the queue, and only the bound
  `MaxQueue` makes it wait. Nothing is assumed of `Change`, `Fault`, the users or the
  deployment: `listens` is any of `Deployments`, and `Wanted` asks that a worker listens
  to the queue of the tasks, without which no tenant is served.
* *AddonBrief*: weak fairness of the entry's expiry, which is the cache's clock, and
  of a request that has asked the cache. Operators and tasks need not go on.
* *KnowledgeIngest*, *TokenRefresh*, *SnapshotSync* and *McpGateway* have safety
  properties only.

## 6 Proofs

TLAPS proves the following for every value of the constants that satisfies the
named assumption of its module (`PagesAssumption`, `IngestAssumption`,
`PipelineAssumption`, `IssuedAssumption`, `ProvidersAssumption`,
`GatewayAssumption`, `SlackAssumption`, `BucketAssumption`, `ResolverAssumption`,
`InvocationAssumption`, `VersionsAssumption`, `SchemasAssumption`,
`BoundsAssumption`). The assumptions say what
the constants are: numbers, subsets, a log that is a sequence of events, providers
that *ConnectorProfiles* describes; a finite number of callers, since their answers are
counted; finite and disjoint sets of messages and of workers, for the same reason; a
public schema that is no tenant's; and no human called as the name that stands for no
person.

A module of proofs extends the modules it is about. Four of them are about two:
`ConnectorSyncProofs` also has the proofs of *TokenBucket*, which paces the runs,
`IdentityResolverProofs` those of *SlackMessages*, whose authors it resolves, and
`ApplicationProofs` has those of *AgentInvocation* and *AddonBrief*, and
`TokenRefreshProofs` those of *BeatDispatch*, whose syncs use the tokens. For that the
specifications of *TokenBucket*, *SlackMessages*, *AddonBrief* and *BeatDispatch* have
names of their own (`BucketSpec`, `SlackSpec`, `BriefSpec`, `BeatSpec` and so on).

| Theorem | States | Along |
|---|---|---|
| `ConnectorSyncProofs!TypeCorrect` | `[](TypeOK /\ PagesOrdered)` | the page counter follows the location, so that no run reads past the last page |
| `NothingLostSilently` | `[]NoSilentLoss` | see below |
| `CursorIsBacked` | `[]CursorBacked` | `RowsFollow`: a run about to write holds the cursor it recorded |
| `RunsAreCounted` | `[]RunCounts` | `ContextCounts`: the context accounts for the rows handled so far |
| `CursorRegressesOnlyByOverlap` | the action property | `NotOlder`: a run fetches nothing older than the cursor it read |
| `KnowledgeIngestProofs!TypeCorrect` | `[](TypeOK /\ WorkersHold)` | a worker that is busy holds a task and, past the upsert, a row |
| `CursorIsCovered` | `[]CursorCoversApplied` | see below |
| `ReindexIsNeverDark` | the action property | a task that replaces chunks inserts those of the row it deleted them from |
| `QuietIndexIsComplete` | `[]QuietIndexIsFresh` | see below |
| `EventPipelineProofs!TypeCorrect` | `[]TypeOK` | a task that waits, inserts or clears is the one the lock says (`LockAgrees`) |
| `EventsAreAccounted` | `[]Accounted` | see below |
| `StoredRowsAreBounded` | `[]DuplicatesAreBounded` | a row in a buffer is distinct and, while its flush has not begun to insert, new since the last fault |
| `EventsAreDelivered` | `ImplementsDelivery` | a refinement, see below |
| `SnapshotSyncProofs!SnapshotsAreOfOneAccount` | `[]OneAccountPerSnapshot` | the next four see below |
| `MetaIsNotBehind` | `[]MetaKeepsUp` | |
| `CredentialsAreComplete` | `[]CredentialIsComplete` | |
| `UnverifiedKeysAreShown` | `[]UnverifiedKeyIsShown` | |
| `FailuresAreNotHidden` | `[]OkIsAnswered` | |
| `TokenRefreshProofs!TypeCorrect` | `[]TypeOK` | tokens in use were issued (`PairsAreIssued`) |
| `NeverLockedOut` | `[]AccountIsNotLockedOut` | see below |
| `PairsStayTogether` | `[]PairIsOfOneAnswer` | `PairsAreWhole` for all holders of a pair |
| `OnlyAnAdminActivates` | the action property `OnlyTheCallbackActivates` | case split |
| `TenantsAreKeptApart` | `[]TenantsStayApart` | see below |
| `SyncsAreDoneByTheirs` | the action property `DoneByItsSync` | a worker that stores is in the schema of its task's tenant |
| `BeatTypes` | `[]BeatTypeOK` | a worker holds one task or is free (`HoldsOne`) |
| `ConnectorSyncProofs!RunsKeepTheLedger` | `ImplementsLedger` | a refinement, see below |
| `McpGatewayProofs!LimitIsKept` | `[]LimitHoldsWithoutOverlap` | the counter of a key nobody overlapped in is what was let through, and a caller about to write holds less than the limit |
| `McpGatewayProofs!EveryCallIsAudited` | `[]CallsAreAudited` | each answer is counted when it is made and once more, as a row or as lost, when its caller lets go of it; a caller holds one answer |
| `ConnectorSyncProofs!BucketTypes` | `[]BucketTypeOK` | what is written was read as no more than the bucket holds |
| `BurstsAreBounded` | `[]BurstIsBounded` | see below |
| `IdentityResolverProofs!PeopleAreNeverMixedUp` | `[]NeverMixedUp` | see below |
| `AddressesMoveInRaces` | `AddressMovesOnlyInRace` | see below |
| `ResolverTypes` | `[]TypeOK` | a transaction writes identities of a person that is there, or that it drafts (`Settled`) |
| `NothingSlipsBy` | `[]NothingSlips` | see below |
| `ApplicationProofs!AnswersAreWhole` | `[]AnswerIsWhole` | see below |
| `AnswersAreLogged` | `[]AnswerIsLogged` | a reply about to be stored as an answer was logged (`RepliesAreLogged`) |
| `InvocationTypes` | `[]TypeOK` | a completion that may call again has more turns than answers (`TurnsAreCounted`) |
| `UsageIsAlwaysAccounted` | `[]UsageIsAccounted` | see below |
| `CachedFlagIsFresh` | `[]FlagIsFresh` | see below |
| `DeliveredBriefWasMailed` | `[]DeliveredWasMailed` | a sender holds the brief there is, or was overtaken; what it believes mailed was (`SentIsKnown`) |
| `BriefIsKept` | `GenerationIsIdempotent` | a generation that was not overtaken composes a brief that is not there (`ComposedIsNeeded`) |

*NothingLostSilently.* `NoSilentLoss` speaks of the stored cursor and is not
inductive: a run carries a cursor from its read to its write. `RunKnows(r)`
makes the same claim for each place where it rests. For the cursor a run has
read: nothing before it is missing, since the stored one had that property. For
pages read: each deal on them is excused, missed, mirrored or among the rows to
persist. Pages are offsets into the list of the deals that are not deleted: what a run
knows is that the deals in the places before its offset (`start`) were read, and a
deletion in those places, which moves the others up, excuses the deal that slides below
the offset unread. From the last page on: so is every deal whose time the new cursor
will reach. Times and versions held anywhere are not ahead of the remote ones
(`TimesOrdered`, `VersionsOrdered`), or a row could later overtake.

*CursorIsCovered.* `SyncKnows(s)` says of the token a sync is going to write what
the property says of the cursor: changes before it were acted upon or are
still in the sync's hands (`todo`, or `list` for a full sync).

*QuietIndexIsComplete.* The property speaks of the end of a story; `Orderly(f)` says
where a file may stand on the way. A file that is not disturbed has at most one
thing under way: a task in the queue, a worker, or a removal. Each is on course
(`OnCourse`): the worker's row is still its row and has the metadata of the change
acted upon, the text it read, or the lack of one that it found, is no older than that
change, the chunks its DELETE matched are all there are. `TextsTrue` says that a text a
worker or a chunk has was the file's text at that version, and that a file that a worker
found without text had none (`HadText`, `HadNone`), so that the last version decides
whether chunks are to be there. A removal is of one file (`OneFile`), and its cascade
deletes chunks of the row it collected only (`CascadeOwn`). None
of them need be about the newest change of the file, and then no more is asked of
it; if it is (`Caught`), it leaves the file fresh. At rest `CursorCoversApplied`,
proved before, says that every file is caught up with. `Held` says what tasks,
removals and drained changes are held for, and that an unsupported file never gets
chunks. The second half of the property is inductive as it stands.

*EventsAreAccounted.* An offset is committed after its message was taken, so
it is enough to follow each message taken (`TakenIsKept`): it is in the hand of the
loop, in a buffer, stored, dead-lettered, malformed or lost. When a process ends before
the group has a committed offset, nothing of what it held will be read again, and what
is published until the next one starts is `skipped` (`BehindIsKept`). `SeenHasFate` says the
same of the message ids the sink remembers, so that a repeated message that is
dropped is dropped for a reason. `WaitingIsNew` and `InsertedIsStored` say which rows
of a buffer are in ClickHouse while a flush is half done.

*EventsAreDelivered.* What is held is in a buffer or the hand of the loop. A repeated
message that is dropped may be let go of because of `SeenHasFate`, the rows of a buffer
that is cleared because of `InsertedIsStored`, and a row is inserted within the bound
of the faults because of `PendingIsBelow`. `DeadAreUnreadable`: what goes to the dead
letters is unreadable, and was never in a buffer, which would hold it on.

*SnapshotSync.* Tokens exist in the credential, in the hands of workers and of any
number of admins' requests. All of them have every field the client reads, are of an account
that was connected, and where the meta are replaced on connecting are no newer than
those; where a worker stands tells which of this it relies on (`Sound`). The profiles
of the providers differ; `PackagesFit` looks them up one by one and states the few
facts of them that the proof uses, for instance that what a renewal keeps and what
its answer has are together all that the client reads. For the requests, `Placed` says
what each step relies on while others come between: a callback that is past its own
save of the meta holds tokens of an account no newer than the meta, unless it was
overtaken, and a wizard that had an answer holds a key that was checked.
`UnverifiedKeyIsShown` is inductive together with these.

*NeverLockedOut.* What a client saves must be accepted by the provider. A pair
that waits to be stored is in one process only (`PendingIsAccepted`, `Unshared`),
so with a rotating provider nobody else can have spent it.

*RunsKeepTheLedger.* Initial states map to initial states, and `LedgerStep` maps each
action to a step of the ledger or a stutter. It needs the invariants proved
before: that an open run has its counters in its context (`ContextCounts`), and
that a run about to write the cursor holds the value it recorded (`RowsFollow`).

*NothingSlipsBy.* The watermark a run read with the list of channels, and each message
in its hands, which will be a watermark, are as safe as the stored one
(`SinceIsSafe`, `HandsAreSafe`). A message that is stored, in hands or lost remains one
of the three at every step, so a watermark that is compared with an old value, or set
back by another run, does no harm.

*BurstsAreBounded.* Tokens taken are not inductive; tokens taken together with
those still there are. `EntryPays` says that what was taken since the moment we
count from, and what the entry holds, are no more than the capacity and what
came in until the entry's time; `WorkersPay` says the same of what a worker has
read, until another writes. An entry that expires gives nothing away because the
bucket would be full: there the assumption on `TTL` is used.

*PeopleAreNeverMixedUp.* The tables alone are not inductive: a transaction decides in one
statement which person a row is of, and writes it in later ones. `Settled` says of the
person it has decided on what the property says of the tables, and `DraftsDiffer` that no
two transactions draft the same new row; `Shaped` says which identifiers a transaction
may hold where it stands. A commit then writes only what is right for the row's human.

*AddressesMoveInRaces.* What a transaction knows of an address grows old while others
commit. `RacersAreKnown`: once its look-up of the address has come to nothing, either
the address has no owner still, or the transaction was under way when the owner came and
`racing` has it. So one that begins later and finds the owner never moves the address.

*AnswersAreWhole.* `TasksAreOpen`: a task is in the queue or with one worker, never with
two, it was asked for, and it has no result yet. So when every specialist chosen has
its result no task is left, and a result that is there is never written again;
`ReportsAreIn` carries this from the gathering to the reply. `ReportsAreChosen` is needed
for the start: the group queued after the classification meets no result of an
earlier one, as a message is classified once.

*UsageIsAlwaysAccounted.* The property speaks of the calls in flight of all processes. A
step moves one process, so `InFlightSplits` separates its calls from those of the others,
which stay; `InFlightMoves` then says by how much the sum changes. It is stated with
cardinalities of finite sets and needs no induction. A completion over or not begun
has nothing to record (`SpentIsPending`), so a process that lets go of it drops nothing.
One that dies, or whose provider or cache raises, drops at most `MaxTurns` calls, for
one fault.

*TenantsAreKeptApart.* What the property says of a worker in a tenant's schema is not
enough to go on with, since it does not say where a worker at its work is. `AtHome` adds
the other direction: a sync under way is in some tenant's schema, so that what it queues
and stores is of a tenant. With `HoldsOne` each step only has to say where it leaves
its worker (`StationMoves`); the others stay.

*CachedFlagIsFresh.* A request reads the row and writes the cache in two steps.
`ReadsAreCurrent` says of the value it holds what the property says of the cache: it is
the row's, unless a commit came in between, and then the entry it writes is excused. So
is an entry that is there when the Django admin saves the row (`AdminEdits`), until it is
deleted or expires.

Only model-checked: liveness (`RunEnds`, `HandlerReturns`, `RacesAreRepaired`,
`ResolutionEnds`, `MessageIsAnswered`, `AcquireEnds`, `CatchesUp`,
`EveryTenantIsServed`, `FlagConverges`), because tlapm proves nothing from fairness and ENABLED.
Every safety property of the passing runs is proved.
Proved and in none of the runs are the types named in section 4, `NothingSlips`,
`CursorBacked` and `RunCounts`, and the action properties `OnlyTheCallbackActivates` and
`DoneByItsSync`.
Recursive operators are avoided in all modules, since tlapm has no SMT backend in
modules that reach one, and its installed provers cannot instantiate the
induction theorems over data.

## 7 Not modelled

* What is pure I/O or pure reads: API payload parsing, insight functions,
  ClickHouse queries, the Graphiti and Neo4j clients, tracing, templates.
* Schema switching in web requests: done by django-tenants. Of the tasks,
  *BeatDispatch* has the schemas; each other module is one tenant.
* Agent runs: planned, section 2. The chunker, masking and
  prices are string and number processing without concurrency. `agents/memory.py`
  keeps a rolling window that nothing in the source uses.
* FAPI, and Pipedrive besides deals and persons: whole collections without a cursor,
  through the `run()` that *ConnectorSync* has. The Merk register: one lookup.
* What the Workspace directory and audit tasks read: one step of *BeatDispatch*.
* `DataSnapshot`'s signal indexes a summary in long-term memory: it changes no
  modelled state, and it logs its failures.
* Outside the code: Drive's change log, the OAuth provider, Kafka's background
  commit and PostgreSQL's locks are modelled from how the code uses them and
  marked external in `PROJECT.json`.

## 8 How to run

    tlc -workers 2 -config ConnectorSync.cfg MCConnectorSync
    tlapm ConnectorSyncProofs.tla

and likewise for the other configurations; the module of a run is in
`PROJECT.json`.
