--------------------------- MODULE SlackMessages ---------------------------
(***************************************************************************)
(* SlackMessageSync and SlackChannelSync (apps/connectors/slack/ingest.py) *)
(* under BaseSync.run: the messages of the tracked channels are mirrored,  *)
(* and each channel's row has a watermark, the ts of the newest message    *)
(* any run has persisted, from which the next run asks for the history.    *)
(*                                                                         *)
(* The watermark moves with each message and not at the end of a page, and *)
(* Slack answers newest first, so that it is ahead of messages which are   *)
(* still in the hands of a run. The IngestionCursor is not written, as     *)
(* cursor_after stays empty; the SyncRun row is in ConnectorSync.          *)
(*                                                                         *)
(* The messages of a channel are numbered in the order of their ts, which  *)
(* its microseconds keep through float() and str(); 0 is the empty string. *)
(***************************************************************************)
EXTENDS Naturals

CONSTANTS
    Channels,      \* the channels the bot has joined
    Runs,          \* workers that execute SlackMessageSync
    Limit,         \* messages in one answer of conversations.history
    MaxMessages,   \* bound: messages posted to each channel
    MaxFaults      \* bound: rows and runs that fail, workers that die

\* What the theorems assume of the constants.
SlackAssumption ==
    /\ Limit \in Nat \ {0} /\ MaxMessages \in [Channels -> Nat] /\ MaxFaults \in Nat

VARIABLES
    posted,    \* posted[c]: the newest message of c at Slack
    closed,    \* channels archived at Slack
    forward,   \* whether Slack cuts a long history at its newer end
    rows,      \* channels that have a ScbSlackChannel row
    channel,   \* channel[c]: is_tracked, is_archived, last_message_synced_ts
    stored,    \* stored[c]: the ScbSlackMessage rows of c
    run,       \* run[r]: a run, or its end
    lost,      \* history: lost[c], messages fetched and given up, or cut off
    faults     \* rows and runs that failed so far

slack == <<posted, closed, forward>>
slackVars == <<slack, rows, channel, stored, run, lost, faults>>

-----------------------------------------------------------------------------
Run == [pc    : {"idle", "running", "completed"},
        todo  : SUBSET Channels,      \* tracked channels still to be fetched
        since : [Channels -> Nat],    \* their watermarks, read with the list
        at    : Channels \cup {"none"},
        hands : SUBSET Nat,           \* messages of at fetched, not yet persisted
        row   : SUBSET [ts : Nat, seen : Nat]]  \* persist under way: the message,
                                                \* and the watermark it has read

NoRun(pc) == [pc |-> pc, todo |-> {}, since |-> [c \in Channels |-> 0], at |-> "none",
              hands |-> {}, row |-> {}]

SlackTypeOK ==
    /\ posted \in [Channels -> Nat]
    /\ closed \subseteq Channels
    /\ forward \in BOOLEAN
    /\ rows \subseteq Channels
    /\ channel \in [Channels -> [tracked : BOOLEAN, archived : BOOLEAN, watermark : Nat]]
    /\ stored \in [Channels -> SUBSET Nat]
    /\ run \in [Runs -> Run]
    /\ lost \in [Channels -> SUBSET Nat]
    /\ faults \in Nat

SlackInit ==
    /\ posted = [c \in Channels |-> 0]
    /\ closed = {}
    /\ forward \in BOOLEAN
    /\ rows = {}
    /\ channel = [c \in Channels |-> [tracked |-> FALSE, archived |-> FALSE, watermark |-> 0]]
    /\ stored = [c \in Channels |-> {}]
    /\ run = [r \in Runs |-> NoRun("idle")]
    /\ lost = [c \in Channels |-> {}]
    /\ faults = 0

-----------------------------------------------------------------------------
(* Slack, and the operator who tracks channels.                            *)

Post(c) ==
    /\ c \notin closed
    /\ posted[c] < MaxMessages[c]
    /\ posted' = [posted EXCEPT ![c] = @ + 1]
    /\ UNCHANGED <<closed, forward, rows, channel, stored, run, lost, faults>>

Archive(c) ==
    /\ closed' = IF c \in closed THEN closed \ {c} ELSE closed \cup {c}
    /\ UNCHANGED <<posted, forward, rows, channel, stored, run, lost, faults>>

Track(c) ==
    /\ c \in rows
    /\ channel' = [channel EXCEPT ![c].tracked = ~@]
    /\ UNCHANGED <<slack, rows, stored, run, lost, faults>>

\* SlackChannelSync.persist: update_or_create of the row, which leaves
\* is_tracked and the watermark alone.
SyncChannel(c) ==
    /\ rows' = rows \cup {c}
    /\ channel' = [channel EXCEPT ![c].archived = c \in closed]
    /\ UNCHANGED <<slack, stored, run, lost, faults>>

-----------------------------------------------------------------------------
(* A run of SlackMessageSync.                                              *)

Wanted(c) == c \in rows /\ channel[c].tracked /\ ~channel[c].archived

\* The queryset of fetch() is evaluated when its loop begins: the run keeps the
\* rows, and the watermarks in them, to its end.
Start(r) ==
    /\ run[r].pc # "running"
    /\ run' = [run EXCEPT ![r] = [NoRun("running") EXCEPT
                   !.todo = {c \in Channels : Wanted(c)},
                   !.since = [c \in Channels |-> channel[c].watermark]]]
    /\ UNCHANGED <<slack, rows, channel, stored, lost, faults>>

\* conversations.history with oldest and limit, read once: at most Limit
\* messages after since, the older ones if Slack pages forward and else the newer.
History(c, since) ==
    {m \in 1..posted[c] : m > since /\ (forward => m <= since + Limit)
                                    /\ (~forward => m + Limit > posted[c])}

CutOff(c, since) == {m \in 1..posted[c] : ~forward /\ m > since /\ m + Limit <= posted[c]}

\* The generator goes on to its next channel.
Fetch(r, c) ==
    /\ run[r].pc = "running" /\ run[r].hands = {}
    /\ c \in run[r].todo
    /\ LET page == History(c, run[r].since[c])
       IN  /\ run' = [run EXCEPT ![r].todo = @ \ {c}, ![r].at = c, ![r].hands = page]
           /\ lost' = [lost EXCEPT ![c] =
                          (@ \ page) \cup (CutOff(c, run[r].since[c]) \ stored[c])]
    /\ UNCHANGED <<slack, rows, channel, stored, faults>>

\* persist begins: the channel's row is read.
ReadChannel(r, m) ==
    /\ run[r].row = {}
    /\ m \in run[r].hands
    /\ run' = [run EXCEPT ![r].row = {[ts |-> m, seen |-> channel[run[r].at].watermark]}]
    /\ UNCHANGED <<slack, rows, channel, stored, lost, faults>>

\* The watermark after persist: the message's ts if it is after the one that
\* was read, which another run may have changed since.
Advanced(now, row) == IF row.ts > row.seen THEN row.ts ELSE now

\* update_or_create of the message, the watermark, and the commit.
CommitMessage(r) ==
    /\ \E row \in run[r].row : LET c == run[r].at IN
         /\ stored' = [stored EXCEPT ![c] = @ \cup {row.ts}]
         /\ channel' = [channel EXCEPT ![c].watermark = Advanced(@, row)]
         /\ lost' = [lost EXCEPT ![c] = @ \ {row.ts}]
         /\ run' = [run EXCEPT ![r].hands = @ \ {row.ts}, ![r].row = {}]
    /\ UNCHANGED <<slack, rows, faults>>

\* persist raises: _persist_one rolls the message back, counts it and goes on.
MessageFails(r) ==
    /\ faults < MaxFaults
    /\ \E row \in run[r].row :
         /\ run' = [run EXCEPT ![r].hands = @ \ {row.ts}, ![r].row = {}]
         /\ lost' = [lost EXCEPT ![run[r].at] = @ \cup ({row.ts} \ stored[run[r].at])]
    /\ faults' = faults + 1
    /\ UNCHANGED <<slack, rows, channel, stored>>

\* Slack answers with an error, acquire() raises RateLimitTimeout, or the worker
\* dies: the run is over, with what it had in its hands.
Stops(r) ==
    /\ run[r].pc = "running"
    /\ faults < MaxFaults
    /\ run' = [run EXCEPT ![r] = NoRun("idle")]
    /\ lost' = [c \in Channels |->
                  IF c = run[r].at THEN lost[c] \cup (run[r].hands \ stored[c]) ELSE lost[c]]
    /\ faults' = faults + 1
    /\ UNCHANGED <<slack, rows, channel, stored>>

Complete(r) ==
    /\ run[r].pc = "running" /\ run[r].hands = {} /\ run[r].todo = {}
    /\ run' = [run EXCEPT ![r] = NoRun("completed")]
    /\ UNCHANGED <<slack, rows, channel, stored, lost, faults>>

-----------------------------------------------------------------------------
Step(r) ==
    \/ \E c \in run[r].todo : Fetch(r, c)
    \/ \E m \in run[r].hands : ReadChannel(r, m)
    \/ CommitMessage(r)
    \/ Complete(r)

SlackNext ==
    \/ \E c \in Channels : Post(c) \/ Archive(c) \/ Track(c) \/ SyncChannel(c)
    \/ \E r \in Runs : Start(r) \/ Step(r) \/ MessageFails(r) \/ Stops(r)

SlackSpec == SlackInit /\ [][SlackNext]_slackVars

\* A run that is alive goes on. Nothing in the source starts one by itself.
SlackFairSpec == SlackSpec /\ \A r \in Runs : WF_slackVars(Step(r))

-----------------------------------------------------------------------------
(* Properties.                                                             *)

InHands(c, m) == \E r \in Runs : run[r].at = c /\ m \in run[r].hands

Covered(c, m) == m \in stored[c] \/ m \in lost[c] \/ InHands(c, m)

\* A message at or before the watermark of its channel, which no later run asks
\* for, is stored, or a run has it and will store it, or it is lost for a reason
\* named here: its row failed, its run ended first, or Slack cut it off. Runs
\* that overlap, with watermarks read early and written late, lose nothing.
NothingSlips ==
    \A c \in Channels : \A m \in 1..channel[c].watermark : Covered(c, m)

\* If a channel stays tracked and open, and runs of one worker go on completing,
\* in the end all its messages are stored but the lost ones the watermark has
\* passed: a long backlog is worked off, and a failure above the watermark heals.
CatchesUp ==
    \A r \in Runs, c \in Channels :
        /\ <>[]Wanted(c)
        /\ []<>(run[r].pc = "running") /\ []<>(run[r].pc = "completed")
        => <>[](\A m \in 1..posted[c] :
                   m \in stored[c] \/ (m \in lost[c] /\ m <= channel[c].watermark))
=============================================================================
