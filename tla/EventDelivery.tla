--------------------------- MODULE EventDelivery ----------------------------
(***************************************************************************)
(* What the consumer and its sink promise to who publishes events and who  *)
(* reads the tables: messages are read in the order of the log and held    *)
(* until they are dealt with. One that is held may be stored, once more    *)
(* than there were faults at most, or goes to the dead letters, if it is   *)
(* unreadable; it is let go of only when it is stored, dead or malformed.  *)
(* What a process holds when it ends is read again or counted as lost. An  *)
(* offset is acknowledged once its message was read, and never taken back. *)
(* A process starts where the last acknowledged; only as long as nothing   *)
(* was acknowledged does it pass over what is there.                       *)
(***************************************************************************)
EXTENDS Naturals, Sequences

CONSTANTS Events, Malformed, Unreadable, Log

VARIABLES
    published,  \* the messages that are there
    up,         \* there is a process
    read,       \* the offset of the next message
    acked,      \* where the next process starts, 0 = at the end of the log
    held,       \* events read and not dealt with
    stored,     \* stored[e]: rows of e
    dead,       \* the dead letters
    lost,       \* events given up with a process
    skipped,    \* offsets passed over by a process that started at the end
    faults      \* inserts that failed and processes that were replaced

dvars == <<published, up, read, acked, held, stored, dead, lost, skipped, faults>>

Init ==
    /\ up = TRUE
    /\ published \in 0..Len(Log)
    /\ read = published + 1 /\ acked = 0 /\ skipped = 1..published
    /\ held = {} /\ dead = {} /\ lost = {}
    /\ stored = [e \in Events |-> 0]
    /\ faults = 0

Publish ==
    /\ published < Len(Log)
    /\ published' = published + 1
    /\ UNCHANGED <<up, read, acked, held, stored, dead, lost, skipped, faults>>

Read ==
    /\ up /\ read <= published
    /\ read' = read + 1
    /\ held' = held \cup {Log[read]}
    /\ UNCHANGED <<published, up, acked, stored, dead, lost, skipped, faults>>

Acknowledge ==
    /\ up
    /\ acked' = read
    /\ UNCHANGED <<published, up, read, held, stored, dead, lost, skipped, faults>>

OneRowMore(e) == stored' = [stored EXCEPT ![e] = @ + 1]

Store(e) ==
    /\ up /\ e \in held
    /\ stored[e] <= faults
    /\ OneRowMore(e)
    /\ UNCHANGED <<published, up, read, acked, held, dead, lost, skipped, faults>>

\* The store fails, and may have been done nevertheless.
StoreFails(e) ==
    /\ up /\ e \in held
    /\ faults' = faults + 1
    /\ \/ UNCHANGED stored
       \/ stored[e] <= faults /\ OneRowMore(e)
    /\ UNCHANGED <<published, up, read, acked, held, dead, lost, skipped>>

LetGo ==
    /\ up
    /\ held' \in SUBSET held
    /\ \A e \in held \ held' : e \in Malformed \/ stored[e] > 0
    /\ UNCHANGED <<published, up, read, acked, stored, dead, lost, skipped, faults>>

Bury(e) ==
    /\ up /\ e \in held \cap Unreadable
    /\ dead' = dead \cup {e}
    /\ held' = held \ {e}
    /\ UNCHANGED <<published, up, read, acked, stored, lost, skipped, faults>>

\* Event e is read again when the next process starts at a.
Awaits(e, a) == a # 0 /\ \E i \in a..published : Log[i] = e

\* The process ends after n messages more, which it does not deal with; it has
\* acknowledged what it has read, or has not.
End(n) ==
    /\ up /\ up' = FALSE
    /\ read + n <= published + 1
    /\ read' = read + n
    /\ acked' \in {acked, read'}
    /\ held' = {}
    /\ lost' = lost \cup {e \in held \cup {Log[i] : i \in read..read' - 1} :
                              stored[e] = 0 /\ ~Awaits(e, acked')}
    /\ UNCHANGED <<published, stored, dead, skipped, faults>>

Begin ==
    /\ ~up /\ up' = TRUE
    /\ IF acked = 0
         THEN read' = published + 1 /\ skipped' = skipped \cup read..published
         ELSE read' = acked /\ UNCHANGED skipped
    /\ faults' = faults + 1
    /\ UNCHANGED <<published, acked, held, stored, dead, lost>>

Next ==
    \/ Publish \/ Read \/ Acknowledge \/ LetGo \/ Begin
    \/ \E e \in Events : Store(e) \/ StoreFails(e) \/ Bury(e)
    \/ \E n \in {0, 1} : End(n)

Spec == Init /\ [][Next]_dvars
=============================================================================
