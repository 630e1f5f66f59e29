--------------------------- MODULE MCSlackMessages ---------------------------
(* SlackMessages with two runs over a channel whose backlog can be longer     *)
(* than an answer.                                                            *)
EXTENDS SlackMessages

CONSTANTS c1, r1, r2

Posts == [c \in Channels |-> 3]
==============================================================================
