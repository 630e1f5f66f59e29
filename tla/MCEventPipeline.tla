-------------------------- MODULE MCEventPipeline --------------------------
(* EventPipeline on one partition with every kind of message.               *)
EXTENDS EventPipeline

CONSTANTS a1, a2, s1, bad, junk

MCEvents == {a1, a2, s1, bad, junk}

MCKind == [e \in MCEvents |-> IF e \in {a1, a2, bad} THEN "agent" ELSE "system"]

\* a1 is published twice, by a producer that retried.
MCLog == <<a1, s1, a1, junk, a2, bad>>
=============================================================================
