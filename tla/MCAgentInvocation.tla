------------------------- MODULE MCAgentInvocation -------------------------
(* AgentInvocation with two messages that ask the same, a specialist with   *)
(* tools and one without.                                                  *)
EXTENDS AgentInvocation, TLC

CONSTANTS q1, q2, w1
=============================================================================
