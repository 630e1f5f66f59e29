---------------------------- MODULE MCMcpGateway ----------------------------
(* McpGateway with two callers of one tenant, for every provider.          *)
EXTENDS McpGateway

CONSTANTS c1, c2, t1

\* Callers are interchangeable.
Symmetry == Permutations({c1, c2})

AllProviders == DOMAIN Packages
=============================================================================
