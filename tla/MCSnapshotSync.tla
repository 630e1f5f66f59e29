--------------------------- MODULE MCSnapshotSync ---------------------------
(* SnapshotSync with two admins and two sync tasks, all of them overlapping.  *)
EXTENDS SnapshotSync

CONSTANTS w1, w2, a1, a2

\* Workers are interchangeable, and so are admins.
Symmetry == Permutations({w1, w2}) \cup Permutations({a1, a2})

\* The providers with a run_sync of this shape: that of Google Workspace goes
\* through the gateway, and is in McpGateway.
AllProviders == DOMAIN Packages \ {"google_workspace"}
=============================================================================
