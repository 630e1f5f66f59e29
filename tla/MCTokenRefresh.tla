--------------------------- MODULE MCTokenRefresh ---------------------------
(* TokenRefresh with three overlapping clients and reconnections.           *)
EXTENDS TokenRefresh, TLC

CONSTANTS c1, c2, c3

\* Clients are interchangeable.
ClientSymmetry == Permutations({c1, c2, c3})
=============================================================================
