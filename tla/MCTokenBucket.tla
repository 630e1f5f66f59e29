--------------------------- MODULE MCTokenBucket ----------------------------
(* TokenBucket with two workers and a burst of two.                        *)
EXTENDS TokenBucket

CONSTANTS w1, w2
=============================================================================
