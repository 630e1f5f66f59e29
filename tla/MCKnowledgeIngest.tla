------------------------- MODULE MCKnowledgeIngest -------------------------
(* KnowledgeIngest on a supported and an unsupported file.                  *)
EXTENDS KnowledgeIngest, TLC

CONSTANTS w1, w2

\* The workers are interchangeable.
WorkerSymmetry == Permutations({w1, w2})
=============================================================================
