--------------------------- MODULE MCBeatDispatch ---------------------------
(* BeatDispatch with two tenants, the job whose dispatcher asks for the       *)
(* domain before it queues a sync, and the job whose syncs queue file tasks.  *)
(* The audit job is the second without file tasks; a connector's job asks for *)
(* its integration instead of the domain, and asks again in the sync.         *)
EXTENDS BeatDispatch

CONSTANTS t1, t2, w1

TwoJobs == {DirectoryJob, KnowledgeJob}
=============================================================================
