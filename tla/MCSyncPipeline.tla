--------------------------- MODULE MCSyncPipeline ---------------------------
(***************************************************************************)
(* Instances of SyncPipeline for TLC.                                       *)
(***************************************************************************)
EXTENDS SyncPipeline, SyncPlan, TLC

CONSTANTS w1, w2

OneJob == {1}
TwoJobs == {1, 2}
Symmetric == Permutations(Workers)
=============================================================================
