-------------------------- MODULE MCApprovalWorkflow --------------------------
(***************************************************************************)
(* Instances of ApprovalWorkflow for TLC.                                   *)
(***************************************************************************)
EXTENDS ApprovalWorkflow, TLC

CONSTANTS a1, a2

OneRequest == {1}
TwoRequests == {1, 2}
Symmetric == Permutations(Approvers)
===============================================================================
