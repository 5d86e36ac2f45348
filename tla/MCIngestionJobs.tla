--------------------------- MODULE MCIngestionJobs ---------------------------
(***************************************************************************)
(* Instances of IngestionJobs for TLC.                                      *)
(***************************************************************************)
EXTENDS IngestionJobs

TwoJobs == {1, 2}
==============================================================================
