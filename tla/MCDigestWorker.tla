--------------------------- MODULE MCDigestWorker ---------------------------
(***************************************************************************)
(* Instances of DigestWorker for TLC.                                      *)
(***************************************************************************)
EXTENDS DigestWorker

MCSchedules ==
  {[frequency |-> "daily", time_of_day |-> 1, day_of_week |-> 0],
   [frequency |-> "weekly", time_of_day |-> 0, day_of_week |-> 1],
   [frequency |-> "weekly", time_of_day |-> 1, day_of_week |-> 2]}
=============================================================================
