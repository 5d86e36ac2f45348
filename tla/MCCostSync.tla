----------------------------- MODULE MCCostSync -----------------------------
(***************************************************************************)
(* Instances of CostSync for TLC.                                          *)
(***************************************************************************)
EXTENDS CostSync

\* a1 cannot afford a whole sync; for a2 only the organisation's quota ever ends
MCMaxCalls == [a \in Accounts |-> IF a = "a1" THEN 2 ELSE 9]
=============================================================================
