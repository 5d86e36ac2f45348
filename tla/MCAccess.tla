------------------------------ MODULE MCAccess ------------------------------
(***************************************************************************)
(* Instance of Access for TLC.                                             *)
(***************************************************************************)
EXTENDS Access

\* one tenant with one account in each organisation
MCTenantHome == [t \in Tenants |-> IF t = "t1" THEN "o1" ELSE "o2"]
MCAccountHome == [a \in Accounts |-> IF a = "a1" THEN "t1" ELSE "t2"]
=============================================================================
