------------------------------ MODULE Unanimity ------------------------------
(***************************************************************************)
(* What a multi-approver approval request promises ("all assignees must     *)
(* approve", app/services/approval_request_service.py:1): votes are cast    *)
(* once and kept; a request is approved only by a vote that makes it        *)
(* unanimous, executed only after that, and one rejection settles it for    *)
(* good.  A vote that arrives after a rejection is recorded and changes     *)
(* nothing.                                                                *)
(***************************************************************************)
CONSTANTS Requests, Approvers

VARIABLES votes, decision

Votes == {"none", "pending", "approved", "rejected"}
Decisions == {"none", "open", "approved", "rejected", "executed"}

Init ==
    /\ votes = [r \in Requests |-> [u \in Approvers |-> "none"]]
    /\ decision = [r \in Requests |-> "none"]

Unanimous(v) == \A u \in Approvers : v[u] \in {"none", "approved"}

Submit(r, A) ==
    /\ decision[r] = "none" /\ A # {}
    /\ votes' = [votes EXCEPT ![r] = [u \in Approvers |-> IF u \in A THEN "pending" ELSE "none"]]
    /\ decision' = [decision EXCEPT ![r] = "open"]

Approve(r, u) ==
    /\ votes[r][u] = "pending"
    /\ votes' = [votes EXCEPT ![r][u] = "approved"]
    /\ \/ decision[r] \in {"open", "rejected"} /\ UNCHANGED decision
       \/ /\ decision[r] = "open" /\ Unanimous(votes'[r])
          /\ decision' = [decision EXCEPT ![r] = "approved"]

Reject(r, u) ==
    /\ votes[r][u] = "pending" /\ decision[r] \in {"open", "rejected"}
    /\ votes' = [votes EXCEPT ![r][u] = "rejected"]
    /\ decision' = [decision EXCEPT ![r] = "rejected"]

Execute(r) ==
    /\ decision[r] = "approved"
    /\ decision' = [decision EXCEPT ![r] = "executed"]
    /\ UNCHANGED votes

Next == \E r \in Requests :
    \/ \E A \in SUBSET Approvers : Submit(r, A)
    \/ \E u \in Approvers : Approve(r, u) \/ Reject(r, u)
    \/ Execute(r)

Spec == Init /\ [][Next]_<<votes, decision>>
==============================================================================
