--------------------------- MODULE MCNotifications ---------------------------
(***************************************************************************)
(* Instances of Notifications for TLC.                                     *)
(***************************************************************************)
EXTENDS Notifications

MCRole == [u \in Users |-> IF u = "u1" THEN "approver" ELSE "viewer"]

\* an approval for two users, urgent or not
MCEvents ==
  {[type |-> "approval_pending", priority |-> p, target |-> "user", targets |-> {"u1", "u2"}, related |-> {}] :
     p \in {"medium", "high"}}

MCPolicies == {[min_priority |-> "medium", enabled_event_types |-> {}],
               [min_priority |-> "low", enabled_event_types |-> {"critical_alert"}]}

\* u mapped in Slack, or nowhere
MCPrefs ==
  {[notifications_enabled |-> TRUE, receive_direct_notifications |-> TRUE, quiet |-> FALSE,
    receive_approvals |-> TRUE, receive_failures |-> TRUE, mapped |-> m] : m \in {{"slack"}, {}}}

\* u1 is mapped in Slack, u2 has not opened the settings yet
MCDest == [u \in Users |-> IF u = "u1" THEN CHOOSE d \in MCPrefs : d.mapped = {"slack"} ELSE NULL]

\* one that is over and not yet deleted
MCSnoozes == {[key |-> "approval_pending", who |-> NULL, live |-> FALSE]}
=============================================================================
