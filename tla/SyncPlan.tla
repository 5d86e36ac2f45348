------------------------------ MODULE SyncPlan ------------------------------
(***************************************************************************)
(* The planner's output (app/sync/planner.py): one chain of tasks, each the *)
(* parent of the next, and the prefix of it that the concurrency runs use.  *)
(* "commits" marks the handlers that commit, or roll back, the worker's     *)
(* session on their way: the inventory collector through                    *)
(* resource_snapshot_service.create_snapshots and the analyzer bundle       *)
(* through the detection and recommendation services.  (The account         *)
(* metadata collector does so only with demo seeding on, which is off in    *)
(* production.)                                                             *)
(***************************************************************************)
EXTENDS Sequences

Spec_(category, priority, critical, commits) ==
    [category |-> category, priority |-> priority, critical |-> critical, commits |-> commits]

plan_aws_full_sync ==
    << Spec_("collector",   10, TRUE,  FALSE),      \* account_metadata
       Spec_("collector",   20, FALSE, TRUE),       \* inventory
       Spec_("collector",   30, FALSE, FALSE),      \* cost_usage
       Spec_("collector",   40, FALSE, FALSE),      \* metrics
       Spec_("analyzer",   100, FALSE, TRUE),       \* analyzer.bundle
       Spec_("scorer",     200, FALSE, FALSE),      \* scorer.default
       Spec_("summarizer", 300, FALSE, FALSE) >>    \* summarizer.dashboard

CollectorPrefix == SubSeq(plan_aws_full_sync, 1, 2)
=============================================================================
