\* The planner's seven tasks, one worker (as deployed), nobody interferes.
CONSTANTS
    w1 = w1
    w2 = w2
    Plan <- plan_aws_full_sync
    Jobs <- OneJob
    Accounts = {"a1"}
    Workers = {w1}
    Clients = {"c1"}
    MaxRetries = 1
    MaxApiRetries = 0
    MaxCrashes = 0
    MaxRollbacks = 1
SPECIFICATION FairSpec
CHECK_DEADLOCK FALSE
INVARIANTS QuiescentJobEvaluated ActiveJobHasWork
PROPERTIES JobsFinish
