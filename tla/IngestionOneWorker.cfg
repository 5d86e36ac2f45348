\* The deployed shape: one worker; two API requests at a time; crashes.
CONSTANTS
    Jobs <- TwoJobs
    Accounts = {"a1", "a2"}
    Workers = {"w1"}
    Clients = {"c1", "c2"}
    MaxCrashes = 1
    MaxLost = 1
SPECIFICATION FairSpec
CHECK_DEADLOCK FALSE
INVARIANTS RunningIsOwned
PROPERTIES JobsSettle VerdictsStand
