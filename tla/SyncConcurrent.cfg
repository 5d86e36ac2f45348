\* Two workers, one job, one API client; crashes, rollbacks and retry requests.
CONSTANTS
    w1 = w1
    w2 = w2
    Plan <- CollectorPrefix
    Jobs <- OneJob
    Accounts = {"a1"}
    Workers = {w1, w2}
    Clients = {"c1"}
    MaxRetries = 1
    MaxApiRetries = 1
    MaxCrashes = 1
    MaxRollbacks = 1
SPECIFICATION Spec
SYMMETRY Symmetric
CHECK_DEADLOCK FALSE
INVARIANTS AttemptsBound TaskMutex CompletedSound EarlyStartIsRetry
