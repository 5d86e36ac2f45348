\* One worker, two providers (Teams has no direct sends), two users and two events.
CONSTANTS
    NULL = NULL
    Providers = {"slack", "teams"}
    Direct = {"slack"}
    integ0 = {"slack"}
    Users = {"u1", "u2"}
    role <- MCRole
    Workers = {"w1"}
    Events <- MCEvents
    Policies <- MCPolicies
    Prefs <- MCPrefs
    dest0 <- MCDest
    snoozes0 <- MCSnoozes
    MAX_RETRIES = 2
    MaxEvents = 2
    MaxDisturbances = 1
SPECIFICATION Spec
CHECK_DEADLOCK FALSE
INVARIANTS AttemptBound OneCopyPerChannel LostReceiptIsRepeat
PROPERTIES RetriesSettle
