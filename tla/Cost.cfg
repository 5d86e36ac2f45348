\* A request, a job worker and the nightly script on two accounts; the quota
\* of a1 ends inside a sync, that of the organisation with the first whole one.
CONSTANTS
    NULL = NULL
    Accounts = {"a1", "a2"}
    Users = {"user"}
    Jobs = {"job"}
    Scripts = {"cron"}
    Synced = {"a1"}
    max_calls_per_day <- MCMaxCalls
    max_calls_per_org_day = 3
    max_calls_per_job = 6
    TicksPerDay = 1
    StaleAfter = 1
    MaxTime = 2
    MaxSyncs = 3
    MaxCrashes = 1
SPECIFICATION Spec
CHECK_DEADLOCK FALSE
INVARIANTS OneFetcher AccountQuota OrgQuota FailSafe
PROPERTIES SyncsSettle
