\* One worker, two providers; a week of three days of two ticks; a schedule that is
\* changed twice and a pass that dies.
CONSTANTS
    NULL = NULL
    Providers = {"slack", "teams"}
    Workers = {"w1"}
    Schedules <- MCSchedules
    TicksPerDay = 2
    DaysPerWeek = 3
    MaxTime = 8
    MaxChanges = 2
    MaxCrashes = 1
SPECIFICATION Spec
CHECK_DEADLOCK FALSE
INVARIANTS DigestBound
PROPERTIES DueIsServed
