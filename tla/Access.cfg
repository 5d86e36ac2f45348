\* One tracked user (a platform root or not) between two organisations, two tenants and
\* two cloud accounts; a platform operator changes them.
CONSTANTS
    Users = {"u"}
    Orgs = {"o1", "o2"}
    Tenants = {"t1", "t2"}
    Accounts = {"a1", "a2"}
    NULL = NULL
    Operator = Operator
    TenantHome <- MCTenantHome
    AccountHome <- MCAccountHome
    GivenRoles = {"viewer", "org_admin"}
    GivenLevels = {"viewer", "admin"}
    MaxChanges = 3
SPECIFICATION Spec
CHECK_DEADLOCK FALSE
INVARIANTS GrantsScoped EvaluatorsAgree
PROPERTIES MeSettles
