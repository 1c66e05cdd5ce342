SPECIFICATION Spec
CONSTANTS
    Users = {"admin", "u"}
    Roles = {"SUPERUSER", "USER", "u"}
    BuiltinRoles = {"SUPERUSER", "USER"}
    Targets <- MCTargets
    NoRole = NoRole
    NoUser = NoUser
    MaxCalls = 5
    MaxFailures = 1
INVARIANTS
    TypeOK
    GranteesExist
    AnswersExplained
    RestartKeeps
CHECK_DEADLOCK FALSE
