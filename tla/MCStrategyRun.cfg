SPECIFICATION FairSpec
CONSTANTS
    sqli = sqli
    xss = xss
    rce = rce
    sqliRole = sqliRole
    xssRole = xssRole
    rceRole = rceRole
    m1 = m1
    Inputs <- ThreeInputs
    NoKey = NoKey
    Roles <- ThreeRoles
    Seeded <- TwoRoles
    Unknown = Unknown
    Specialist <- SeededSpecialist
    Models <- OneModel
    ModelOf <- AllOnModel
    Supervisor = Supervisor
    NoProvider = NoProvider
    Unmeasured = Unmeasured
    Modes = {"reprompt", "programmatic", "none"}
    MaxDepth = 3
    MaxInvocations = 3
    MaxBatch = 2
    PoolSize = 2
    MaxCalls = 2
    MaxFaults = 1
INVARIANTS
    SupervisorWithinCap
    NoDoubleDispatch
    RepromptIsHonest
    NothingLeftOut
    SupervisorSpendKept
PROPERTIES
    RunEnds
CHECK_DEADLOCK FALSE
