SPECIFICATION Spec
CONSTANTS
    m1 = m1
    N = 1
    Models <- OneModel
    ModelOf <- AllOnModel
    Cap <- CapOne
    CostCap = 1
    Transports = {"pvc", "http"}
    LabelMatches = TRUE
    EarlyTicks = TRUE
    Requests = {"cancel", "delete"}
    MaxRequests = 1
    MaxRestarts = 1
    MaxFaults = 1
INVARIANTS
    CompletedWasPublished
    SpendAgrees
    FinalizedOnce
    CappedNotCompleted
    CompletedIsIndexed
CHECK_DEADLOCK FALSE
