SPECIFICATION FairSpec
CONSTANTS
    m1 = m1
    N = 2
    Models <- OneModel
    ModelOf <- AllOnModel
    Cap <- CapTwo
    CostCap = 2
    Transports = {"pvc", "http"}
    LabelMatches = TRUE
    EarlyTicks = FALSE
    Requests = {}
    MaxRequests = 0
    MaxRestarts = 0
    MaxFaults = 1
PROPERTIES
    ExperimentEnds
    ImplementsBoard
CHECK_DEADLOCK FALSE
