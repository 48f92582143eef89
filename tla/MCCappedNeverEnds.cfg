SPECIFICATION FairSpec
CONSTANTS
    m1 = m1
    N = 2
    Models <- OneModel
    ModelOf <- AllOnModel
    Cap <- CapOne
    CostCap = 0
    Transports = {"pvc"}
    LabelMatches = TRUE
    EarlyTicks = FALSE
    Requests = {}
    MaxRequests = 0
    MaxRestarts = 0
    MaxFaults = 0
PROPERTIES
    ExperimentEnds
CHECK_DEADLOCK FALSE
