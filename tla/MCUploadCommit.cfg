SPECIFICATION FairSpec
CONSTANTS
    Replicas = {w1, w2}
    MaxAttempts = 2
    MaxRestarts = 1
    NoResult = NoResult
INVARIANTS
    SingleUse
    NoLeakedStaging
    ExitZeroMeansSpent
    ResultLostOnlyByFault
PROPERTIES
    WorkersExit
    StagingReclaimed
CHECK_DEADLOCK FALSE
