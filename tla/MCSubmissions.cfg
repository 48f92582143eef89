CONSTANTS
    NoRow = NoRow
    Nothing = Nothing
    b = b
    u = u
    w = w
    p = p
    c = c
    k1 = k1
    k2 = k2
    kc = kc
    old = old
    x1 = x1
    x2 = x2
    one = one
    many = many
    clash = clash
    f1 = f1
    f2 = f2
    f3 = f3
    Builtin <- MCBuiltin
    User <- MCUser
    SmokeStrategy = b
    Models <- MCModels
    DefaultModel <- MCDefaultModel
    OverrideModels <- MCOverrideModels
    Canonical <- MCCanonical
    DefaultExts <- MCDefaultExts
    OverrideExts <- MCOverrideExts
    EnabledExts = {x1}
    Home <- MCHome
    Custom = {c}
    Snapshots <- MCSnapshots
    Files <- MCFiles
    PerFile <- MCPerFile
    Foreign <- MCForeign
    Slug <- MCSlug
    Matrices <- MCMatrices
    SmokeDataset = one
    MaxSeconds = 1
    Requests = {1, 2}
    MaxRestarts = 1
SPECIFICATION Spec
INVARIANTS StrategiesStay OneSmokeTest AnsweredInFull
CHECK_DEADLOCK FALSE
