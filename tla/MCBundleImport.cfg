CONSTANTS
    NoRow = NoRow
    MaxKills = 1
    e1 = e1
    r1 = r1
    r2 = r2
    base = base
    derived = derived
    Exps <- MCExps
    Runs <- MCRuns
    Datasets <- MCDatasets
    BaseOf <- MCBaseOf
    DatasetOf <- MCDatasetOf
    Foreign <- MCForeign
    Local <- MCLocal
    Transfers <- MCTransfers
SPECIFICATION BundleSpec
INVARIANTS BundlesAreClosed
PROPERTIES ResultLostOnlyToRival ImportIsWhole 
CHECK_DEADLOCK FALSE
