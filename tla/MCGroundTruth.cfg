CONSTANTS
    Corpora <- MCCorpora
    Kind <- MCKind
    Commit <- MCCommit
    Batches <- MCBatches
    Diff <- MCDiff
    Datasets <- MCDatasets
    Spots = {"a1", "a2", "b1"}
    Commits = {"v1"}
    MaxImports = 3
    Findings <- MCFindings
    LabelAt <- MCLabelAt
    MaxFindings = 3
    Unit = 12
SPECIFICATION Spec
INVARIANTS ReportIsHonest ClustersApart BestMatching HitIsMatched
PROPERTIES LabelsSurvive
CHECK_DEADLOCK FALSE
