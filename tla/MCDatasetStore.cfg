CONSTANTS
    NoRow = NoRow
    Absent = Absent
    Nobody = Nobody
    g1 = g1
    a1 = a1
    t1 = t1
    c1 = c1
    c2 = c2
    Gits <- MCGits
    Archives <- MCArchives
    Derived <- MCDerived
    Cves <- MCCves
    Registered <- MCRegistered
    Templates <- MCTemplates
    Versions <- MCVersions
    Requests <- MCRequests
    MaxRestarts = 1
SPECIFICATION Spec
INVARIANTS LabelsAreReal OneCvePerDataset RecipeOnce
CHECK_DEADLOCK FALSE
