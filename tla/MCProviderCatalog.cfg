CONSTANTS
    s1 = s1
    g1 = g1
    n1 = n1
    c1 = c1
    c2 = c2
    Singles <- MCSingles
    Multis <- MCMultis
    Configured <- MCConfigured
    Names <- MCNames
    Models <- MCModels
    NewModels <- MCNewModels
    Listings <- MCListings
    Ids <- MCIds
    Requests <- MCRequests
    StaleLimit = 1
    MaxRestarts = 1
SPECIFICATION Spec
INVARIANTS CatalogAgrees ProbedConfig ListingAgesOut
