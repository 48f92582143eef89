------------------------- MODULE MCProviderCatalog -------------------------
EXTENDS ProviderCatalog

CONSTANTS s1, g1, n1, c1, c2

MCSingles == {s1}
MCMultis == {g1}
MCConfigured == {g1}
MCNames == {n1}
MCModels == {c1, c2}
MCNewModels == {c1}
MCListings == {{c1}}
MCIds == 1..2
MCRequests == 1..3
=============================================================================
