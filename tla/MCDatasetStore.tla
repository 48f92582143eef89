--------------------------- MODULE MCDatasetStore ---------------------------
EXTENDS DatasetStore

CONSTANTS g1, a1, t1, c1, c2

MCGits == {g1}
MCArchives == {a1}
MCDerived == {<<g1, t1>>, <<a1, t1>>, <<<<g1, t1>>, t1>>}
MCRegistered == {g1, a1, <<g1, t1>>}
MCTemplates == {t1}
MCCves == {c1, c2}
MCVersions == {1, 2}
MCRequests == 1..4
=============================================================================
