--------------------------- MODULE MCBundleImport ---------------------------
EXTENDS BundleImport

CONSTANTS e1, r1, r2, base, derived

MCExps == {e1}
MCRuns == {r1, r2}
MCDatasets == {base, derived}
MCBaseOf == [d \in MCDatasets |-> IF d = derived THEN base ELSE NoRow]
MCDatasetOf == [e \in MCExps |-> derived]
\* One bundle in descriptor mode, one in reference mode, without results yet, with a
\* run that is also local.
MCForeign == {[exp |-> e1, runs |-> {r2}, files |-> {r2}, configs |-> {r2},
               datasets |-> MCDatasets, labels |-> MCDatasets],
              [exp |-> e1, runs |-> {r1, r2}, files |-> {}, configs |-> {r1, r2},
               datasets |-> {}, labels |-> {}]}
MCLocal == [e \in MCExps |-> {r1}]
MCTransfers == 1..2
=============================================================================
