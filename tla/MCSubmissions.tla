--------------------------- MODULE MCSubmissions ---------------------------
EXTENDS Submissions

CONSTANTS b, u, w, p, c, k1, k2, kc, old, x1, x2, one, many, clash, f1, f2, f3

\* u needs two models, one by its legacy id, and an extension in an override;
\* w needs the custom provider's model and an extension nobody enabled.
MCBuiltin == {b}
MCUser == {u, w}
MCModels == {k1, k2, kc, old}
MCDefaultModel == [s \in {b, u, w} |-> IF s = b THEN k1 ELSE IF s = u THEN old ELSE kc]
MCOverrideModels == [s \in {b, u, w} |-> IF s = u THEN {k2} ELSE {}]
MCCanonical == [y \in MCModels |-> IF y = old THEN k1 ELSE y]
MCDefaultExts == [s \in {b, u, w} |-> {}]
MCOverrideExts == [s \in {b, u, w} |-> IF s = u THEN {x1} ELSE IF s = w THEN {x2} ELSE {}]
MCHome == [y \in MCModels |-> IF y = kc THEN c ELSE p]
Snap(sp, mp, sc) == [q \in {p, c} |-> IF q = p THEN [status |-> sp, models |-> mp]
                                      ELSE [status |-> sc, models |-> IF sc = "fresh" THEN {kc} ELSE {}]]
MCSnapshots == {Snap("fresh", {k1, k2}, "fresh"), Snap("stale", {k1}, "disabled"),
                Snap("failed", {}, "failed")}
MCPerFile == {many, clash}
MCForeign == {one}
MCFiles == [d \in MCPerFile |-> IF d = many THEN {f1, f2} ELSE {f1, f3}]
MCSlug == [f \in {f1, f2, f3} |-> IF f = f3 THEN f1 ELSE f]
M(i, ss, n, d, r, un) == [id |-> <<"client", i>>, strategies |-> ss, reps |-> n, dataset |-> d,
                          verifier |-> {}, restricted |-> r, iterate |-> TRUE, unchecked |-> un]
MCMatrices == {M(1, <<b, u>>, 1, one, FALSE, FALSE), M(1, <<b>>, 1, many, TRUE, FALSE),
               M(2, <<u>>, 1, clash, FALSE, TRUE), M(2, <<w>>, 1, one, FALSE, FALSE),
               M(2, <<b>>, 1, one, TRUE, FALSE)}
=============================================================================
