-------------------------- MODULE BenchmarkReview --------------------------
(***************************************************************************)
(* What a worker does with the findings of one run on an imported dataset  *)
(* (worker.py): merge duplicates (strategies/common.py), drop what the     *)
(* verifier rejects (verification/verifier.py), match the rest with the    *)
(* labels (evaluation/evaluator.py) and hold them against the labelled     *)
(* files (evaluation/benchmark_scoring.py).                                *)
(***************************************************************************)
EXTENDS GroundTruthImport, FiniteSetsExt

CONSTANTS
    Findings,     \* findings a model may report
    LabelAt,      \* the file, class and lines of each spot
    MaxFindings,  \* bound: findings of one run
    Unit          \* scores are in 1/Unit: a multiple of every finding's length

\* A finding has one class and any CWE ids, independent of each other; its lines are 0
\* where the model gave none. A label has one class, one CWE and both lines.
Region == [file : STRING, class : STRING, cwe : STRING, lo : Nat, hi : Nat]
Last(f) == IF f.hi = 0 THEN f.lo ELSE f.hi    \* line_end, or line_start without one

ASSUME ReviewAssumption ==
    /\ IsFiniteSet(Findings)
    /\ \A f \in Findings : f.lo \in Nat /\ f.hi \in Nat /\ f.confidence \in Nat
    /\ \A f \in Findings : f.lo # 0 /\ f.lo <= Last(f) =>
          \E n \in 1..Unit : n * (Last(f) - f.lo + 1) = Unit
    /\ LabelAt \in [Spots -> Region]
    /\ \A s \in Spots : LabelAt[s].lo <= LabelAt[s].hi + 1    \* an empty file: lines 1 to 0
    /\ MaxFindings \in Nat /\ Unit \in Nat \ {0}

VARIABLES
    phase,      \* where the worker is
    truth,      \* labels fetched for the run
    expectedClean, \* negative labels fetched for the run
    todo,       \* findings deduplicate has not looked at
    clusters,   \* its clusters
    kept,       \* findings of the run
    matched     \* true positives: pairs of finding and label

reviewVars == <<phase, truth, expectedClean, todo, clusters, kept, matched>>
vars == <<importVars, reviewVars>>

-----------------------------------------------------------------------------
(* deduplicate *)

MergeWindow == 5

\* Ranges that overlap or are within the window.
Near(f, g) == f.lo <= Last(g) + MergeWindow /\ g.lo <= Last(f) + MergeWindow
SameGroup(f, g) == f.file = g.file /\ f.class = g.class

\* Mutant: the groups are not sorted.
IsNextUnsorted(f) == TRUE

\* Groups are swept in order of line_start.
IsNext(f) == \A g \in todo : SameGroup(f, g) => f.lo <= g.lo

Joins(f, cluster) == \E g \in cluster : SameGroup(f, g) /\ Near(f, g)

Cluster(f) ==
    /\ phase = "dedup" /\ f \in todo /\ IsNext(f)
    /\ todo' = todo \ {f}
    /\ \/ \E cluster \in clusters :
             /\ Joins(f, cluster)
             /\ clusters' = (clusters \ {cluster}) \cup {cluster \cup {f}}
       \/ /\ \A cluster \in clusters : ~Joins(f, cluster)
          /\ clusters' = clusters \cup {{f}}
    /\ UNCHANGED <<importVars, phase, truth, expectedClean, kept, matched>>

\* One finding of highest confidence from each cluster.
Best(cluster) == {f \in cluster : \A g \in cluster : g.confidence <= f.confidence}

KeepBest ==
    /\ phase = "dedup" /\ todo = {}
    /\ \E choice \in [clusters -> Findings] :
          /\ \A cluster \in clusters : choice[cluster] \in Best(cluster)
          /\ kept' = {choice[cluster] : cluster \in clusters}
    /\ phase' = "verify"
    /\ UNCHANGED <<importVars, truth, expectedClean, todo, clusters, matched>>

-----------------------------------------------------------------------------
(* FileLevelEvaluator *)

Tolerance == 5

LineCount(lo, hi) == IF hi < lo THEN 0 ELSE hi - lo + 1
Larger(a, b) == IF a < b THEN b ELSE a
Smaller(a, b) == IF a < b THEN a ELSE b

\* Lines of the finding within the tolerance of the label.
Overlap(f, l) ==
    LET at == LabelAt[l.spot] IN
    LineCount(Larger(f.lo, IF at.lo < Tolerance THEN 0 ELSE at.lo - Tolerance),
              Smaller(Last(f), at.hi + Tolerance))

\* Mutant: the class adds nothing.
ScoreOfLines(f, l) ==
    IF f.lo = 0 THEN 0 ELSE (2 * Unit * Overlap(f, l)) \div Larger(LineCount(f.lo, Last(f)), 1)

\* _match_score of a pair in one file: 4 for the class, up to 2 for the lines.
Score(f, l) ==
    (IF f.class = LabelAt[l.spot].class THEN 4 * Unit ELSE 0)
    + (IF f.lo = 0 THEN 0 ELSE (2 * Unit * Overlap(f, l)) \div Larger(LineCount(f.lo, Last(f)), 1))

SameFile(p) == p[1].file = LabelAt[p[2].spot].file

\* The entry of the cost matrix, as a gain: other files are masked with 1e9.
Masked == 1000 * Unit

\* Mutant: the score is not negated, so the assignment minimises it.
GainOfCost(p) == IF SameFile(p) THEN Masked - Score(p[1], p[2]) ELSE 0

Gain(p) == IF SameFile(p) THEN Masked + Score(p[1], p[2]) ELSE 0
Total(pairs, Value(_)) == MapThenSumSet(Value, pairs)

OneToOne(pairs) == \A p, q \in pairs : p = q \/ (p[1] # q[1] /\ p[2] # q[2])

\* linear_sum_assignment: every finding or every label has a partner.
Assignments(F, L) ==
    {A \in SUBSET (F \X L) : /\ OneToOne(A)
                             /\ Cardinality(A) = Smaller(Cardinality(F), Cardinality(L))}

Optimal(F, L) == LET All == Assignments(F, L)
                 IN {A \in All : \A B \in All : Total(B, Gain) <= Total(A, Gain)}

Evaluate ==
    /\ phase = "evaluate"
    /\ \E A \in Optimal(kept, truth) :
          matched' = {p \in A : SameFile(p) /\ Score(p[1], p[2]) > 0}
    /\ phase' = "done"
    /\ UNCHANGED <<importVars, truth, expectedClean, todo, clusters, kept>>

-----------------------------------------------------------------------------
(* compute_benchmark_scorecard *)

\* Without a start or without an end the file is enough.
LinesMeet(f, l) ==
    f.lo = 0 \/ f.hi = 0 \/ ~(f.hi < LabelAt[l.spot].lo \/ f.lo > LabelAt[l.spot].hi)

\* By the finding's CWE ids, whatever its class.
Hits(f, l) == /\ f.file = LabelAt[l.spot].file /\ LabelAt[l.spot].cwe \in f.cwes
              /\ LinesMeet(f, l)

\* Findings that hit: the scorecard's true positives are the labelled files and CWEs
\* of these pairs. There is no scorecard without negative labels.
Hitting == {p \in kept \X truth : expectedClean # {} /\ Hits(p[1], p[2])}

-----------------------------------------------------------------------------
(* ExperimentWorker.run *)

\* The labels are fetched in two requests. Reviews start when importing is over.
FetchLabels(d) ==
    /\ phase = "idle" /\ call.pc = "idle" /\ imports = MaxImports
    /\ truth' = {l \in pos : l.dataset = d}
    /\ expectedClean' = {l \in neg : l.dataset = d}
    /\ phase' = "review"
    /\ UNCHANGED <<importVars, todo, clusters, kept, matched>>

\* run_strategy, with the answers of both passes merged or as they came.
Review(F) ==
    /\ phase = "review"
    /\ \/ /\ todo' = F /\ phase' = "dedup" /\ UNCHANGED kept
       \/ /\ kept' = F /\ phase' = "verify" /\ UNCHANGED todo
    /\ UNCHANGED <<importVars, truth, expectedClean, clusters, matched>>

\* LLMVerifier.verify: rejected findings go, the others stay; an outcome that is
\* no VerificationOutcome, or any other exception, fails the run.
Verify ==
    /\ phase = "verify"
    /\ \/ /\ kept' \in SUBSET kept
          /\ phase' = "evaluate"
       \/ /\ kept' = {}
          /\ phase' = "failed"
    /\ UNCHANGED <<importVars, truth, expectedClean, todo, clusters, matched>>

Init ==
    /\ ImportInit
    /\ phase = "idle" /\ truth = {} /\ expectedClean = {}
    /\ todo = {} /\ clusters = {} /\ kept = {} /\ matched = {}

Next ==
    \/ ImportNext /\ UNCHANGED reviewVars
    \/ \E d \in datasets : FetchLabels(d)
    \/ \E F \in SUBSET Findings : Cardinality(F) <= MaxFindings /\ Review(F)
    \/ \E f \in todo : Cluster(f)
    \/ KeepBest \/ Verify \/ Evaluate

Spec == Init /\ [][Next]_vars

-----------------------------------------------------------------------------
(* Properties *)

\* The run's labels are labels, its findings were reported, and a true positive pairs
\* a finding that was kept with a label of the run.
ReviewTypeOK ==
    /\ ImportTypeOK
    /\ phase \in {"idle", "review", "dedup", "verify", "evaluate", "failed", "done"}
    /\ truth \subseteq Label /\ expectedClean \subseteq Label
    /\ todo \subseteq Findings /\ kept \subseteq Findings
    /\ clusters \subseteq SUBSET Findings
    /\ matched \subseteq kept \X truth
    /\ phase # "done" => matched = {}

\* Findings that deduplicate keeps apart are apart: no member of one cluster is
\* within the merge window of a member of another, however ranges nest and chain.
ClustersApart ==
    \A c1, c2 \in clusters : c1 # c2 =>
        \A f \in c1, g \in c2 : SameGroup(f, g) => ~Near(f, g)

\* The assignment over the masked, rectangular matrix scores as much as any
\* one-to-one matching within files could: the mask costs nothing.
PairScore(p) == Score(p[1], p[2])
BestMatching ==
    phase = "done" =>
        \A M \in SUBSET {p \in kept \X truth : SameFile(p) /\ PairScore(p) > 0} :
            OneToOne(M) => Total(M, PairScore) <= Total(matched, PairScore)

\* The two scores agree where they can: a file that the scorecard counts as a true
\* positive has one of the evaluator, when the finding that hit it is of the label's
\* class or gave its lines, in order. Else the scorecard may count what the evaluator
\* scores 0: it asks for the CWE and not for the class.
Comparable(f, l) == f.class = LabelAt[l.spot].class \/ (f.lo # 0 /\ f.lo <= f.hi)

HitIsMatched ==
    phase = "done" => \A h \in Hitting : Comparable(h[1], h[2]) =>
        \E p \in matched : p[1].file = h[1].file
=============================================================================
