----------------------- MODULE BenchmarkReviewProofs ------------------------
(***************************************************************************)
(* For any corpora and any number of imports no stored label is lost, and  *)
(* an import that reports no gap has stored every label of its corpus. For *)
(* any findings and labels the clusters of deduplicate are apart, and the  *)
(* evaluator's matching is the best one and misses no file that is hit.    *)
(***************************************************************************)
EXTENDS BenchmarkReview, FiniteSetTheorems, WellFoundedInduction, TLAPS

-----------------------------------------------------------------------------
(* Labels *)

\* A table that is rebuilt with a wider CHECK has the rows it had.
LEMMA RebuildKeepsAll ==
    ASSUME NEW table, NEW accepted, NEW t \in Rebuilds(table, accepted)
    PROVE  t = table
  BY DEF Rebuilds

\* INSERT OR IGNORE replaces no row.
LEMMA InsertKeepsAll ==
    ASSUME NEW table, NEW new, NEW accepted
    PROVE  table \subseteq Inserted(table, new, accepted)
  BY DEF Inserted

\* No step of an import takes a label away.
LEMMA ImportKeepsLabels == [ImportNext]_importVars => pos \subseteq pos' /\ neg \subseteq neg'
<1> SUFFICES ASSUME [ImportNext]_importVars PROVE pos \subseteq pos' /\ neg \subseteq neg'
  OBVIOUS
<1>1. CASE UNCHANGED importVars
  BY <1>1 DEF importVars, tables
<1>2. CASE \E c \in Corpora : Begin(c)
  BY <1>2 DEF Begin, tables
<1>3. CASE Widen
  BY <1>3, RebuildKeepsAll DEF Widen, tables
<1>4. CASE WidenNegative
  BY <1>4, RebuildKeepsAll DEF WidenNegative, tables
<1>5. CASE Fetch \/ NoRepository \/ Reuse
  BY <1>5 DEF Fetch, NoRepository, Reuse, tables
<1>6. CASE CreateDataset
  BY <1>6 DEF CreateDataset
<1>7. CASE AppendPositive
  BY <1>7, InsertKeepsAll DEF AppendPositive
<1>8. CASE AppendNegative
  BY <1>8, InsertKeepsAll DEF AppendNegative
<1>9. CASE Interrupt
  BY <1>9 DEF Interrupt, tables
<1> QED BY <1>1, <1>2, <1>3, <1>4, <1>5, <1>6, <1>7, <1>8, <1>9 DEF ImportNext

\* Reviewing touches nothing of an import.
LEMMA ReviewKeepsImports == [Next]_vars => [ImportNext]_importVars
  BY DEF Next, vars, FetchLabels, Review, Cluster, KeepBest, Verify, Evaluate

\* No widening of a CHECK constraint, repeated or interrupted import loses a label.
THEOREM LabelsAreKept == Spec => LabelsSurvive
<1>1. [Next]_vars => [pos \subseteq pos' /\ neg \subseteq neg']_importVars
  BY ImportKeepsLabels, ReviewKeepsImports
<1> QED BY <1>1, PTL DEF Spec, LabelsSurvive

-----------------------------------------------------------------------------
(* Clusters *)

\* Before the review there is nothing to cluster; clusters hold findings.
Fresh ==
    /\ phase \in {"idle", "review"} => clusters = {} /\ todo = {}
    /\ todo \subseteq Findings
    /\ \A cluster \in clusters : cluster \subseteq Findings

\* The sweep goes by line_start within a group.
Swept ==
    \A cluster \in clusters : \A f \in cluster, g \in todo : SameGroup(f, g) => f.lo <= g.lo

ClusterInv == Fresh /\ Swept /\ ClustersApart

\* Two findings that both come before a third and are near it are near each other.
LEMMA NearIsShared ==
    ASSUME NEW f \in Findings, NEW g \in Findings, NEW h \in Findings,
           SameGroup(g, f), SameGroup(h, f), g.lo <= f.lo, h.lo <= f.lo,
           Near(f, g), Near(f, h)
    PROVE  SameGroup(g, h) /\ Near(g, h)
<1>1. /\ f.lo \in Nat /\ f.hi \in Nat /\ g.lo \in Nat
      /\ g.hi \in Nat /\ h.lo \in Nat /\ h.hi \in Nat
  BY ReviewAssumption
<1>2. Near(g, h)
  BY <1>1 DEF Near, Last, MergeWindow
<1> QED BY <1>2 DEF SameGroup

\* Neither grouping nor nearness depends on the order.
LEMMA NearIsSymmetric ==
    \A f, g : /\ SameGroup(f, g) <=> SameGroup(g, f)
              /\ Near(f, g) <=> Near(g, f)
  BY DEF SameGroup, Near

\* The next finding joins at most one cluster.
LEMMA JoinsOne ==
    ASSUME ClusterInv, NEW f \in todo, NEW c \in clusters, NEW d \in clusters, c # d,
           Joins(f, c)
    PROVE  \A h \in d : SameGroup(f, h) => ~Near(f, h)
<1> SUFFICES ASSUME NEW h \in d, SameGroup(f, h), Near(f, h) PROVE FALSE
  OBVIOUS
<1>1. PICK g \in c : SameGroup(f, g) /\ Near(f, g)
  BY DEF Joins
<1>2. f \in Findings /\ g \in Findings /\ h \in Findings
  BY <1>1 DEF ClusterInv, Fresh
<1>3. g.lo <= f.lo /\ h.lo <= f.lo
  BY <1>1, NearIsSymmetric DEF ClusterInv, Swept
<1>4. SameGroup(g, h) /\ Near(g, h)
  BY <1>1, <1>2, <1>3, NearIsShared, NearIsSymmetric
<1> QED BY <1>1, <1>4 DEF ClusterInv, ClustersApart

\* A finding that is taken up leaves the clusters apart.
LEMMA ClusterStep ==
    ASSUME ClusterInv, NEW f \in todo, Cluster(f)
    PROVE  ClusterInv'
<1>1. f \in Findings /\ todo' \subseteq todo /\ IsNext(f) /\ phase = "dedup" /\ phase' = "dedup"
  BY DEF Cluster, ClusterInv, Fresh
<1>2. ASSUME NEW c \in clusters, Joins(f, c), clusters' = (clusters \ {c}) \cup {c \cup {f}}
      PROVE  Fresh' /\ Swept' /\ ClustersApart'
  <2>1. Fresh'
    BY <1>1, <1>2 DEF ClusterInv, Fresh
  <2>2. Swept'
    BY <1>1, <1>2 DEF ClusterInv, Swept, IsNext
  <2>3. ASSUME NEW d \in clusters, d # c, NEW x \in c \cup {f}, NEW y \in d, SameGroup(x, y)
        PROVE  ~Near(x, y)
    BY <1>2, <2>3, JoinsOne DEF ClusterInv, ClustersApart
  <2>4. ClustersApart'
    <3> SUFFICES ASSUME NEW c1 \in clusters', NEW c2 \in clusters', c1 # c2,
                        NEW x \in c1, NEW y \in c2, SameGroup(x, y)
                 PROVE  ~Near(x, y)
      BY DEF ClustersApart
    <3>1. CASE c1 = c \cup {f}
      BY <1>2, <2>3, <3>1
    <3>2. CASE c2 = c \cup {f}
      BY <1>2, <2>3, <3>2, NearIsSymmetric
    <3>3. CASE c1 \in clusters /\ c2 \in clusters
      BY <3>3 DEF ClusterInv, ClustersApart
    <3> QED BY <1>2, <3>1, <3>2, <3>3
  <2> QED BY <2>1, <2>2, <2>4
<1>3. ASSUME \A c \in clusters : ~Joins(f, c), clusters' = clusters \cup {{f}}
      PROVE  Fresh' /\ Swept' /\ ClustersApart'
  <2>1. Fresh'
    BY <1>1, <1>3 DEF ClusterInv, Fresh
  <2>2. Swept'
    BY <1>1, <1>3 DEF ClusterInv, Swept, IsNext
  <2>3. ASSUME NEW d \in clusters, NEW y \in d, SameGroup(f, y)
        PROVE  ~Near(f, y)
    BY <1>3, <2>3 DEF Joins
  <2>4. ClustersApart'
    <3> SUFFICES ASSUME NEW c1 \in clusters', NEW c2 \in clusters', c1 # c2,
                        NEW x \in c1, NEW y \in c2, SameGroup(x, y)
                 PROVE  ~Near(x, y)
      BY DEF ClustersApart
    <3>1. CASE c1 = {f}
      BY <1>3, <2>3, <3>1
    <3>2. CASE c2 = {f}
      BY <1>3, <2>3, <3>2, NearIsSymmetric
    <3>3. CASE c1 \in clusters /\ c2 \in clusters
      BY <3>3 DEF ClusterInv, ClustersApart
    <3> QED BY <1>3, <3>1, <3>2, <3>3
  <2> QED BY <2>1, <2>2, <2>4
<1> QED BY <1>2, <1>3 DEF Cluster, ClusterInv

\* So does every other step.
LEMMA ClustersStep == ClusterInv /\ [Next]_vars => ClusterInv'
<1> SUFFICES ASSUME ClusterInv, [Next]_vars PROVE ClusterInv'
  OBVIOUS
<1>1. CASE UNCHANGED reviewVars
  BY <1>1 DEF reviewVars, ClusterInv, Fresh, Swept, ClustersApart
<1>2. CASE \E d \in datasets : FetchLabels(d)
  BY <1>2 DEF FetchLabels, ClusterInv, Fresh, Swept, ClustersApart
<1>3. ASSUME NEW F \in SUBSET Findings, Review(F)
      PROVE  ClusterInv'
  BY <1>3 DEF Review, ClusterInv, Fresh, Swept, ClustersApart
<1>4. CASE \E f \in todo : Cluster(f)
  BY <1>4, ClusterStep
<1>5. CASE KeepBest \/ Verify \/ Evaluate
  BY <1>5 DEF KeepBest, Verify, Evaluate, ClusterInv, Fresh, Swept, ClustersApart
<1> QED BY <1>1, <1>2, <1>3, <1>4, <1>5 DEF Next, vars

\* However the ranges of a run's findings nest, chain or touch, deduplicate puts
\* findings of one file and class within the merge window into one cluster.
THEOREM ClustersAreApart == Spec => []ClustersApart
<1>1. Init => ClusterInv
  BY DEF Init, ClusterInv, Fresh, Swept, ClustersApart
<1>2. Spec => []ClusterInv
  BY <1>1, ClustersStep, PTL DEF Spec
<1> QED BY <1>2, PTL DEF ClusterInv

-----------------------------------------------------------------------------
(* Reports *)

\* What a call in progress looks like.
AtWork == {"fetch", "create", "pos", "neg"}
CallTyped ==
    /\ report \in [Corpora -> Verdicts]
    /\ call.pc # "idle" => call \in Call /\ call.batch \in DOMAIN Batches[call.corpus]

\* The tables accept the source of the labels that are about to be added.
Unlabelled == {"cvefixes", "crossvul"}    \* importers without negative labels
Widened ==
    /\ "benchmark" \in posSources /\ "benchmark" \in negSources
    /\ call.pc \in {"widenNeg"} \cup AtWork => SourceOf(Kd) \in posSources
    /\ call.pc \in AtWork => SourceOf(Kd) \in negSources \/ Kd \in Unlabelled

\* The labels of a batch, its forked rows apart, are in the tables.
Holds(c, i, p, n) ==
    /\ Keys(LabelsIn(c, Plain(c, i), "pos")) \subseteq Keys(p)
    /\ Keys(LabelsIn(c, Plain(c, i), "neg")) \subseteq Keys(n)

\* As long as nothing was passed over, every batch so far is stored.
BatchesStored ==
    /\ call.pc # "idle" /\ ~call.gaps => \A i \in Before : Holds(call.corpus, i, pos, neg)
    /\ call.pc = "neg" => Keys(LabelsIn(call.corpus, Batch, "pos")) \subseteq Keys(pos)

\* Later rows of a Big-Vul commit find the diff that its first row fetched, if all are
\* of one repository.
HasDiff(r, files) == Cached(r) \in files /\ Diff[r.fix] # "empty"
DiffAtHand ==
    call.pc # "idle" /\ Kd = "bigvul" =>
        /\ ~call.gaps => \A i \in Before : \A r \in Plain(call.corpus, i) : HasDiff(r, cache)
        /\ call.pc \in {"create", "pos", "neg"} => HasDiff(TheRow, cache)

ReportInv == CallTyped /\ Widened /\ BatchesStored /\ DiffAtHand /\ ReportIsHonest

\* A parsed corpus is a sequence of batches, not empty.
LEMMA RowsOfCorpus ==
    ASSUME NEW c \in Corpora
    PROVE  /\ Batches[c] \in Seq(SUBSET Row) /\ DOMAIN Batches[c] = 1..Len(Batches[c])
           /\ Len(Batches[c]) \in Nat /\ 1 \in DOMAIN Batches[c] /\ Kind[c] \in Kinds
<1>1. Batches[c] \in Seq(SUBSET Row) /\ Batches[c] # <<>> /\ Kind[c] \in Kinds
  BY CorpusAssumption
<1> QED BY <1>1

\* A set of numbers has a least one.
LEMMA LeastNat ==
    ASSUME NEW T \in SUBSET Nat, T # {}
    PROVE  \E i \in T : \A j \in T : i <= j
<1>1. PICK i \in T : \A j \in T : <<j, i>> \notin OpToRel(<, Nat)
  BY NatLessThanWellFounded, WFMin, Zenon
<1>2. OpToRel(<, Nat) = {ss \in Nat \X Nat : ss[1] < ss[2]}
  BY Zenon DEF OpToRel
<1>3. \A j \in T : ~(j < i)
  BY <1>1, <1>2
<1> QED BY <1>3

\* Keys only come to a table that grows.
LEMMA HoldsOn ==
    ASSUME NEW c, NEW i, NEW p1, NEW n1, NEW p2, NEW n2, p1 \subseteq p2, n1 \subseteq n2,
           Holds(c, i, p1, n1)
    PROVE  Holds(c, i, p2, n2)
  BY DEF Holds, Keys

\* What is inserted under an accepted source is there afterwards, by its key.
LEMMA InsertedIsThere ==
    ASSUME NEW table, NEW new, NEW accepted, \A l \in new : l.source \in accepted
    PROVE  Keys(new) \subseteq Keys(Inserted(table, new, accepted))
  BY DEF Keys, Inserted

\* All labels of a batch carry the source of its importer.
LEMMA SourceOfLabels ==
    ASSUME NEW c, NEW rows, NEW polarity, NEW l \in LabelsIn(c, rows, polarity)
    PROVE  l.source = SourceOf(Kind[c])
  BY DEF LabelsIn

\* These importers have positive labels only.
LEMMA NoNegatives ==
    ASSUME NEW c, NEW rows, Kind[c] \in Unlabelled
    PROVE  LabelsIn(c, rows, "neg") = {}
<1>1. \A mark : Polarity(Kind[c], mark) # "neg"
  BY DEF Polarity, CveFixesPolarity, Unlabelled
<1> QED BY <1>1 DEF LabelsIn

\* Fewer rows, fewer labels.
LEMMA LabelsOfPart ==
    ASSUME NEW c, NEW rows, NEW part, part \subseteq rows, NEW polarity
    PROVE  LabelsIn(c, part, polarity) \subseteq LabelsIn(c, rows, polarity)
  BY DEF LabelsIn

\* Rows of one CVE, commit and mark have labels of the same ids.
LEMMA SameRowSameLabels ==
    ASSUME NEW c \in Corpora, Kind[c] = "bigvul", NEW i \in DOMAIN Batches[c], NEW j \in DOMAIN Batches[c],
           NEW r \in Batches[c][i], NEW s \in Batches[c][j], ~Forked(c, s),
           Pair(r) = Pair(s), r.mark = s.mark, NEW p, NEW n, Holds(c, i, p, n)
    PROVE  Holds(c, j, p, n)
<1>1. r.spots = s.spots /\ r.fix = s.fix /\ r.group = s.group /\ r.repo = s.repo
  <2>1. r.fix = s.fix /\ r.group = s.group
    BY DEF Pair
  <2>2. r.repo = s.repo
    BY DEF Forked
  <2> QED BY <2>1, <2>2, CorpusAssumption
<1>2. Batches[c][i] = {r} /\ Batches[c][j] = {s}
  BY CorpusAssumption DEF ReadsDiff
<1>3. ~Forked(c, r)
  BY <1>1 DEF Forked
<1>4. Plain(c, i) = {r} /\ Plain(c, j) = {s}
  BY <1>2, <1>3 DEF Plain
<1>5. \A polarity : Keys(LabelsIn(c, {s}, polarity)) \subseteq Keys(LabelsIn(c, {r}, polarity))
  <2> SUFFICES ASSUME NEW polarity, NEW l \in LabelsIn(c, {s}, polarity)
               PROVE  l.id \in Keys(LabelsIn(c, {r}, polarity))
    BY DEF Keys
  <2>1. /\ Polarity(Kind[c], s.mark) = polarity
        /\ l \in {[dataset |-> s.dataset, spot |-> x, source |-> SourceOf(Kind[c]),
                   commit |-> Commit[c], id |-> LabelId(Kind[c], s, x)] : x \in s.spots}
    BY DEF LabelsIn
  <2>2. PICK x \in s.spots : l.id = LabelId("bigvul", s, x)
    BY <2>1
  <2> DEFINE m == [dataset |-> r.dataset, spot |-> x, source |-> SourceOf(Kind[c]),
                   commit |-> Commit[c], id |-> LabelId(Kind[c], r, x)]
  <2>3. m \in LabelsIn(c, {r}, polarity)
    BY <1>1, <2>1 DEF LabelsIn
  <2>4. m.id = l.id
    BY <1>1, <2>2 DEF LabelId
  <2> QED BY <2>3, <2>4 DEF Keys
<1> QED BY <1>4, <1>5 DEF Holds

\* Where a diff is read a batch is one row.
LEMMA TheRowIsIt ==
    ASSUME call \in Call, call.batch \in DOMAIN Batches[call.corpus], Kd \in ReadsDiff
    PROVE  Batch = {TheRow}
  BY CorpusAssumption DEF Call, Kd, Batch, TheRow

\* The call record between imports.
LEMMA IdleIsIdle == Idle.pc = "idle"
  BY DEF Idle

\* The report of an import that ends, or the batch it goes on with.
LEMMA NextBatchKeeps ==
    ASSUME ReportInv, call.pc # "idle", NEW gaps \in BOOLEAN, NEW skip \in BOOLEAN,
           NextBatch(gaps, skip),
           pos \subseteq pos', neg \subseteq neg', cache \subseteq cache',
           UNCHANGED <<posSources, negSources>>, call.pc \in AtWork,
           call.gaps => gaps,
           ~gaps => /\ ~skip /\ Holds(call.corpus, call.batch, pos', neg')
                    /\ Kd = "bigvul" => \A r \in Plain(call.corpus, call.batch) : HasDiff(r, cache')
    PROVE  ReportInv'
<1> DEFINE c == call.corpus
           Later == {i \in DOMAIN Batches[c] : i > call.batch /\
                      (skip => \A r \in Batches[c][i] : r.group # TheRow.group)}
           next == CHOOSE i \in Later : \A j \in Later : i <= j
<1> USE DEF ReportInv
<1>1. /\ c \in Corpora /\ call \in Call /\ call.batch \in DOMAIN Batches[c] /\ call.batch \in Nat
      /\ DOMAIN Batches[c] = 1..Len(Batches[c]) /\ Len(Batches[c]) \in Nat
  BY RowsOfCorpus DEF CallTyped, Call
<1>2. \A d \in Corpora : \A i : Holds(d, i, pos, neg) => Holds(d, i, pos', neg')
  BY HoldsOn
<1>3. ~gaps => \A i \in DOMAIN Batches[c] : i <= call.batch => Holds(c, i, pos', neg')
  <2> SUFFICES ASSUME ~gaps, NEW i \in DOMAIN Batches[c], i <= call.batch
               PROVE  Holds(c, i, pos', neg')
    OBVIOUS
  <2>1. CASE i = call.batch
    BY <2>1
  <2>2. CASE i < call.batch
    BY <1>1, <1>2, <2>2 DEF BatchesStored, Before
  <2> QED BY <1>1, <2>1, <2>2
<1>4. \A d \in Corpora : report[d] = "complete" => Stored(d, "pos", pos') /\ Stored(d, "neg", neg')
  BY <1>2 DEF ReportIsHonest, Stored, Holds, Plain
<1>5. CASE Later = {}
  <2>1. /\ call' = Idle
        /\ report' = [report EXCEPT ![c] = IF gaps THEN "gaps" ELSE "complete"]
    BY <1>5 DEF NextBatch, End
  <2>2. ~gaps => Stored(c, "pos", pos') /\ Stored(c, "neg", neg')
    <3> SUFFICES ASSUME ~gaps, NEW i \in DOMAIN Batches[c]
                 PROVE  Holds(c, i, pos', neg')
      BY DEF Stored, Holds, Plain
    <3>1. ~(i > call.batch)
      BY <1>5
    <3> QED BY <1>1, <1>3, <3>1
  <2>3. ReportIsHonest'
    BY <1>1, <1>4, <2>1, <2>2 DEF ReportIsHonest, CallTyped, Stored
  <2>4. CallTyped'
    <3>1. (IF gaps THEN "gaps" ELSE "complete") \in {"gaps", "complete"}
      OBVIOUS
    <3>2. report' \in [Corpora -> Verdicts]
      BY <2>1, <3>1 DEF CallTyped, Verdicts
    <3> QED BY <2>1, <3>2, IdleIsIdle DEF CallTyped
  <2>5. call'.pc \notin AtWork /\ call'.pc = "idle"
    BY <2>1, IdleIsIdle DEF AtWork
  <2>6. Widened' /\ BatchesStored' /\ DiffAtHand'
    BY <2>5 DEF Widened, BatchesStored, DiffAtHand, AtWork
  <2> QED BY <2>3, <2>4, <2>6
<1>6. CASE Later # {}
  <2>1. /\ call' = [call EXCEPT !.batch = next, !.pc = BeginBatch(Kd), !.gaps = gaps]
        /\ report' = report
    BY <1>6 DEF NextBatch
  <2>2. next \in Later /\ \A j \in Later : next <= j
    <3>1. Later \in SUBSET Nat
      BY <1>1
    <3>2. \E i \in Later : \A j \in Later : i <= j
      BY <1>6, <3>1, LeastNat
    <3> QED BY <3>2
  <2> HIDE DEF next
  <2>3. next \in DOMAIN Batches[c] /\ next > call.batch /\ next \in Nat
    BY <1>1, <2>2
  <2>4. ~gaps => next = call.batch + 1
    <3> SUFFICES ASSUME ~gaps PROVE next = call.batch + 1
      OBVIOUS
    <3>1. call.batch + 1 \in Later
      BY <1>1, <2>3
    <3> QED BY <1>1, <2>2, <2>3, <3>1
  <2>5. BeginBatch(Kd) \in {"fetch", "create"}
    BY DEF BeginBatch
  <2>6. /\ call' \in Call /\ call'.corpus = c /\ call'.batch = next /\ call'.gaps = gaps
        /\ call'.pc = BeginBatch(Kd)
    BY <1>1, <2>1, <2>3, <2>5 DEF Call, AtWork
  <2>7. CallTyped'
    BY <2>1, <2>3, <2>6 DEF CallTyped
  <2>8. Kd' = Kd
    BY <2>6 DEF Kd
  <2>9. Widened'
    BY <2>5, <2>6, <2>8 DEF Widened, AtWork
  <2>10. BatchesStored'
    <3> SUFFICES ASSUME ~gaps, NEW i \in DOMAIN Batches[c], i < next
                 PROVE  Holds(c, i, pos', neg')
      BY <2>5, <2>6 DEF BatchesStored, Before
    <3> QED BY <1>1, <1>3, <2>3, <2>4
  <2>11. DiffAtHand'
    <3> SUFFICES ASSUME Kd = "bigvul"
                 PROVE  /\ ~gaps => \A i \in DOMAIN Batches[c] : i < next =>
                              \A r \in Plain(c, i) : HasDiff(r, cache')
                        /\ call'.pc = "fetch"
      BY <2>6, <2>8 DEF DiffAtHand, Before
    <3>1. call'.pc = "fetch"
      BY <2>6 DEF BeginBatch
    <3>2. ASSUME ~gaps, NEW i \in DOMAIN Batches[c], i < next, NEW r \in Plain(c, i)
          PROVE  HasDiff(r, cache')
      <4>1. CASE i = call.batch
        BY <3>2, <4>1
      <4>2. CASE i < call.batch
        BY <3>2, <4>2 DEF DiffAtHand, Before, HasDiff
      <4> QED BY <1>1, <2>3, <2>4, <3>2, <4>1, <4>2
    <3> QED BY <3>1, <3>2
  <2>12. ReportIsHonest'
    BY <1>4, <2>1 DEF ReportIsHonest, Stored
  <2> QED BY <2>7, <2>9, <2>10, <2>11, <2>12
<1> QED BY <1>5, <1>6
\* An import that ends without a report of its own.
LEMMA EndKeeps ==
    ASSUME ReportInv, call.pc # "idle", NEW verdict \in {"refused", "interrupted"}, End(verdict),
           pos \subseteq pos', neg \subseteq neg', UNCHANGED <<posSources, negSources>>
    PROVE  ReportInv'
<1> USE DEF ReportInv
<1>1. call' = Idle /\ report' = [report EXCEPT ![call.corpus] = verdict] /\ call'.pc = "idle"
  BY IdleIsIdle DEF End
<1>2. CallTyped'
  BY <1>1 DEF CallTyped, Verdicts
<1>3. Widened' /\ BatchesStored' /\ DiffAtHand'
  BY <1>1 DEF Widened, BatchesStored, DiffAtHand, AtWork
<1>4. ReportIsHonest'
  <2> SUFFICES ASSUME NEW c \in Corpora, report'[c] = "complete"
               PROVE  Stored(c, "pos", pos') /\ Stored(c, "neg", neg')
    BY DEF ReportIsHonest, Stored
  <2>1. report[c] = "complete"
    BY <1>1 DEF CallTyped
  <2>2. \A i \in DOMAIN Batches[c] : Holds(c, i, pos, neg)
    BY <2>1 DEF ReportIsHonest, Stored, Holds, Plain
  <2>3. \A i \in DOMAIN Batches[c] : Holds(c, i, pos', neg')
    BY <2>2, HoldsOn
  <2> QED BY <2>3 DEF Stored, Holds, Plain
<1> QED BY <1>2, <1>3, <1>4

\* The parts of the invariant, where the corpus, the batch and the gaps of the call
\* stay and tables only grow.
SameCall(pc) ==
    /\ call' \in Call /\ call'.corpus = call.corpus /\ call'.batch = call.batch
    /\ call'.gaps = call.gaps /\ call'.pc = pc

\* Going on in the same batch keeps the call an import in progress.
LEMMA GotoStays ==
    ASSUME ReportInv, call.pc # "idle", NEW pc \in {"widenNeg"} \cup AtWork, Goto(pc)
    PROVE  SameCall(pc)
  BY DEF ReportInv, CallTyped, Call, Goto, SameCall, AtWork

\* A step to another place of the same batch that loses no label and no diff.
LEMMA SameCallKeeps ==
    ASSUME ReportInv, call.pc # "idle", NEW pc \in {"widenNeg"} \cup AtWork, SameCall(pc),
           pos \subseteq pos', neg \subseteq neg', cache \subseteq cache', UNCHANGED report, Widened',
           pc = "neg" => Keys(LabelsIn(call.corpus, Batch, "pos")) \subseteq Keys(pos'),
           Kd = "bigvul" /\ pc \in {"create", "pos", "neg"}
              => HasDiff(TheRow, cache')
    PROVE  ReportInv'
<1> USE DEF ReportInv, SameCall
<1>1. call'.corpus = call.corpus /\ Kd' = Kd /\ Batch' = Batch /\ TheRow' = TheRow /\ Before' = Before
  BY DEF Kd, Batch, TheRow, Before
<1>2. CallTyped'
  BY DEF CallTyped, Call
<1>3. \A d \in Corpora : \A i : Holds(d, i, pos, neg) => Holds(d, i, pos', neg')
  BY HoldsOn
<1>4. BatchesStored'
  <2>1. call.corpus \in Corpora /\ (call'.gaps <=> call.gaps)
    BY DEF CallTyped, Call
  <2>2. ~call.gaps => \A i \in Before : Holds(call.corpus, i, pos', neg')
    BY <1>3, <2>1 DEF BatchesStored
  <2> QED BY <1>1, <2>1, <2>2 DEF BatchesStored
<1>5. DiffAtHand'
  <2>1. Kd = "bigvul" /\ ~call.gaps => \A i \in Before :
                            \A r \in Plain(call.corpus, i) : HasDiff(r, cache')
    BY DEF DiffAtHand, HasDiff
  <2> QED BY <1>1, <2>1 DEF DiffAtHand
<1>6. ReportIsHonest'
  <2> SUFFICES ASSUME NEW c \in Corpora, report[c] = "complete"
               PROVE  Stored(c, "pos", pos') /\ Stored(c, "neg", neg')
    BY DEF ReportIsHonest, Stored
  <2>2. \A i \in DOMAIN Batches[c] : Holds(c, i, pos, neg)
    BY DEF ReportIsHonest, Stored, Holds, Plain
  <2> QED BY <1>3, <2>2 DEF Stored, Holds, Plain
<1> QED BY <1>2, <1>4, <1>5, <1>6

\* One lemma per action of an import: begin, widen, fetch or pass over, create, append, interrupt.
LEMMA BeginKeeps ==
    ASSUME ReportInv, NEW c \in Corpora, Begin(c)
    PROVE  ReportInv'
<1> USE DEF ReportInv
<1>1. /\ call' = [corpus |-> c, pc |-> IF Kind[c] = "owasp" THEN "create" ELSE "widen",
                  batch |-> 1, gaps |-> FALSE]
      /\ UNCHANGED <<posSources, negSources, datasets, pos, neg, cache, report>>
  BY DEF Begin, tables
<1>2. /\ call'.corpus = c /\ call'.batch = 1 /\ call'.gaps = FALSE /\ call' \in Call
      /\ call'.pc \in {"create", "widen"} /\ (call'.pc = "create" => Kind[c] = "owasp")
  BY <1>1 DEF Call, AtWork
<1>3. CallTyped'
  BY <1>1, <1>2, RowsOfCorpus DEF CallTyped
<1>4. Kd' = Kind[c] /\ Before' = {}
  BY <1>2, RowsOfCorpus DEF Kd, Before
<1>5. Widened'
  BY <1>1, <1>2, <1>4 DEF Widened, AtWork, SourceOf
<1>6. BatchesStored' /\ DiffAtHand'
  BY <1>2, <1>4 DEF BatchesStored, DiffAtHand
<1>7. ReportIsHonest'
  BY <1>1 DEF ReportIsHonest, Stored
<1> QED BY <1>3, <1>5, <1>6, <1>7

\* What an import in progress is about.
LEMMA CallFields ==
    ASSUME ReportInv, call.pc # "idle"
    PROVE  /\ call \in Call /\ call.corpus \in Corpora /\ call.gaps \in BOOLEAN
           /\ call.batch \in DOMAIN Batches[call.corpus] /\ call.batch \in Nat /\ Kd \in Kinds
  BY RowsOfCorpus DEF ReportInv, CallTyped, Call, Kd

LEMMA WidenKeeps ==
    ASSUME ReportInv, Widen
    PROVE  ReportInv'
<1> USE DEF ReportInv
<1>1. call.pc = "widen" /\ Kd \in Kinds /\ UNCHANGED <<cache, neg, negSources>>
  BY CallFields DEF Widen, tables
<1>2. AfterWiden \in {"widenNeg", "fetch", "create"}
      /\ (AfterWiden # "widenNeg" => SourceOf(Kd) = "benchmark" \/ Kd \in Unlabelled)
      /\ (AfterWiden = "create" => Kd # "bigvul")
  BY <1>1 DEF AfterWiden, BeginBatch, Kinds, SourceOf, Unlabelled
<1>3. ASSUME Goto(AfterWiden), SourceOf(Kd) \in posSources', pos' = pos, "benchmark" \in posSources',
             UNCHANGED report
      PROVE  ReportInv'
  <2>1. SameCall(AfterWiden)
    BY <1>1, <1>2, <1>3, GotoStays DEF AtWork
  <2>2. Kd' = Kd /\ call'.pc = AfterWiden
    BY <2>1 DEF SameCall, Kd
  <2>3. Widened'
    BY <1>1, <1>2, <1>3, <2>2 DEF Widened, AtWork
  <2> QED BY <1>1, <1>2, <1>3, <2>1, <2>3, SameCallKeeps DEF AtWork
<1>4. CASE Goto(AfterWiden)
  <2>1. CASE SourceOf(Kd) \in posSources
    BY <1>3, <1>4, <2>1 DEF Widen, tables, Widened, Rebuilds
  <2>2. CASE SourceOf(Kd) \notin posSources /\ ~End("refused")
    BY <1>3, <1>4, <2>2 DEF Widen, Rebuilds, BasePos
  <2>3. CASE End("refused")
    <3>1. FALSE
      BY <1>2, <1>4, <2>3, GotoStays, <1>1, IdleIsIdle DEF End, SameCall, AtWork
    <3> QED BY <3>1
  <2> QED BY <2>1, <2>2, <2>3
<1>5. CASE End("refused") /\ UNCHANGED tables
  BY <1>1, <1>5, EndKeeps DEF tables
<1>6. Goto(AfterWiden) \/ (End("refused") /\ UNCHANGED tables)
  BY DEF Widen
<1> QED BY <1>4, <1>5, <1>6

LEMMA WidenNegativeKeeps ==
    ASSUME ReportInv, WidenNegative
    PROVE  ReportInv'
<1> USE DEF ReportInv
<1>1. call.pc = "widenNeg" /\ Kd \in Kinds /\ UNCHANGED <<cache, pos, posSources>>
  BY CallFields DEF WidenNegative, tables
<1>2. BeginBatch(Kd) \in {"fetch", "create"} /\ (BeginBatch(Kd) = "create" => Kd # "bigvul")
  BY DEF BeginBatch
<1>3. ASSUME Goto(BeginBatch(Kd)), SourceOf(Kd) \in negSources', neg' = neg,
             "benchmark" \in negSources', UNCHANGED report
      PROVE  ReportInv'
  <2>1. SameCall(BeginBatch(Kd))
    BY <1>1, <1>2, <1>3, GotoStays DEF AtWork
  <2>2. Kd' = Kd /\ call'.pc = BeginBatch(Kd)
    BY <2>1 DEF SameCall, Kd
  <2>3. Widened'
    BY <1>1, <1>2, <1>3, <2>2 DEF Widened, AtWork
  <2> QED BY <1>1, <1>2, <1>3, <2>1, <2>3, SameCallKeeps DEF AtWork
<1>4. CASE Goto(BeginBatch(Kd))
  <2>1. CASE SourceOf(Kd) \in negSources
    BY <1>3, <1>4, <2>1 DEF WidenNegative, tables, Widened, Rebuilds
  <2>2. CASE SourceOf(Kd) \notin negSources /\ ~End("refused")
    BY <1>3, <1>4, <2>2 DEF WidenNegative, Rebuilds, BaseNeg
  <2>3. CASE End("refused")
    <3>1. FALSE
      BY <1>2, <1>4, <2>3, GotoStays, <1>1, IdleIsIdle DEF End, SameCall, AtWork
    <3> QED BY <3>1
  <2> QED BY <2>1, <2>2, <2>3
<1>5. CASE End("refused") /\ UNCHANGED tables
  BY <1>1, <1>5, EndKeeps DEF tables
<1>6. Goto(BeginBatch(Kd)) \/ (End("refused") /\ UNCHANGED tables)
  BY DEF WidenNegative
<1> QED BY <1>4, <1>5, <1>6

\* A row that is passed over and counts as a gap.
LEMMA SkippedKeeps ==
    ASSUME ReportInv, call.pc \in AtWork, NEW skip \in BOOLEAN, NextBatch(TRUE, skip),
           pos \subseteq pos', neg \subseteq neg', cache \subseteq cache',
           UNCHANGED <<posSources, negSources>>
    PROVE  ReportInv'
  BY NextBatchKeeps DEF AtWork

LEMMA FetchKeeps ==
    ASSUME ReportInv, Fetch
    PROVE  ReportInv'
<1>1. /\ call.pc = "fetch" /\ UNCHANGED <<posSources, negSources, datasets, pos, neg>>
      /\ cache \subseteq cache' /\ call.pc \in AtWork /\ call.pc # "idle"
  BY DEF Fetch, tables, AtWork
<1>2. CASE Skipped
  BY <1>1, <1>2, SkippedKeeps DEF Skipped
<1>3. CASE ~Skipped
  <2>1. Goto("create") /\ UNCHANGED report /\ HasDiff(TheRow, cache')
    BY <1>3 DEF Fetch, HasDiff
  <2>2. SameCall("create")
    BY <1>1, <2>1, GotoStays DEF AtWork
  <2>3. Widened'
    BY <1>1, <2>2 DEF ReportInv, Widened, SameCall, AtWork, Kd
  <2> QED BY <1>1, <2>1, <2>2, <2>3, SameCallKeeps DEF AtWork
<1> QED BY <1>2, <1>3

LEMMA NoRepositoryKeeps ==
    ASSUME ReportInv, NoRepository
    PROVE  ReportInv'
  BY SkippedKeeps DEF NoRepository, tables, AtWork, Skipped

\* A Big-Vul row that is passed over in silence has its labels already, or is forked.
LEMMA ReuseKeeps ==
    ASSUME ReportInv, Reuse
    PROVE  ReportInv'
<1>1. /\ call.pc = "fetch" /\ Kd = "bigvul" /\ ~FirstOfPair
      /\ UNCHANGED <<posSources, negSources, datasets, pos, neg, cache>>
      /\ call.pc \in AtWork /\ call.pc # "idle"
  BY DEF Reuse, tables, AtWork
<1>2. /\ call \in Call /\ call.corpus \in Corpora /\ call.gaps \in BOOLEAN
      /\ call.batch \in DOMAIN Batches[call.corpus]
  BY <1>1, CallFields
<1>3. Batch = {TheRow}
  BY <1>1, <1>2, TheRowIsIt DEF ReadsDiff
<1> DEFINE usable == HasDiff(TheRow, cache)
           c == call.corpus
<1>4. ~call.gaps /\ ~Forked(c, TheRow) => usable
  <2> SUFFICES ASSUME ~call.gaps, ~Forked(c, TheRow) PROVE usable
    OBVIOUS
  <2>1. PICK i \in Before : \E r \in Batches[c][i] : Pair(r) = Pair(TheRow)
    BY <1>1 DEF FirstOfPair
  <2>2. PICK r \in Batches[c][i] : Pair(r) = Pair(TheRow)
    BY <2>1
  <2>3. i \in DOMAIN Batches[c]
    BY DEF Before
  <2>4. r.repo = TheRow.repo /\ r.fix = TheRow.fix
    BY <1>1, <2>2, <2>3 DEF Forked, Pair, Kd
  <2>5. ~Forked(c, r)
    BY <2>2, <2>4 DEF Forked
  <2>6. HasDiff(r, cache)
    BY <1>1, <2>5 DEF ReportInv, DiffAtHand, Plain
  <2> QED BY <2>4, <2>6 DEF HasDiff, Cached
<1>5. CASE usable /\ FirstOfPolarity
  <2>1. Goto("pos") /\ UNCHANGED report
    BY <1>5 DEF Reuse, HasDiff
  <2>2. SameCall("pos")
    BY <1>1, <2>1, GotoStays DEF AtWork
  <2>3. Widened'
    BY <1>1, <2>2 DEF ReportInv, Widened, SameCall, AtWork, Kd
  <2> QED BY <1>1, <1>5, <2>1, <2>2, <2>3, SameCallKeeps DEF AtWork
<1>6. CASE ~(usable /\ FirstOfPolarity)
  <2>1. NextBatch(call.gaps, FALSE)
    BY <1>6 DEF Reuse, HasDiff
  <2>2. ASSUME ~call.gaps
        PROVE  Holds(c, call.batch, pos, neg)
    <3>1. CASE Forked(c, TheRow)
      <4>1. Plain(c, call.batch) = {}
        BY <1>3, <3>1 DEF Plain, Batch
      <4> QED BY <4>1 DEF Holds, LabelsIn, Keys
    <3>2. CASE ~Forked(c, TheRow)
      <4>1. PICK i \in Before : \E r \in Batches[c][i] :
                                    Pair(r) = Pair(TheRow) /\ r.mark = TheRow.mark
        BY <1>4, <1>6, <2>2, <3>2 DEF FirstOfPolarity
      <4>2. PICK r \in Batches[c][i] : Pair(r) = Pair(TheRow) /\ r.mark = TheRow.mark
        BY <4>1
      <4>3. Holds(c, i, pos, neg) /\ i \in DOMAIN Batches[c]
        BY <1>1, <2>2 DEF ReportInv, BatchesStored, Before
      <4>4. TheRow \in Batches[c][call.batch]
        BY <1>3 DEF Batch
      <4> QED BY <1>1, <1>2, <3>2, <4>2, <4>3, <4>4, SameRowSameLabels DEF Kd
    <3> QED BY <3>1, <3>2
  <2>3. ~call.gaps => \A r \in Plain(c, call.batch) : HasDiff(r, cache)
    BY <1>3, <1>4 DEF Plain, Batch
  <2> QED BY <1>1, <1>2, <2>1, <2>2, <2>3, NextBatchKeeps
<1> QED BY <1>5, <1>6

LEMMA CreateDatasetKeeps ==
    ASSUME ReportInv, CreateDataset
    PROVE  ReportInv'
<1>1. /\ call.pc = "create" /\ UNCHANGED <<posSources, negSources, pos, neg, cache, report>>
      /\ call.pc \in AtWork /\ call.pc # "idle"
  BY DEF CreateDataset, AtWork
<1>2. CASE UNCHANGED call
  BY <1>1, <1>2 DEF ReportInv, CallTyped, Widened, BatchesStored, DiffAtHand, ReportIsHonest, Stored,
     Kd, Batch, TheRow, Before, Holds
<1>3. CASE Goto("pos")
  <2>1. SameCall("pos")
    BY <1>1, <1>3, GotoStays DEF AtWork
  <2>2. Widened'
    BY <1>1, <2>1 DEF ReportInv, Widened, SameCall, AtWork, Kd
  <2>3. Kd = "bigvul" => HasDiff(TheRow, cache)
    BY <1>1 DEF ReportInv, DiffAtHand
  <2> QED BY <1>1, <2>1, <2>2, <2>3, SameCallKeeps DEF AtWork
<1> QED BY <1>2, <1>3 DEF CreateDataset

\* An import that an exception ends.
LEMMA RaisedKeeps ==
    ASSUME ReportInv, call.pc \in AtWork, Raised,
           pos \subseteq pos', neg \subseteq neg', cache \subseteq cache',
           UNCHANGED <<posSources, negSources>>
    PROVE  ReportInv'
<1>1. CASE Kd \in ReadsDiff
  BY <1>1, SkippedKeeps DEF Raised
<1>2. CASE Kd \notin ReadsDiff
  BY <1>2, EndKeeps DEF Raised, AtWork
<1> QED BY <1>1, <1>2

LEMMA AppendPositiveKeeps ==
    ASSUME ReportInv, AppendPositive
    PROVE  ReportInv'
<1> DEFINE new == LabelsIn(call.corpus, Batch, "pos")
<1>1. /\ call.pc = "pos" /\ UNCHANGED <<posSources, negSources, datasets, neg, cache>>
      /\ call.pc \in AtWork /\ call.pc # "idle"
  BY DEF AppendPositive, AtWork
<1>2. CASE HasDatasets(new) /\ Readable(new)
  <2>1. pos' = Inserted(pos, new, posSources) /\ Goto("neg") /\ UNCHANGED report
    BY <1>2 DEF AppendPositive
  <2>2. \A l \in new : l.source \in posSources
    BY <1>1, SourceOfLabels DEF ReportInv, Widened, Kd
  <2>3. Keys(new) \subseteq Keys(pos') /\ pos \subseteq pos'
    BY <2>1, <2>2, InsertedIsThere, InsertKeepsAll
  <2>4. SameCall("neg")
    BY <1>1, <2>1, GotoStays DEF AtWork
  <2>5. Widened'
    BY <1>1, <2>4 DEF ReportInv, Widened, SameCall, AtWork, Kd
  <2>6. Kd = "bigvul" => HasDiff(TheRow, cache)
    BY <1>1 DEF ReportInv, DiffAtHand
  <2> QED BY <1>1, <2>1, <2>3, <2>4, <2>5, <2>6, SameCallKeeps DEF AtWork
<1>3. CASE ~(HasDatasets(new) /\ Readable(new))
  BY <1>1, <1>3, RaisedKeeps DEF AppendPositive
<1> QED BY <1>2, <1>3

LEMMA AppendNegativeKeeps ==
    ASSUME ReportInv, AppendNegative
    PROVE  ReportInv'
<1> DEFINE new == LabelsIn(call.corpus, Batch, "neg")
<1>1. /\ call.pc = "neg" /\ UNCHANGED <<posSources, negSources, datasets, pos, cache>>
      /\ call.pc \in AtWork /\ call.pc # "idle"
  BY DEF AppendNegative, AtWork
<1>2. CASE HasDatasets(new)
  <2>1. neg' = Inserted(neg, new, negSources) /\ NextBatch(call.gaps, FALSE)
    BY <1>2 DEF AppendNegative
  <2>2. \A l \in new : l.source \in negSources
    <3>1. CASE Kd \in Unlabelled
      BY <3>1, NoNegatives DEF Kd
    <3>2. CASE Kd \notin Unlabelled
      BY <1>1, <3>2, SourceOfLabels DEF ReportInv, Widened, Kd
    <3> QED BY <3>1, <3>2
  <2>3. Keys(new) \subseteq Keys(neg') /\ neg \subseteq neg'
    BY <2>1, <2>2, InsertedIsThere, InsertKeepsAll
  <2>4. Holds(call.corpus, call.batch, pos', neg')
    <3> DEFINE part == Plain(call.corpus, call.batch)
    <3>1. Keys(LabelsIn(call.corpus, Batch, "pos")) \subseteq Keys(pos')
      BY <1>1 DEF ReportInv, BatchesStored
    <3>2. part \subseteq Batch
      BY DEF Plain, Batch
    <3>3. \A polarity : LabelsIn(call.corpus, part, polarity) \subseteq LabelsIn(call.corpus, Batch, polarity)
      BY <3>2, LabelsOfPart
    <3>4. \A polarity : Keys(LabelsIn(call.corpus, part, polarity))
                            \subseteq Keys(LabelsIn(call.corpus, Batch, polarity))
      BY <3>3 DEF Keys
    <3> QED BY <2>3, <3>1, <3>4 DEF Holds
  <2>5. call.gaps \in BOOLEAN /\ call \in Call /\ call.batch \in DOMAIN Batches[call.corpus]
    BY <1>1, CallFields
  <2>6. Kd = "bigvul" => \A r \in Plain(call.corpus, call.batch) : HasDiff(r, cache)
    <3>1. Kd = "bigvul" => Batch = {TheRow}
      BY <2>5, TheRowIsIt DEF ReadsDiff
    <3> QED BY <1>1, <3>1 DEF ReportInv, DiffAtHand, Plain, Batch
  <2> QED BY <1>1, <2>1, <2>3, <2>4, <2>5, <2>6, NextBatchKeeps
<1>3. CASE ~HasDatasets(new)
  BY <1>1, <1>3, RaisedKeeps DEF AppendNegative
<1> QED BY <1>2, <1>3

LEMMA InterruptKeeps ==
    ASSUME ReportInv, Interrupt
    PROVE  ReportInv'
  BY EndKeeps DEF Interrupt, tables

\* Every step of an import preserves the invariant.
LEMMA ReportInvStep == ReportInv /\ [ImportNext]_importVars => ReportInv'
<1> SUFFICES ASSUME ReportInv, [ImportNext]_importVars PROVE ReportInv'
  OBVIOUS
<1>1. CASE UNCHANGED importVars
  BY <1>1 DEF importVars, tables, ReportInv, CallTyped, Widened, BatchesStored, DiffAtHand, ReportIsHonest, Stored,
     Kd, Batch, TheRow, Before, Holds
<1> QED BY <1>1, BeginKeeps, WidenKeeps, WidenNegativeKeeps, FetchKeeps, NoRepositoryKeeps, ReuseKeeps,
           CreateDatasetKeeps,
           AppendPositiveKeeps, AppendNegativeKeeps, InterruptKeeps DEF ImportNext

\* It holds before the first import.
LEMMA ReportInvInit == ImportInit => ReportInv
  BY IdleIsIdle DEF ImportInit, ReportInv, CallTyped, Verdicts, Widened, BatchesStored, DiffAtHand,
     ReportIsHonest, AtWork

\* An import reported complete has stored every label of its corpus, whatever
\* interruptions, partial imports and widened CHECK constraints came before.
THEOREM ReportsAreHonest == Spec => []ReportIsHonest
<1>1. Init => ReportInv
  BY ReportInvInit DEF Init
<1>2. ReportInv /\ [Next]_vars => ReportInv'
  BY ReportInvStep, ReviewKeepsImports
<1>3. ReportInv => ReportIsHonest
  BY DEF ReportInv
<1> QED BY <1>1, <1>2, <1>3, PTL DEF Spec

-----------------------------------------------------------------------------
(* Sums *)

\* Among subsets of a finite set one has no element to spare.
LEMMA MinimalSet ==
    ASSUME NEW D, IsFiniteSet(D), NEW W \in SUBSET (SUBSET D), W # {}
    PROVE  \E s \in W : \A x \in s : s \ {x} \notin W
<1> DEFINE sizes == {Cardinality(s) : s \in W}
<1>1. \A s \in SUBSET D : IsFiniteSet(s) /\ Cardinality(s) \in Nat
  BY FS_Subset, FS_CardinalityType
<1>2. sizes \in SUBSET Nat /\ sizes # {}
  BY <1>1
<1>3. PICK n \in sizes : \A j \in sizes : n <= j
  BY <1>2, LeastNat
<1>4. PICK s \in W : Cardinality(s) = n
  OBVIOUS
<1>5. ASSUME NEW x \in s, s \ {x} \in W PROVE FALSE
  <2>1. Cardinality(s \ {x}) = Cardinality(s) - 1
    BY <1>1, FS_RemoveElement
  <2>2. Cardinality(s \ {x}) \in sizes
    BY <1>5
  <2>3. s \in SUBSET D
    OBVIOUS
  <2>4. n <= Cardinality(s \ {x})
    BY <1>3, <2>2
  <2> HIDE DEF sizes
  <2> QED BY <1>1, <1>4, <2>1, <2>3, <2>4
<1> QED BY <1>5

\* A largest set of a family of subsets of a finite set.
LEMMA LargestSet ==
    ASSUME NEW D, IsFiniteSet(D), NEW W \in SUBSET (SUBSET D), W # {}
    PROVE  \E s \in W : \A t \in W : Cardinality(t) <= Cardinality(s)
<1> DEFINE gaps == {Cardinality(D) - Cardinality(s) : s \in W}
<1>1. \A s \in SUBSET D : Cardinality(s) \in Nat /\ Cardinality(s) <= Cardinality(D)
  BY FS_Subset, FS_CardinalityType
<1>2. Cardinality(D) \in Nat
  BY FS_CardinalityType
<1>3. gaps \in SUBSET Nat /\ gaps # {}
  BY <1>1, <1>2
<1>4. PICK n \in gaps : \A j \in gaps : n <= j
  BY <1>3, LeastNat
<1>5. PICK s \in W : Cardinality(D) - Cardinality(s) = n
  OBVIOUS
<1>6. ASSUME NEW t \in W PROVE Cardinality(t) <= Cardinality(s)
  <2>1. Cardinality(D) - Cardinality(t) \in gaps
    OBVIOUS
  <2>2. n <= Cardinality(D) - Cardinality(t)
    BY <1>4, <2>1
  <2>3. Cardinality(s) \in Nat /\ Cardinality(t) \in Nat
    BY <1>1
  <2> HIDE DEF gaps
  <2> QED BY <1>2, <1>5, <2>2, <2>3
<1> QED BY <1>6

\* T gives the sum of v over every subset of D.
IsSum(T, D, v) ==
    /\ T \in [SUBSET D -> Nat] /\ T[{}] = 0
    /\ \A s \in SUBSET D : \A x \in s : T[s] = v[x] + T[s \ {x}]

\* A sum over all but one element gives one over all.
LEMMA SumGrows ==
    ASSUME NEW D, NEW v, NEW d \in D, v[d] \in Nat, \A x \in D : v[x] \in Nat,
           NEW T, IsSum(T, D \ {d}, v)
    PROVE  \E U : IsSum(U, D, v)
<1> DEFINE U == [s \in SUBSET D |-> IF d \in s THEN v[d] + T[s \ {d}] ELSE T[s]]
<1>1. \A s \in SUBSET D : /\ s \ {d} \in SUBSET (D \ {d})
                          /\ d \notin s => s \in SUBSET (D \ {d})
  OBVIOUS
<1>2. U \in [SUBSET D -> Nat]
  BY <1>1 DEF IsSum
<1>3. U[{}] = 0
  BY DEF IsSum
<1>4. ASSUME NEW s \in SUBSET D, NEW x \in s PROVE U[s] = v[x] + U[s \ {x}]
  <2>1. CASE x = d
    <3>1. U[s] = v[d] + T[s \ {d}]
      BY <2>1
    <3>2. U[s \ {x}] = T[s \ {d}]
      BY <2>1
    <3> QED BY <2>1, <3>1, <3>2
  <2>2. CASE x # d /\ d \in s
    <3>1. U[s] = v[d] + T[s \ {d}]
      BY <2>2
    <3>2. T[s \ {d}] = v[x] + T[(s \ {d}) \ {x}]
      BY <1>1, <2>2 DEF IsSum
    <3>3. U[s \ {x}] = v[d] + T[(s \ {x}) \ {d}]
      BY <2>2
    <3>4. (s \ {x}) \ {d} = (s \ {d}) \ {x} /\ (s \ {d}) \ {x} \in SUBSET (D \ {d})
      OBVIOUS
    <3>5. T[(s \ {d}) \ {x}] \in Nat
      BY <3>4 DEF IsSum
    <3>6. v[x] \in Nat /\ v[d] \in Nat
      OBVIOUS
    <3> HIDE DEF U
    <3>7. T[(s \ {x}) \ {d}] = T[(s \ {d}) \ {x}]
      BY <3>4
    <3> QED BY <3>1, <3>2, <3>3, <3>5, <3>6, <3>7
  <2>3. CASE d \notin s
    <3>1. U[s] = T[s] /\ U[s \ {x}] = T[s \ {x}]
      BY <2>3
    <3>2. T[s] = v[x] + T[s \ {x}]
      BY <1>1, <2>3 DEF IsSum
    <3> QED BY <3>1, <3>2
  <2> QED BY <2>1, <2>2, <2>3
<1> HIDE DEF U
<1>5. IsSum(U, D, v)
  BY <1>2, <1>3, <1>4 DEF IsSum
<1> QED BY <1>5

\* Every sum of naturals over a finite set exists.
LEMMA SumExists ==
    ASSUME NEW D, IsFiniteSet(D), NEW v, \A x \in D : v[x] \in Nat
    PROVE  \E T : IsSum(T, D, v)
<1> DEFINE W == {E \in SUBSET D : ~\E T : IsSum(T, E, v)}
<1> SUFFICES ASSUME W # {} PROVE FALSE
  OBVIOUS
<1>1. PICK E \in W : \A x \in E : E \ {x} \notin W
  <2> HIDE DEF W
  <2>1. W \in SUBSET (SUBSET D)
    BY DEF W
  <2> QED BY <2>1, MinimalSet
<1>2. CASE E = {}
  <2>1. IsSum([s \in SUBSET {} |-> 0], {}, v)
    BY DEF IsSum
  <2> QED BY <1>2, <2>1
<1>3. CASE E # {}
  <2>1. PICK d \in E : TRUE
    BY <1>3
  <2>2. PICK T : IsSum(T, E \ {d}, v)
    BY <1>1
  <2>3. \E U : IsSum(U, E, v)
    BY <2>2, SumGrows
  <2> QED BY <2>3
<1> QED BY <1>2, <1>3

\* The element a sum takes first.
Chosen(s) == CHOOSE x \in s : TRUE

\* The recursion by which a sum is computed, and what it computes.
FoldsTo(g, S, v) ==
    \A s \in SUBSET S : g[s] = IF s = {} THEN 0 ELSE v[Chosen(s)] + g[s \ {Chosen(s)}]

\* The recursion of MapThenSumSet computes the sum.
LEMMA SumIsUnique ==
    ASSUME NEW D, IsFiniteSet(D), NEW v, NEW T, IsSum(T, D, v), NEW S \in SUBSET D, NEW g,
           FoldsTo(g, S, v)
    PROVE  g[S] = T[S]
<1> DEFINE W == {s \in SUBSET S : g[s] # T[s]}
<1> SUFFICES ASSUME W # {} PROVE FALSE
  OBVIOUS
<1>1. PICK s \in W : \A x \in s : s \ {x} \notin W
  <2> HIDE DEF W
  <2>1. W \in SUBSET (SUBSET S)
    BY DEF W
  <2> QED BY <2>1, MinimalSet, FS_Subset
<1>2. s # {}
  BY DEF IsSum, FoldsTo
<1>3. Chosen(s) \in s
  BY <1>2 DEF Chosen
<1>4. g[s \ {Chosen(s)}] = T[s \ {Chosen(s)}]
  BY <1>1, <1>3
<1>5. T[s] = v[Chosen(s)] + T[s \ {Chosen(s)}]
  BY <1>3 DEF IsSum
<1> QED BY <1>2, <1>4, <1>5 DEF FoldsTo

\* Total of the gains, and below of the scores, is a sum.
LEMMA GainIsSummed ==
    ASSUME NEW D, IsFiniteSet(D), NEW T, IsSum(T, D, [p \in D |-> Gain(p)]), NEW S \in SUBSET D
    PROVE  Total(S, Gain) = T[S]
<1> DEFINE v == [p \in D |-> Gain(p)]
           Body(g) == [s \in SUBSET S |-> IF s = {} THEN 0 ELSE Gain(Chosen(s)) + g[s \ {Chosen(s)}]]
           f == CHOOSE g : g = Body(g)
<1>1. Total(S, Gain) = f[S]
  BY DEF Total, MapThenSumSet, MapThenFoldSet, Chosen
<1>2. \A s \in SUBSET S : s # {} => Chosen(s) \in s
  BY DEF Chosen
<1> DEFINE t == [s \in SUBSET S |-> T[s]]
<1>3. t = Body(t)
  <2>1. ASSUME NEW s \in SUBSET S
        PROVE  T[s] = IF s = {} THEN 0 ELSE Gain(Chosen(s)) + t[s \ {Chosen(s)}]
    <3>1. CASE s = {}
      BY <3>1 DEF IsSum
    <3>2. CASE s # {}
      <4>1. Chosen(s) \in s /\ s \ {Chosen(s)} \in SUBSET S /\ Chosen(s) \in D
        BY <1>2, <3>2
      <4>2. T[s] = v[Chosen(s)] + T[s \ {Chosen(s)}]
        BY <4>1 DEF IsSum
      <4>3. v[Chosen(s)] = Gain(Chosen(s)) /\ t[s \ {Chosen(s)}] = T[s \ {Chosen(s)}]
        BY <4>1
      <4> HIDE DEF t, v
      <4> QED BY <3>2, <4>2, <4>3
    <3> QED BY <3>1, <3>2
  <2> QED BY <2>1
<1>4. f = Body(f)
  <2> HIDE DEF Body
  <2> QED BY <1>3
<1>5. FoldsTo(f, S, v)
  <2> SUFFICES ASSUME NEW s \in SUBSET S
               PROVE f[s] = IF s = {} THEN 0 ELSE v[Chosen(s)] + f[s \ {Chosen(s)}]
    BY DEF FoldsTo
  <2>1. f[s] = Body(f)[s]
    BY <1>4
  <2>2. s # {} => v[Chosen(s)] = Gain(Chosen(s))
    BY <1>2
  <2> HIDE DEF f
  <2>3. Body(f)[s] = IF s = {} THEN 0 ELSE Gain(Chosen(s)) + f[s \ {Chosen(s)}]
    OBVIOUS
  <2> HIDE DEF Body, v
  <2> QED BY <2>1, <2>2, <2>3
<1> HIDE DEF f, v
<1>6. IsSum(T, D, v)
  BY DEF v
<1> HIDE DEF Body, t
<1>7. f[S] = T[S]
  BY <1>5, <1>6, SumIsUnique
<1> QED BY <1>1, <1>7 DEF f
\* The same for the scores.
LEMMA ScoreIsSummed ==
    ASSUME NEW D, IsFiniteSet(D), NEW T, IsSum(T, D, [p \in D |-> PairScore(p)]), NEW S \in SUBSET D
    PROVE  Total(S, PairScore) = T[S]
<1> DEFINE v == [p \in D |-> PairScore(p)]
           Body(g) == [s \in SUBSET S |-> IF s = {} THEN 0 ELSE PairScore(Chosen(s)) + g[s \ {Chosen(s)}]]
           f == CHOOSE g : g = Body(g)
<1>1. Total(S, PairScore) = f[S]
  BY DEF Total, MapThenSumSet, MapThenFoldSet, Chosen
<1>2. \A s \in SUBSET S : s # {} => Chosen(s) \in s
  BY DEF Chosen
<1> DEFINE t == [s \in SUBSET S |-> T[s]]
<1>3. t = Body(t)
  <2>1. ASSUME NEW s \in SUBSET S
        PROVE  T[s] = IF s = {} THEN 0 ELSE PairScore(Chosen(s)) + t[s \ {Chosen(s)}]
    <3>1. CASE s = {}
      BY <3>1 DEF IsSum
    <3>2. CASE s # {}
      <4>1. Chosen(s) \in s /\ s \ {Chosen(s)} \in SUBSET S /\ Chosen(s) \in D
        BY <1>2, <3>2
      <4>2. T[s] = v[Chosen(s)] + T[s \ {Chosen(s)}]
        BY <4>1 DEF IsSum
      <4>3. v[Chosen(s)] = PairScore(Chosen(s)) /\ t[s \ {Chosen(s)}] = T[s \ {Chosen(s)}]
        BY <4>1
      <4> HIDE DEF t, v
      <4> QED BY <3>2, <4>2, <4>3
    <3> QED BY <3>1, <3>2
  <2> QED BY <2>1
<1>4. f = Body(f)
  <2> HIDE DEF Body
  <2> QED BY <1>3
<1>5. FoldsTo(f, S, v)
  <2> SUFFICES ASSUME NEW s \in SUBSET S
               PROVE f[s] = IF s = {} THEN 0 ELSE v[Chosen(s)] + f[s \ {Chosen(s)}]
    BY DEF FoldsTo
  <2>1. f[s] = Body(f)[s]
    BY <1>4
  <2>2. s # {} => v[Chosen(s)] = PairScore(Chosen(s))
    BY <1>2
  <2> HIDE DEF f
  <2>3. Body(f)[s] = IF s = {} THEN 0 ELSE PairScore(Chosen(s)) + f[s \ {Chosen(s)}]
    OBVIOUS
  <2> HIDE DEF Body, v
  <2> QED BY <2>1, <2>2, <2>3
<1> HIDE DEF f, v
<1>6. IsSum(T, D, v)
  BY DEF v
<1> HIDE DEF Body, t
<1>7. f[S] = T[S]
  BY <1>5, <1>6, SumIsUnique
<1> QED BY <1>1, <1>7 DEF f

\* A part sums to no more than the whole.
LEMMA SumOfPart ==
    ASSUME NEW D, IsFiniteSet(D), NEW T, NEW v, IsSum(T, D, v), \A x \in D : v[x] \in Nat
    PROVE  \A s \in SUBSET D : \A t \in SUBSET s : T[t] <= T[s]
<1> DEFINE W == {s \in SUBSET D : \E t \in SUBSET s : ~(T[t] <= T[s])}
<1> SUFFICES ASSUME W # {} PROVE FALSE
  OBVIOUS
<1>1. PICK s \in W : \A x \in s : s \ {x} \notin W
  <2>1. W \in SUBSET (SUBSET D)
    OBVIOUS
  <2> HIDE DEF W
  <2> QED BY <2>1, MinimalSet
<1>2. PICK t \in SUBSET s : ~(T[t] <= T[s])
  OBVIOUS
<1>3. s \in SUBSET D /\ T[s] \in Nat /\ T[t] \in Nat
  BY DEF IsSum
<1>4. PICK x \in s : x \notin t
  BY <1>2, <1>3
<1>5. T[t] <= T[s \ {x}]
  BY <1>1, <1>4
<1>6. T[s] = v[x] + T[s \ {x}] /\ T[s \ {x}] \in Nat /\ v[x] \in Nat
  BY DEF IsSum
<1> QED BY <1>2, <1>3, <1>5, <1>6

\* Pairs that score nothing add nothing.
LEMMA SumOfPositive ==
    ASSUME NEW D, IsFiniteSet(D), NEW T, NEW v, IsSum(T, D, v), \A x \in D : v[x] \in Nat
    PROVE  \A s \in SUBSET D : T[s] = T[{x \in s : v[x] > 0}]
<1> DEFINE P(s) == {x \in s : v[x] > 0}
           W == {s \in SUBSET D : T[s] # T[P(s)]}
<1> SUFFICES ASSUME W # {} PROVE FALSE
  OBVIOUS
<1>1. PICK s \in W : \A x \in s : s \ {x} \notin W
  <2>1. W \in SUBSET (SUBSET D)
    OBVIOUS
  <2> HIDE DEF W
  <2> QED BY <2>1, MinimalSet
<1>2. PICK x \in s : ~(v[x] > 0)
  <2>1. s # P(s)
    OBVIOUS
  <2> QED BY <2>1
<1>3. T[s \ {x}] = T[P(s \ {x})]
  BY <1>1, <1>2
<1>4. P(s \ {x}) = P(s)
  BY <1>2
<1>5. T[s] = v[x] + T[s \ {x}] /\ T[s \ {x}] \in Nat /\ v[x] \in Nat
  BY DEF IsSum
<1>6. v[x] = 0
  BY <1>2, <1>5
<1> HIDE DEF P
<1> QED BY <1>3, <1>4, <1>5, <1>6

\* w is v raised by m on E, and nothing elsewhere.
MaskedBy(D, w, v, E, m) == \A x \in D : w[x] = IF x \in E THEN m + v[x] ELSE 0

\* U is the masked sum over every subset of D.
MaskedSum(D, U, T, E, m) ==
    \A s \in SUBSET D : U[s] = m * Cardinality(s \cap E) + T[s \cap E]

\* A masked sum is the mask times the count, and the sum.
LEMMA SumOfMasked ==
    ASSUME NEW D, IsFiniteSet(D), NEW T, NEW v, IsSum(T, D, v), \A x \in D : v[x] \in Nat,
           NEW U, NEW w, IsSum(U, D, w), NEW E, NEW m \in Nat,
           MaskedBy(D, w, v, E, m)
    PROVE  MaskedSum(D, U, T, E, m)
<1> DEFINE W == {s \in SUBSET D : U[s] # m * Cardinality(s \cap E) + T[s \cap E]}
<1> SUFFICES ASSUME W # {} PROVE FALSE
  BY DEF MaskedSum
<1>1. PICK s \in W : \A x \in s : s \ {x} \notin W
  <2>1. W \in SUBSET (SUBSET D)
    OBVIOUS
  <2> HIDE DEF W
  <2> QED BY <2>1, MinimalSet
<1>2. s # {}
  <2> SUFFICES ASSUME s = {} PROVE FALSE
    OBVIOUS
  <2>1. Cardinality(s \cap E) = 0 /\ s \cap E = {}
    BY FS_EmptySet
  <2>2. m * 0 = 0
    OBVIOUS
  <2> QED BY <2>1, <2>2 DEF IsSum
<1>3. PICK x \in s : TRUE
  BY <1>2
<1> DEFINE r == s \ {x}
           n == Cardinality(r \cap E)
<1>4. /\ r \in SUBSET D /\ s \in SUBSET D /\ r \cap E \in SUBSET D /\ x \in D
      /\ U[r] = m * Cardinality(r \cap E) + T[r \cap E]
  BY <1>1
<1>5. /\ U[s] = w[x] + U[r]
      /\ U[r] \in Nat /\ T[r \cap E] \in Nat /\ v[x] \in Nat
  BY <1>4 DEF IsSum
<1>6. IsFiniteSet(r \cap E) /\ n \in Nat
  BY <1>4, FS_Subset, FS_CardinalityType
<1>7. CASE x \in E
  <2>1. s \cap E = (r \cap E) \cup {x} /\ (s \cap E) \ {x} = r \cap E /\ s \cap E \in SUBSET D
    BY <1>7
  <2>2. Cardinality(s \cap E) = n + 1
    BY <1>6, <2>1, FS_AddElement
  <2>3. T[s \cap E] = v[x] + T[r \cap E]
    <3>1. T[s \cap E] = v[x] + T[(s \cap E) \ {x}]
      BY <1>7, <2>1 DEF IsSum
    <3> QED BY <2>1, <3>1
  <2>4. m * (n + 1) = m * n + m /\ m * n \in Nat
    BY <1>6
  <2>5. w[x] = m + v[x]
    BY <1>7 DEF MaskedBy
  <2> DEFINE k == m * n
  <2> HIDE DEF r, n, k
  <2>6. U[s] = m * Cardinality(s \cap E) + T[s \cap E]
    <3>1. U[r] = k + T[r \cap E]
      BY <1>4 DEF k, n
    <3>2. m * Cardinality(s \cap E) = k + m /\ k \in Nat
      BY <2>2, <2>4 DEF k
    <3> QED BY <1>5, <2>3, <2>5, <3>1, <3>2
  <2> QED BY <2>6
<1>8. CASE x \notin E
  <2>1. s \cap E = r \cap E
    BY <1>8
  <2>2. w[x] = 0
    BY <1>8, <1>4 DEF MaskedBy
  <2>3. U[s] = U[r]
    BY <1>5, <2>2
  <2>4. U[s] = m * Cardinality(s \cap E) + T[s \cap E]
    BY <1>4, <2>1, <2>3
  <2> HIDE DEF r, n
  <2> QED BY <2>4
<1> QED BY <1>7, <1>8

-----------------------------------------------------------------------------
(* Matchings *)

\* A finding and a label without partners can be paired.
LEMMA ExtendsOneToOne ==
    ASSUME NEW B, OneToOne(B), NEW f, NEW l, \A p \in B : p[1] # f /\ p[2] # l
    PROVE  OneToOne(B \cup {<<f, l>>})
  BY DEF OneToOne

\* A matching is no larger than either side; a smaller one leaves someone over.
LEMMA OneToOneSize ==
    ASSUME NEW F, NEW L, IsFiniteSet(F), IsFiniteSet(L), NEW B \in SUBSET (F \X L), OneToOne(B)
    PROVE  /\ IsFiniteSet(B) /\ Cardinality(B) \in Nat
           /\ Cardinality(B) <= Cardinality(F)
           /\ Cardinality(B) <= Cardinality(L)
           /\ Cardinality(B) < Cardinality(F) => \E f \in F : \A p \in B : p[1] # f
           /\ Cardinality(B) < Cardinality(L) => \E l \in L : \A p \in B : p[2] # l
<1>1. IsFiniteSet(B) /\ Cardinality(B) \in Nat
  BY FS_Product, FS_Subset, FS_CardinalityType
<1>2. Cardinality(F) \in Nat /\ Cardinality(L) \in Nat
  BY FS_CardinalityType
<1> DEFINE firsts == {p[1] : p \in B}
           seconds == {p[2] : p \in B}
<1>3. Cardinality(firsts) = Cardinality(B)
  <2> DEFINE g == [p \in B |-> p[1]]
  <2>1. g \in Bijection(B, firsts)
    BY DEF Bijection, Injection, Surjection, IsInjective, OneToOne
  <2> HIDE DEF g, firsts
  <2> QED BY <1>1, <2>1, FS_Bijection DEF ExistsBijection
<1>4. Cardinality(seconds) = Cardinality(B)
  <2> DEFINE g == [p \in B |-> p[2]]
  <2>1. g \in Bijection(B, seconds)
    BY DEF Bijection, Injection, Surjection, IsInjective, OneToOne
  <2> HIDE DEF g, seconds
  <2> QED BY <1>1, <2>1, FS_Bijection DEF ExistsBijection
<1>5. firsts \in SUBSET F /\ seconds \in SUBSET L
  OBVIOUS
<1> HIDE DEF firsts, seconds
<1>6. Cardinality(firsts) <= Cardinality(F) /\ Cardinality(seconds) <= Cardinality(L)
  BY <1>5, FS_Subset
<1>7. Cardinality(B) < Cardinality(F) => \E f \in F : \A p \in B : p[1] # f
  <2>1. Cardinality(B) < Cardinality(F) => firsts # F
    BY <1>1, <1>2, <1>3
  <2> QED BY <1>5, <2>1 DEF firsts
<1>8. Cardinality(B) < Cardinality(L) => \E l \in L : \A p \in B : p[2] # l
  <2>1. Cardinality(B) < Cardinality(L) => seconds # L
    BY <1>1, <1>2, <1>4
  <2> QED BY <1>5, <2>1 DEF seconds
<1> QED BY <1>1, <1>3, <1>4, <1>6, <1>7, <1>8

\* The pairs that the mask leaves.
SameFilePairs(S) == {p \in S : SameFile(p)}

\* One more pair.
LEMMA AddedPair ==
    ASSUME NEW F, NEW L, IsFiniteSet(F), IsFiniteSet(L), NEW B \in SUBSET (F \X L), OneToOne(B),
           NEW f \in F, NEW l \in L, \A p \in B : p[1] # f /\ p[2] # l
    PROVE  /\ B \cup {<<f, l>>} \in SUBSET (F \X L) /\ OneToOne(B \cup {<<f, l>>})
           /\ Cardinality(B \cup {<<f, l>>}) = Cardinality(B) + 1
<1>1. <<f, l>> \notin B
  OBVIOUS
<1>2. IsFiniteSet(B)
  BY OneToOneSize
<1>3. OneToOne(B \cup {<<f, l>>})
  BY ExtendsOneToOne
<1>4. Cardinality(B \cup {<<f, l>>}) = Cardinality(B) + 1
  BY <1>1, <1>2, FS_AddElement
<1> QED BY <1>3, <1>4

\* A matching within files that leaves no pair of one file out has as many
\* pairs as any: in each file all findings or all labels are taken.
LEMMA FullIsLargest ==
    ASSUME NEW F, NEW L, IsFiniteSet(F), IsFiniteSet(L), NEW B \in SUBSET (F \X L),
           OneToOne(B), \A p \in B : SameFile(p),
           \A f \in F, l \in L : SameFile(<<f, l>>) => \E p \in B : p[1] = f \/ p[2] = l,
           NEW A \in SUBSET (F \X L), OneToOne(A), \A p \in A : SameFile(p)
    PROVE  Cardinality(A) <= Cardinality(B)
<1> DEFINE Open(file) == \E f \in F : f.file = file /\ \A p \in B : p[1] # f
           OfLabel(p) == CHOOSE q \in B : q[2] = p[2]
           OfFinding(p) == CHOOSE q \in B : q[1] = p[1]
           h == [p \in A |-> IF Open(p[1].file) THEN OfLabel(p) ELSE OfFinding(p)]
<1>1. ASSUME NEW p \in A, Open(p[1].file)
      PROVE  OfLabel(p) \in B /\ OfLabel(p)[2] = p[2]
  <2>1. PICK f \in F : f.file = p[1].file /\ \A q \in B : q[1] # f
    BY <1>1
  <2>2. SameFile(<<f, p[2]>>) /\ p[2] \in L
    BY <2>1 DEF SameFile
  <2>3. \E q \in B : q[2] = p[2]
    BY <2>1, <2>2
  <2> QED BY <2>3
<1>2. ASSUME NEW p \in A, ~Open(p[1].file)
      PROVE  OfFinding(p) \in B /\ OfFinding(p)[1] = p[1]
  <2>1. \E q \in B : q[1] = p[1]
    BY <1>2
  <2> QED BY <2>1
<1>3. \A p \in A : p[1].file = LabelAt[p[2].spot].file
  BY DEF SameFile
<1>4. \A p \in B : p[1].file = LabelAt[p[2].spot].file
  BY DEF SameFile
<1>5. \A p \in A : h[p] = IF Open(p[1].file) THEN OfLabel(p) ELSE OfFinding(p)
  OBVIOUS
<1>6. h \in [A -> B]
  BY <1>1, <1>2
<1> HIDE DEF h, Open, OfLabel, OfFinding
<1>7. \A p \in A : h[p][1].file = p[1].file
  BY <1>1, <1>2, <1>3, <1>4, <1>5
<1>8. ASSUME NEW p \in A, NEW q \in A, h[p] = h[q] PROVE p = q
  <2>1. p[1].file = q[1].file
    BY <1>7, <1>8
  <2>2. CASE Open(p[1].file)
    <3>1. h[p][2] = p[2] /\ h[q][2] = q[2]
      BY <1>1, <1>5, <2>1, <2>2
    <3> QED BY <1>8, <3>1 DEF OneToOne
  <2>3. CASE ~Open(p[1].file)
    <3>1. h[p][1] = p[1] /\ h[q][1] = q[1]
      BY <1>2, <1>5, <2>1, <2>3
    <3> QED BY <1>8, <3>1 DEF OneToOne
  <2> QED BY <2>2, <2>3
<1>9. h \in Injection(A, B)
  BY <1>6, <1>8 DEF Injection, IsInjective
<1>10. IsFiniteSet(B)
  BY OneToOneSize
<1> QED BY <1>9, <1>10, FS_Injection

\* A matching within files is part of an assignment with as many pairs of one file as any.
LEMMA ExtendsToAssignment ==
    ASSUME NEW F, NEW L, IsFiniteSet(F), IsFiniteSet(L), NEW M \in SUBSET (F \X L),
           OneToOne(M), \A p \in M : SameFile(p)
    PROVE  \E B \in Assignments(F, L) :
              /\ M \subseteq B
              /\ \A A \in Assignments(F, L) :
                    Cardinality(SameFilePairs(A)) <= Cardinality(SameFilePairs(B))
<1> DEFINE D == F \X L
           Within == {X \in SUBSET D : M \subseteq X /\ OneToOne(X) /\ \A p \in X : SameFile(p)}
<1>1. IsFiniteSet(D)
  BY FS_Product
<1>2. PICK C \in Within : \A X \in Within : Cardinality(X) <= Cardinality(C)
  <2>1. Within \in SUBSET (SUBSET D) /\ M \in Within
    OBVIOUS
  <2> HIDE DEF Within, D
  <2> QED BY <1>1, <2>1, LargestSet
<1>3. C \in SUBSET (F \X L) /\ M \subseteq C /\ OneToOne(C) /\ \A p \in C : SameFile(p)
  OBVIOUS
<1>4. \A f \in F, l \in L : SameFile(<<f, l>>) => \E p \in C : p[1] = f \/ p[2] = l
  <2> SUFFICES ASSUME NEW f \in F, NEW l \in L, SameFile(<<f, l>>),
                      \A p \in C : p[1] # f /\ p[2] # l
               PROVE  FALSE
    OBVIOUS
  <2> DEFINE X == C \cup {<<f, l>>}
  <2>0. /\ X \in SUBSET (F \X L) /\ OneToOne(X)
        /\ Cardinality(X) = Cardinality(C) + 1
    BY <1>3, AddedPair
  <2>1. X \in Within /\ Cardinality(X) = Cardinality(C) + 1
    BY <1>3, <2>0
  <2>2. Cardinality(C) \in Nat
    BY <1>3, OneToOneSize
  <2> HIDE DEF Within, X
  <2>3. Cardinality(X) <= Cardinality(C)
    BY <1>2, <2>1
  <2> QED BY <2>1, <2>2, <2>3
<1> DEFINE Beyond == {X \in SUBSET D : C \subseteq X /\ OneToOne(X)}
<1>5. PICK B \in Beyond : \A X \in Beyond : Cardinality(X) <= Cardinality(B)
  <2>1. Beyond \in SUBSET (SUBSET D) /\ C \in Beyond
    BY <1>3
  <2> HIDE DEF Beyond, D
  <2> QED BY <1>1, <2>1, LargestSet
<1>6. B \in SUBSET (F \X L) /\ C \subseteq B /\ OneToOne(B)
  OBVIOUS
<1>7. /\ Cardinality(B) \in Nat /\ Cardinality(F) \in Nat /\ Cardinality(L) \in Nat
      /\ Cardinality(B) <= Cardinality(F) /\ Cardinality(B) <= Cardinality(L)
  BY <1>6, OneToOneSize, FS_CardinalityType
<1>8. ~(Cardinality(B) < Cardinality(F) /\ Cardinality(B) < Cardinality(L))
  <2> SUFFICES ASSUME Cardinality(B) < Cardinality(F), Cardinality(B) < Cardinality(L)
               PROVE  FALSE
    OBVIOUS
  <2>1. PICK f \in F : \A p \in B : p[1] # f
    BY <1>6, OneToOneSize
  <2>2. PICK l \in L : \A p \in B : p[2] # l
    BY <1>6, OneToOneSize
  <2>3. /\ B \cup {<<f, l>>} \in Beyond
        /\ Cardinality(B \cup {<<f, l>>}) = Cardinality(B) + 1
    BY <1>6, <2>1, <2>2, AddedPair
  <2> HIDE DEF Beyond
  <2>4. Cardinality(B \cup {<<f, l>>}) <= Cardinality(B)
    BY <1>5, <2>3
  <2> QED BY <1>7, <2>3, <2>4
<1>9. B \in Assignments(F, L)
  BY <1>6, <1>7, <1>8 DEF Assignments, Smaller
<1>10. ASSUME NEW A \in Assignments(F, L)
       PROVE  Cardinality(SameFilePairs(A)) <= Cardinality(SameFilePairs(B))
  <2>1. A \in SUBSET (F \X L) /\ OneToOne(A)
    BY DEF Assignments
  <2>2. /\ SameFilePairs(A) \in SUBSET (F \X L) /\ OneToOne(SameFilePairs(A))
        /\ \A p \in SameFilePairs(A) : SameFile(p)
    BY <2>1 DEF OneToOne, SameFilePairs
  <2>3. Cardinality(SameFilePairs(A)) <= Cardinality(C)
    BY <1>3, <1>4, <2>2, FullIsLargest
  <2>4. C \in SUBSET SameFilePairs(B) /\ SameFilePairs(B) \in SUBSET (F \X L)
    BY <1>3, <1>6 DEF SameFilePairs
  <2>5. IsFiniteSet(SameFilePairs(B)) /\ IsFiniteSet(SameFilePairs(A))
    BY <1>1, <2>2, <2>4, FS_Subset
  <2>6. Cardinality(C) <= Cardinality(SameFilePairs(B)) /\ Cardinality(C) \in Nat
    BY <1>3, <2>4, <2>5, FS_Subset, OneToOneSize
  <2> QED BY <2>3, <2>5, <2>6, FS_CardinalityType
<1> QED BY <1>3, <1>6, <1>9, <1>10

-----------------------------------------------------------------------------
(* The evaluator *)

\* What the evaluator is given.
Judged(F, L) == /\ F \in SUBSET Findings /\ IsFiniteSet(F) /\ IsFiniteSet(L)
                /\ \A l \in L : l.spot \in Spots

\* A score is what the class gives and what the lines give.
LEMMA ScoreOfPair ==
    ASSUME NEW F, NEW L, Judged(F, L), NEW f \in F, NEW l \in L
    PROVE  /\ Unit \in Nat /\ Unit > 0
           /\ \E share \in Nat :
                 Score(f, l) = (IF f.class = LabelAt[l.spot].class THEN 4 * Unit ELSE 0) + share
<1> DEFINE at == LabelAt[l.spot]
           lines == Larger(LineCount(f.lo, Last(f)), 1)
           share == (2 * Unit * Overlap(f, l)) \div lines
<1>1. /\ f.lo \in Nat /\ Last(f) \in Nat /\ at.lo \in Nat /\ at.hi \in Nat
      /\ Unit \in Nat /\ Unit > 0
  BY ReviewAssumption DEF Judged, Region, Last
<1>2. lines \in Nat \ {0}
  BY <1>1 DEF LineCount, Larger
<1>3. Overlap(f, l) \in Nat
  BY <1>1 DEF LineCount, Larger, Smaller, Overlap, Tolerance
<1>4. 2 * Unit * Overlap(f, l) \in Nat
  BY <1>1, <1>3
<1>5. share \in Nat
  <2> HIDE DEF lines
  <2> QED BY <1>2, <1>4
<1>6. Score(f, l) = (IF f.class = at.class THEN 4 * Unit ELSE 0) + (IF f.lo = 0 THEN 0 ELSE share)
  BY DEF Score
<1>7. (IF f.lo = 0 THEN 0 ELSE share) \in Nat
  BY <1>5
<1> QED BY <1>1, <1>6, <1>7

\* The entries of the matrix.
LEMMA ScoreIsNatural ==
    ASSUME NEW F, NEW L, Judged(F, L), NEW p \in F \X L
    PROVE  /\ PairScore(p) \in Nat /\ Gain(p) \in Nat
           /\ Gain(p) = IF SameFile(p) THEN Masked + PairScore(p) ELSE 0
<1>1. Score(p[1], p[2]) \in Nat /\ Unit \in Nat
  BY ScoreOfPair
<1> QED BY <1>1 DEF Gain, PairScore, Masked

\* The true positives among the pairs of an assignment.
TruePositives(A) == {p \in A : SameFile(p) /\ Score(p[1], p[2]) > 0}

\* No matching within files scores more than an optimal assignment does.
LEMMA OptimalIsBest ==
    ASSUME NEW F, NEW L, Judged(F, L), NEW A \in Optimal(F, L),
           NEW M \in SUBSET {p \in F \X L : SameFile(p) /\ PairScore(p) > 0}, OneToOne(M)
    PROVE  Total(M, PairScore) <= Total(TruePositives(A), PairScore)
<1> DEFINE D == F \X L
           v == [p \in D |-> PairScore(p)]
           w == [p \in D |-> Gain(p)]
<1>1. IsFiniteSet(F) /\ IsFiniteSet(L) /\ IsFiniteSet(D)
  BY FS_Product DEF Judged
<1>2. \A p \in D : v[p] \in Nat /\ w[p] \in Nat
  BY ScoreIsNatural
<1>3. PICK T : IsSum(T, D, v)
  <2> HIDE DEF D, v
  <2> QED BY <1>1, <1>2, SumExists
<1>4. PICK U : IsSum(U, D, w)
  <2> HIDE DEF D, w
  <2> QED BY <1>1, <1>2, SumExists
<1>5. \A S \in SUBSET D : Total(S, PairScore) = T[S]
  BY <1>1, <1>3, ScoreIsSummed
<1>6. \A S \in SUBSET D : Total(S, Gain) = U[S]
  BY <1>1, <1>4, GainIsSummed
<1>7. Masked \in Nat
  BY ReviewAssumption DEF Masked
<1>8. \A S \in SUBSET D : /\ U[S] = Masked * Cardinality(SameFilePairs(S)) + T[SameFilePairs(S)]
                          /\ SameFilePairs(S) \in SUBSET D
  <2> DEFINE E == {p \in D : SameFile(p)}
  <2>1. MaskedBy(D, w, v, E, Masked)
    BY ScoreIsNatural DEF MaskedBy
  <2>2. \A S \in SUBSET D : S \cap E = SameFilePairs(S)
    BY DEF SameFilePairs
  <2>3. \A S \in SUBSET D : U[S] = Masked * Cardinality(S \cap E) + T[S \cap E]
    <3>1. \A p \in D : v[p] \in Nat
      BY <1>2
    <3>2. IsFiniteSet(D)
      BY <1>1
    <3> HIDE DEF D, v, w, E
    <3>3. MaskedSum(D, U, T, E, Masked)
      BY <1>3, <1>4, <1>7, <2>1, <3>1, <3>2, SumOfMasked
    <3> QED BY <3>3 DEF MaskedSum
  <2> QED BY <2>2, <2>3
<1>9. M \in SUBSET D /\ \A p \in M : SameFile(p)
  OBVIOUS
<1>10. PICK B \in Assignments(F, L) :
          /\ M \subseteq B
          /\ \A X \in Assignments(F, L) :
                Cardinality(SameFilePairs(X)) <= Cardinality(SameFilePairs(B))
  BY <1>1, <1>9, ExtendsToAssignment
<1>11. /\ A \in Assignments(F, L) /\ A \in SUBSET D /\ B \in SUBSET D
       /\ Total(B, Gain) <= Total(A, Gain)
  BY DEF Optimal, Assignments
<1> DEFINE a == Cardinality(SameFilePairs(A))
           b == Cardinality(SameFilePairs(B))
<1>12. a \in Nat /\ b \in Nat /\ a <= b
  <2>1. \A S \in SUBSET D : Cardinality(SameFilePairs(S)) \in Nat
    BY <1>1, <1>8, FS_Subset, FS_CardinalityType
  <2> QED BY <1>10, <1>11, <2>1
<1>13. T[SameFilePairs(B)] <= T[SameFilePairs(A)]
  <2>1. Masked * b + T[SameFilePairs(B)] <= Masked * a + T[SameFilePairs(A)]
    BY <1>6, <1>8, <1>11
  <2>2. T[SameFilePairs(B)] \in Nat /\ T[SameFilePairs(A)] \in Nat
    BY <1>3, <1>8, <1>11 DEF IsSum
  <2>3. Masked * a <= Masked * b /\ Masked * a \in Nat /\ Masked * b \in Nat
    <3> HIDE DEF a, b
    <3>1. PICK k \in Nat : b = a + k
      <4>1. b = a + (b - a) /\ b - a \in Nat
        BY <1>12
      <4> QED BY <4>1
    <3>2. Masked * b = Masked * a + Masked * k /\ Masked * k \in Nat /\ Masked * a \in Nat
      BY <1>7, <1>12, <3>1
    <3> QED BY <3>2
  <2> DEFINE ma == Masked * a
             mb == Masked * b
  <2> HIDE DEF ma, mb
  <2>4. mb + T[SameFilePairs(B)] <= ma + T[SameFilePairs(A)] /\ ma <= mb /\ ma \in Nat /\ mb \in Nat
    BY <2>1, <2>3 DEF ma, mb
  <2> QED BY <2>2, <2>4
<1>14. T[M] <= T[SameFilePairs(B)]
  <2>1. M \in SUBSET SameFilePairs(B) /\ SameFilePairs(B) \in SUBSET D
    BY <1>8, <1>9, <1>10, <1>11 DEF SameFilePairs
  <2> HIDE DEF D, v
  <2> QED BY <1>1, <1>2, <1>3, <2>1, SumOfPart
<1>15. T[SameFilePairs(A)] = T[TruePositives(A)]
  <2>1. TruePositives(A) = {p \in SameFilePairs(A) : v[p] > 0} /\ SameFilePairs(A) \in SUBSET D
    BY <1>8, <1>11 DEF TruePositives, SameFilePairs, PairScore
  <2> HIDE DEF D, v
  <2> QED BY <1>1, <1>2, <1>3, <2>1, SumOfPositive
<1>16. TruePositives(A) \in SUBSET D
  BY <1>11 DEF TruePositives
<1>17. T[M] \in Nat /\ T[SameFilePairs(B)] \in Nat /\ T[SameFilePairs(A)] \in Nat
  BY <1>3, <1>8, <1>9, <1>11 DEF IsSum
<1> QED BY <1>5, <1>9, <1>13, <1>14, <1>15, <1>16, <1>17

\* One more pair of positive score scores more.
LEMMA OneMoreScores ==
    ASSUME NEW F, NEW L, Judged(F, L), NEW M \in SUBSET (F \X L), NEW p \in F \X L, p \notin M
    PROVE  Total(M \cup {p}, PairScore) = PairScore(p) + Total(M, PairScore) /\ Total(M, PairScore) \in Nat
<1> DEFINE D == F \X L
           v == [q \in D |-> PairScore(q)]
<1>1. IsFiniteSet(D)
  BY FS_Product DEF Judged
<1>2. \A q \in D : v[q] \in Nat
  BY ScoreIsNatural
<1>3. PICK T : IsSum(T, D, v)
  <2> HIDE DEF D, v
  <2> QED BY <1>1, <1>2, SumExists
<1>4. \A S \in SUBSET D : Total(S, PairScore) = T[S]
  BY <1>1, <1>3, ScoreIsSummed
<1>5. M \cup {p} \in SUBSET D /\ (M \cup {p}) \ {p} = M
  OBVIOUS
<1>6. T[M \cup {p}] = v[p] + T[(M \cup {p}) \ {p}] /\ T[M] \in Nat
  BY <1>3, <1>5 DEF IsSum
<1> QED BY <1>4, <1>5, <1>6

\* A finding that meets a label with lines in order scores by them.
LEMMA LinesScore ==
    ASSUME NEW F, NEW L, Judged(F, L), NEW f \in F, NEW l \in L,
           f.lo # 0, f.lo <= f.hi, LinesMeet(f, l)
    PROVE  /\ (2 * Unit * Overlap(f, l)) \div Larger(LineCount(f.lo, Last(f)), 1) \in Nat
           /\ (2 * Unit * Overlap(f, l)) \div Larger(LineCount(f.lo, Last(f)), 1) > 0
<1> DEFINE at == LabelAt[l.spot]
           n == f.hi - f.lo + 1
           m == Overlap(f, l)
<1>1. /\ f.lo \in Nat /\ f.hi \in Nat /\ at.lo \in Nat /\ at.hi \in Nat
      /\ Unit \in Nat /\ Unit > 0 /\ f \in Findings /\ at.lo <= at.hi + 1
  BY ReviewAssumption DEF Judged, Region
<1>2. Last(f) = f.hi /\ n \in Nat /\ n >= 1
  BY <1>1 DEF Last
<1>3. Larger(LineCount(f.lo, Last(f)), 1) = n
  BY <1>1, <1>2 DEF Larger, LineCount
<1>4. PICK k \in 1..Unit : k * n = Unit
  BY <1>1, <1>2, ReviewAssumption
<1>5. m \in Nat /\ m >= 1
  BY <1>1, <1>2 DEF Overlap, LineCount, Larger, Smaller, Tolerance, LinesMeet
<1> HIDE DEF n, m
<1>a. k \in Nat /\ k >= 1 /\ 2 * k * m \in Nat
  BY <1>1, <1>4, <1>5
<1>b. 2 * k * m >= 1
  BY <1>5, <1>a
<1>6. 2 * Unit * m = n * (2 * k * m) /\ 2 * k * m \in Nat /\ 2 * k * m >= 1
  BY <1>1, <1>2, <1>4, <1>5, <1>a, <1>b
<1>7. \A q \in Nat : (n * q) \div n = q
  BY <1>2
<1> QED BY <1>3, <1>6, <1>7 DEF m

\* A hit that the two scores can agree on has a score.
LEMMA HitScores ==
    ASSUME NEW F, NEW L, Judged(F, L), NEW f \in F, NEW l \in L, Hits(f, l), Comparable(f, l)
    PROVE  SameFile(<<f, l>>) /\ PairScore(<<f, l>>) > 0
<1> DEFINE lines == (2 * Unit * Overlap(f, l)) \div Larger(LineCount(f.lo, Last(f)), 1)
<1>1. PICK share \in Nat :
          Score(f, l) = (IF f.class = LabelAt[l.spot].class THEN 4 * Unit ELSE 0) + share
  BY ScoreOfPair
<1>2. Unit \in Nat /\ Unit > 0
  BY ScoreOfPair
<1>3. CASE f.class = LabelAt[l.spot].class
  BY <1>1, <1>2, <1>3 DEF PairScore, SameFile, Hits
<1>4. CASE f.class # LabelAt[l.spot].class
  <2>1. f.lo # 0 /\ f.lo <= f.hi /\ LinesMeet(f, l)
    BY <1>4 DEF Comparable, Hits
  <2>2. lines \in Nat /\ lines > 0
    BY <2>1, LinesScore
  <2>3. Score(f, l) = 0 + (IF f.lo = 0 THEN 0 ELSE lines)
    BY <1>4 DEF Score
  <2> HIDE DEF lines
  <2>4. Score(f, l) > 0
    BY <2>1, <2>2, <2>3
  <2> QED BY <2>4 DEF PairScore, SameFile, Hits
<1> QED BY <1>3, <1>4

\* A file with such a hit has a true positive: one more pair would score more.
LEMMA HitsAreMatched ==
    ASSUME NEW F, NEW L, Judged(F, L), NEW A \in Optimal(F, L),
           NEW f \in F, NEW l \in L, Hits(f, l), Comparable(f, l)
    PROVE  \E p \in TruePositives(A) : p[1].file = f.file
<1> SUFFICES ASSUME \A p \in TruePositives(A) : p[1].file # f.file PROVE FALSE
  OBVIOUS
<1> DEFINE p == <<f, l>>
           tp == TruePositives(A)
           M == tp \cup {p}
<1>1. tp \in SUBSET (F \X L) /\ OneToOne(tp) /\ \A q \in tp : SameFile(q) /\ PairScore(q) > 0
  BY DEF TruePositives, Optimal, Assignments, OneToOne, PairScore
<1>2. p \in F \X L /\ SameFile(p) /\ PairScore(p) > 0 /\ PairScore(p) \in Nat
  BY HitScores, ScoreIsNatural
<1>3. \A q \in tp : q[1] # f /\ q[2] # l
  BY <1>1, <1>2 DEF SameFile
<1>4. p \notin tp /\ OneToOne(M)
  <2>1. \A q \in tp : q # <<f, l>>
    BY <1>3
  <2> HIDE DEF tp
  <2>2. OneToOne(tp \cup {<<f, l>>})
    BY <1>1, <1>3, ExtendsOneToOne
  <2> QED BY <2>1, <2>2
<1>5. M \in SUBSET {q \in F \X L : SameFile(q) /\ PairScore(q) > 0}
  BY <1>1, <1>2
<1> HIDE DEF tp, p
<1>6. Total(M, PairScore) = PairScore(p) + Total(tp, PairScore) /\ Total(tp, PairScore) \in Nat
  BY <1>1, <1>2, <1>4, OneMoreScores
<1> HIDE DEF M
<1>7. Total(M, PairScore) <= Total(tp, PairScore)
  BY <1>4, <1>5, OptimalIsBest DEF tp
<1> DEFINE more == Total(M, PairScore)
           now == Total(tp, PairScore)
<1>8. more = PairScore(p) + now /\ now \in Nat /\ more <= now
  BY <1>6, <1>7
<1> HIDE DEF more, now
<1> QED BY <1>2, <1>8

\* There are finitely many labels, each of a spot.
Countable == IsFiniteSet(pos) /\ \A l \in pos : l.spot \in Spots

\* What the evaluator is given, and what it makes of it.
JudgedInv == /\ Judged(kept, truth)
             /\ phase = "done" => \E A \in Optimal(kept, truth) : matched = TruePositives(A)

\* A batch has finitely many labels.
LEMMA LabelsAreFinite ==
    ASSUME NEW c \in Corpora, NEW i \in DOMAIN Batches[c], NEW polarity
    PROVE  /\ IsFiniteSet(LabelsIn(c, Batches[c][i], polarity))
           /\ \A l \in LabelsIn(c, Batches[c][i], polarity) : l.spot \in Spots
<1> DEFINE rows == Batches[c][i]
           D == rows \X Spots
           h == [p \in D |-> [dataset |-> p[1].dataset, spot |-> p[2], source |-> SourceOf(Kind[c]),
                              commit |-> Commit[c], id |-> LabelId(Kind[c], p[1], p[2])]]
<1>1. \A r \in rows : r.spots \subseteq Spots
  BY RowsOfCorpus DEF Row
<1>2. IsFiniteSet(D)
  BY CorpusAssumption, FS_Product
<1>3. IsFiniteSet({h[p] : p \in D})
  <2> DEFINE T == {h[p] : p \in D}
  <2>1. h \in Surjection(D, T)
    BY DEF Surjection
  <2> HIDE DEF h, D
  <2> QED BY <1>2, <2>1, FS_Surjection
<1>4. ASSUME NEW l \in LabelsIn(c, rows, polarity)
      PROVE  l \in {h[p] : p \in D} /\ l.spot \in Spots
  <2>1. PICK r \in rows : l \in {[dataset |-> r.dataset, spot |-> s, source |-> SourceOf(Kind[c]),
             commit |-> Commit[c], id |-> LabelId(Kind[c], r, s)] : s \in r.spots}
    BY <1>4 DEF LabelsIn
  <2>2. PICK s \in r.spots : l = [dataset |-> r.dataset, spot |-> s, source |-> SourceOf(Kind[c]),
             commit |-> Commit[c], id |-> LabelId(Kind[c], r, s)]
    BY <2>1
  <2>3. <<r, s>> \in D /\ l = h[<<r, s>>]
    BY <1>1, <2>2
  <2>4. l.spot = s
    BY <2>2
  <2> QED BY <1>1, <2>3, <2>4
<1>5. LabelsIn(c, rows, polarity) \subseteq {h[p] : p \in D}
  BY <1>4
<1> QED BY <1>3, <1>4, <1>5, FS_Subset

\* Every step of an import leaves finitely many.
LEMMA CountableStep == ReportInv /\ Countable /\ [ImportNext]_importVars => Countable'
<1> SUFFICES ASSUME ReportInv, Countable, [ImportNext]_importVars PROVE Countable'
  OBVIOUS
<1>1. CASE AppendPositive
  <2> DEFINE new == LabelsIn(call.corpus, Batch, "pos")
  <2>1. call.corpus \in Corpora /\ call.batch \in DOMAIN Batches[call.corpus]
    BY <1>1, CallFields DEF AppendPositive
  <2>2. IsFiniteSet(new) /\ \A l \in new : l.spot \in Spots
    BY <2>1, LabelsAreFinite DEF Batch
  <2> HIDE DEF new
  <2>3. pos' \subseteq pos \cup new
    BY <1>1 DEF AppendPositive, Inserted, new
  <2>4. IsFiniteSet(pos \cup new)
    BY <2>2, FS_Union DEF Countable
  <2> QED BY <2>2, <2>3, <2>4, FS_Subset DEF Countable
<1>2. CASE Widen
  <2>1. pos' = pos
    BY <1>2, RebuildKeepsAll DEF Widen, tables
  <2> QED BY <2>1 DEF Countable
<1>3. CASE WidenNegative
  <2>1. pos' = pos
    BY <1>3 DEF WidenNegative, tables
  <2> QED BY <2>1 DEF Countable
<1>4. ASSUME \/ \E c \in Corpora : Begin(c)
             \/ Fetch \/ NoRepository \/ Reuse \/ CreateDataset \/ AppendNegative \/ Interrupt
             \/ UNCHANGED importVars
      PROVE  Countable'
  <2>1. pos' = pos
    BY <1>4 DEF Begin, Fetch, NoRepository, Reuse, CreateDataset, AppendNegative, Interrupt, importVars, tables
  <2> QED BY <2>1 DEF Countable
<1> QED BY <1>1, <1>2, <1>3, <1>4 DEF ImportNext

\* So has a dataset.
LEMMA TruthIsFinite ==
    ASSUME Countable, NEW d
    PROVE  IsFiniteSet({l \in pos : l.dataset = d})
  BY FS_Subset DEF Countable

\* The evaluator is given findings and labels, and leaves an optimal choice.
LEMMA JudgedStep == ReportInv /\ Countable /\ JudgedInv /\ [Next]_vars => JudgedInv'
<1> SUFFICES ASSUME Countable, JudgedInv, [Next]_vars PROVE JudgedInv'
  OBVIOUS
<1>0. IsFiniteSet(Findings) /\ \A K \in SUBSET Findings : IsFiniteSet(K)
  BY ReviewAssumption, FS_Subset
<1>1. CASE UNCHANGED reviewVars
  BY <1>1 DEF reviewVars, JudgedInv, Judged, TruePositives, Optimal, Assignments
<1>2. ASSUME NEW d \in datasets, FetchLabels(d) PROVE JudgedInv'
  BY <1>2, TruthIsFinite DEF FetchLabels, JudgedInv, Judged, Countable
<1>3. ASSUME NEW F \in SUBSET Findings, Review(F) PROVE JudgedInv'
  BY <1>0, <1>3 DEF Review, JudgedInv, Judged
<1>4. ASSUME NEW f \in todo, Cluster(f) PROVE JudgedInv'
  BY <1>4 DEF Cluster, JudgedInv, Judged
<1>5. CASE KeepBest
  <2>1. kept' \in SUBSET Findings /\ truth' = truth /\ phase' = "verify"
    BY <1>5 DEF KeepBest
  <2> QED BY <1>0, <2>1 DEF JudgedInv, Judged
<1>6. CASE Verify
  <2>1. kept' \in SUBSET Findings /\ truth' = truth /\ phase' # "done"
    BY <1>6 DEF Verify, JudgedInv, Judged
  <2> QED BY <1>0, <2>1 DEF JudgedInv, Judged
<1>7. CASE Evaluate
  <2>1. /\ \E A \in Optimal(kept, truth) : matched' = TruePositives(A)
        /\ kept' = kept /\ truth' = truth
    BY <1>7 DEF Evaluate, TruePositives
  <2>2. Judged(kept, truth)'
    BY <2>1 DEF JudgedInv, Judged
  <2>3. (\E A \in Optimal(kept, truth) : matched = TruePositives(A))'
    BY <2>1 DEF Optimal, Assignments
  <2> QED BY <2>2, <2>3 DEF JudgedInv
<1> QED BY <1>1, <1>2, <1>3, <1>4, <1>5, <1>6, <1>7 DEF Next, vars

\* An optimal choice has both properties.
LEMMA JudgedIsBest == JudgedInv => BestMatching /\ HitIsMatched
<1> SUFFICES ASSUME JudgedInv, phase = "done" PROVE BestMatching /\ HitIsMatched
  BY DEF BestMatching, HitIsMatched
<1>1. PICK A \in Optimal(kept, truth) : matched = TruePositives(A)
  BY DEF JudgedInv
<1>2. Judged(kept, truth)
  BY DEF JudgedInv
<1>3. BestMatching
  BY <1>1, <1>2, OptimalIsBest DEF BestMatching
<1>4. HitIsMatched
  <2> SUFFICES ASSUME NEW h \in Hitting, Comparable(h[1], h[2])
               PROVE  \E p \in matched : p[1].file = h[1].file
    BY DEF HitIsMatched
  <2>1. h[1] \in kept /\ h[2] \in truth /\ Hits(h[1], h[2])
    BY DEF Hitting
  <2> QED BY <1>1, <1>2, <2>1, HitsAreMatched
<1> QED BY <1>3, <1>4

\* The invariant of imports and reviews together.
LEMMA JudgedAlways == Spec => [](ReportInv /\ Countable /\ JudgedInv)
<1>1. Init => ReportInv /\ Countable /\ JudgedInv
  BY ReportInvInit, FS_EmptySet DEF Init, ImportInit, Countable, JudgedInv, Judged
<1>2. ReportInv /\ Countable /\ JudgedInv /\ [Next]_vars => ReportInv' /\ Countable' /\ JudgedInv'
  BY ReportInvStep, ReviewKeepsImports, CountableStep, JudgedStep
<1> QED BY <1>1, <1>2, PTL DEF Spec

\* The true positives of linear_sum_assignment over the masked, rectangular matrix
\* score as much as any one-to-one matching within files: masking other files and
\* leaving the surplus of one side without a partner costs nothing.
THEOREM MatchingIsBest == Spec => []BestMatching
  BY JudgedAlways, JudgedIsBest, PTL

\* Every file that the scorecard counts as hit has a true positive of the evaluator,
\* when the finding that hit it is of the label's class or gave its lines in order.
THEOREM HitsGetMatched == Spec => []HitIsMatched
  BY JudgedAlways, JudgedIsBest, PTL

-----------------------------------------------------------------------------
(* Types *)

\* Only importers that read diffs fetch one.
FetchReads == call.pc = "fetch" => Kd \in {"crossvul", "bigvul"}

\* The call record and the report stay what they are.
CallOK == \/ call = Idle
          \/ /\ call \in Call
             /\ call.batch \in DOMAIN Batches[call.corpus]

\* The labels of a batch are labels.
LEMMA LabelsAreTyped ==
    ASSUME NEW c \in Corpora, NEW rows \in SUBSET Row, NEW polarity
    PROVE  LabelsIn(c, rows, polarity) \subseteq Label
<1>1. SourceOf(Kind[c]) \in Sources /\ Commit[c] \in Commits
  BY CorpusAssumption DEF SourceOf, Sources, Kinds
<1>2. Kind[c] \in Kinds
  BY CorpusAssumption
<1>3. \A r \in rows : \A s \in r.spots : LabelId(Kind[c], r, s) \in Id
  BY <1>2 DEF LabelId, Id, Row
<1> QED BY <1>1, <1>3 DEF LabelsIn, Label, Row

\* An import that ends, goes on in its batch, or goes on to the next.
LEMMA EndTyped ==
    ASSUME report \in [Corpora -> Verdicts], NEW verdict \in Verdicts, End(verdict)
    PROVE  CallOK' /\ report' \in [Corpora -> Verdicts]
  BY DEF End, CallOK, Idle

LEMMA NextBatchTyped ==
    ASSUME CallOK, call.pc # "idle", report \in [Corpora -> Verdicts], NEW gaps \in BOOLEAN, NEW skip,
           NextBatch(gaps, skip)
    PROVE  CallOK' /\ report' \in [Corpora -> Verdicts]
<1> DEFINE c == call.corpus
           Later == {i \in DOMAIN Batches[c] : i > call.batch /\
                      (skip => \A r \in Batches[c][i] : r.group # TheRow.group)}
           next == CHOOSE i \in Later : \A j \in Later : i <= j
<1>1. call \in Call /\ c \in Corpora /\ Later \in SUBSET Nat
  BY RowsOfCorpus, IdleIsIdle DEF CallOK, Call
<1>2. CASE Later = {}
  <2>1. End(IF gaps THEN "gaps" ELSE "complete")
    BY <1>2 DEF NextBatch
  <2> QED BY <2>1, EndTyped DEF Verdicts
<1>3. CASE Later # {}
  <2>1. next \in Later
    <3> HIDE DEF Later
    <3> QED BY <1>1, <1>3, LeastNat
  <2>2. /\ call' = [call EXCEPT !.batch = next, !.pc = BeginBatch(Kd), !.gaps = gaps]
        /\ report' = report
    BY <1>3 DEF NextBatch
  <2>3. next \in DOMAIN Batches[c] /\ next \in Nat
    BY <1>1, <2>1
  <2> HIDE DEF next
  <2>4. call' \in Call /\ call'.batch = next /\ call'.corpus = c
    BY <1>1, <2>2, <2>3 DEF Call, BeginBatch
  <2> QED BY <2>2, <2>3, <2>4 DEF CallOK
<1> QED BY <1>2, <1>3

LEMMA GotoTyped ==
    ASSUME CallOK, call.pc # "idle", NEW pc \in {"widenNeg", "fetch", "create", "pos", "neg"}, Goto(pc)
    PROVE  CallOK'
  BY IdleIsIdle DEF CallOK, Call, Goto

LEMMA InsertedTyped ==
    ASSUME NEW table, table \subseteq Label, NEW new, new \subseteq Label, NEW accepted
    PROVE  Inserted(table, new, accepted) \subseteq Label
  BY DEF Inserted

\* No step sends another importer to fetch.
LEMMA FetchReadsStep == ImportTypeOK /\ FetchReads /\ [ImportNext]_importVars => FetchReads'
<1> SUFFICES ASSUME ImportTypeOK, FetchReads, [ImportNext]_importVars PROVE FetchReads'
  OBVIOUS
<1>1. call.pc # "idle" => call \in Call
  BY IdleIsIdle DEF ImportTypeOK
<1>2. \A gaps, skip : call.pc # "idle" /\ NextBatch(gaps, skip) => FetchReads'
  <2> SUFFICES ASSUME NEW gaps, NEW skip, call.pc # "idle", NextBatch(gaps, skip) PROVE FetchReads'
    OBVIOUS
  <2>1. \/ \E verdict : End(verdict)
        \/ \E b : call' = [call EXCEPT !.batch = b, !.pc = BeginBatch(Kd), !.gaps = gaps]
    BY DEF NextBatch
  <2>2. CASE \E verdict : End(verdict)
    BY <2>2 DEF End, Idle, FetchReads
  <2>3. ASSUME NEW b, call' = [call EXCEPT !.batch = b, !.pc = BeginBatch(Kd), !.gaps = gaps]
        PROVE  FetchReads'
    <3>1. call'.pc = BeginBatch(Kd) /\ call'.corpus = call.corpus
      BY <1>1, <2>3 DEF Call
    <3> QED BY <3>1 DEF FetchReads, BeginBatch, Kd
  <2> QED BY <2>1, <2>2, <2>3
<1>3. \A pc : call.pc # "idle" /\ Goto(pc) /\ (pc = "fetch" => Kd \in {"crossvul", "bigvul"}) => FetchReads'
  BY <1>1 DEF Goto, FetchReads, Kd, Call
<1>4. \A verdict : End(verdict) => FetchReads'
  BY DEF End, Idle, FetchReads
<1>5. BeginBatch(Kd) = "fetch" => Kd \in {"crossvul", "bigvul"}
  BY DEF BeginBatch
<1>6. ASSUME NEW c \in Corpora, Begin(c) PROVE FetchReads'
  BY <1>6 DEF Begin, FetchReads
<1>7. CASE Widen
  BY <1>3, <1>4, <1>5, <1>7 DEF Widen, AfterWiden
<1>8. CASE WidenNegative
  BY <1>3, <1>4, <1>5, <1>8 DEF WidenNegative
<1>9. CASE Fetch \/ NoRepository \/ Reuse
  BY <1>2, <1>3, <1>9 DEF Fetch, NoRepository, Reuse, Skipped
<1>10. CASE CreateDataset
  BY <1>3, <1>10 DEF CreateDataset, FetchReads, Kd
<1>11. CASE AppendPositive \/ AppendNegative
  BY <1>2, <1>3, <1>4, <1>11 DEF AppendPositive, AppendNegative, Raised
<1>12. CASE Interrupt
  BY <1>4, <1>12 DEF Interrupt
<1>13. CASE UNCHANGED importVars
  BY <1>13 DEF importVars, FetchReads, Kd
<1> QED BY <1>6, <1>7, <1>8, <1>9, <1>10, <1>11, <1>12, <1>13 DEF ImportNext

\* Every step of an import keeps the types.
LEMMA ImportTypeStep == ImportTypeOK /\ FetchReads /\ [ImportNext]_importVars => ImportTypeOK'
<1> SUFFICES ASSUME ImportTypeOK, FetchReads, [ImportNext]_importVars PROVE ImportTypeOK'
  OBVIOUS
<1>a. CallOK /\ report \in [Corpora -> Verdicts] /\ imports \in 0..MaxImports /\ MaxImports \in Nat
  BY CorpusAssumption DEF ImportTypeOK, CallOK
<1>b. call.pc # "idle" => /\ call \in Call /\ call.corpus \in Corpora /\ Batch \in SUBSET Row
                          /\ Kd \in Kinds /\ SourceOf(Kd) \in Sources
  BY <1>a, RowsOfCorpus, IdleIsIdle DEF CallOK, Call, Batch, Kd, Kinds, SourceOf, Sources
<1>c. BasePos \subseteq Sources /\ BaseNeg \subseteq Sources
  BY DEF BasePos, BaseNeg, Sources, Kinds
<1>1. ASSUME NEW c \in Corpora, Begin(c) PROVE ImportTypeOK'
  <2>1. call' \in Call /\ call'.batch = 1 /\ call'.corpus = c
    BY <1>1 DEF Begin, Call
  <2>2. 1 \in DOMAIN Batches[c]
    BY RowsOfCorpus
  <2>3. imports' \in 0..MaxImports
    BY <1>1, <1>a DEF Begin
  <2> QED BY <1>1, <2>1, <2>2, <2>3 DEF ImportTypeOK, Begin, tables
<1>2. CASE Widen
  <2>1. call.pc = "widen" /\ pos' = pos
    BY <1>2, RebuildKeepsAll DEF Widen, tables
  <2>2. CallOK' /\ report' \in [Corpora -> Verdicts]
    <3>1. AfterWiden \in {"widenNeg", "fetch", "create", "pos", "neg"}
      BY DEF AfterWiden, BeginBatch
    <3> QED BY <1>2, <1>a, <2>1, <3>1, GotoTyped, EndTyped DEF Widen, Verdicts
  <2>3. /\ posSources' \subseteq Sources /\ negSources' = negSources /\ datasets' = datasets
        /\ neg' = neg /\ cache' = cache /\ imports' = imports
    BY <1>2, <1>b, <1>c, <2>1 DEF Widen, tables, ImportTypeOK
  <2> QED BY <2>1, <2>2, <2>3 DEF ImportTypeOK, CallOK
<1>3. CASE WidenNegative
  <2>1. call.pc = "widenNeg" /\ neg' = neg
    BY <1>3, RebuildKeepsAll DEF WidenNegative, tables
  <2>2. CallOK' /\ report' \in [Corpora -> Verdicts]
    <3>1. BeginBatch(Kd) \in {"widenNeg", "fetch", "create", "pos", "neg"}
      BY DEF BeginBatch
    <3> QED BY <1>3, <1>a, <2>1, <3>1, GotoTyped, EndTyped DEF WidenNegative, Verdicts
  <2>3. /\ negSources' \subseteq Sources /\ posSources' = posSources /\ datasets' = datasets
        /\ pos' = pos /\ cache' = cache /\ imports' = imports
    BY <1>3, <1>b, <1>c, <2>1 DEF WidenNegative, tables, ImportTypeOK
  <2> QED BY <2>1, <2>2, <2>3 DEF ImportTypeOK, CallOK
<1>4. CASE Fetch
  <2>1. call.pc = "fetch" /\ UNCHANGED tables /\ imports' = imports
    BY <1>4 DEF Fetch
  <2>2. CallOK' /\ report' \in [Corpora -> Verdicts]
    BY <1>4, <1>a, <2>1, GotoTyped, NextBatchTyped DEF Fetch, Skipped
  <2>3. cache' \subseteq STRING \X Fixes
    <3>1. TheRow \in Batch
      <4>1. Kd \in ReadsDiff
        BY <2>1 DEF FetchReads, ReadsDiff
      <4>2. call.batch \in DOMAIN Batches[call.corpus]
        BY <1>a, <2>1, IdleIsIdle DEF CallOK
      <4> QED BY <1>b, <2>1, <4>1, <4>2, TheRowIsIt
    <3>2. Cached(TheRow) \in STRING \X Fixes
      BY <1>b, <2>1, <3>1 DEF Row, Cached
    <3> QED BY <1>4, <3>2 DEF Fetch, ImportTypeOK
  <2> QED BY <2>1, <2>2, <2>3 DEF ImportTypeOK, CallOK, tables
<1>11. CASE NoRepository
  <2>1. call.pc = "fetch" /\ UNCHANGED tables /\ imports' = imports /\ cache' = cache
    BY <1>11 DEF NoRepository
  <2>2. CallOK' /\ report' \in [Corpora -> Verdicts]
    BY <1>11, <1>a, <2>1, NextBatchTyped DEF NoRepository, Skipped
  <2> QED BY <2>1, <2>2 DEF ImportTypeOK, CallOK, tables
<1>5. CASE Reuse
  <2>1. call.pc = "fetch" /\ UNCHANGED tables /\ imports' = imports /\ cache' = cache
    BY <1>5 DEF Reuse
  <2>2. call.gaps \in BOOLEAN
    BY <1>b, <2>1 DEF Call
  <2>3. CallOK' /\ report' \in [Corpora -> Verdicts]
    BY <1>5, <1>a, <2>1, <2>2, GotoTyped, NextBatchTyped DEF Reuse
  <2> QED BY <2>1, <2>3 DEF ImportTypeOK, CallOK, tables
<1>6. CASE CreateDataset
  <2>1. /\ call.pc = "create" /\ UNCHANGED <<posSources, negSources, pos, neg, cache, report, imports>>
    BY <1>6 DEF CreateDataset
  <2>2. CallOK'
    BY <1>6, <1>a, <2>1, GotoTyped DEF CreateDataset, CallOK
  <2>3. Wanted \subseteq Datasets
    BY <1>b, <2>1 DEF Wanted, Row
  <2>4. datasets' \subseteq Datasets
    BY <1>6, <2>3 DEF CreateDataset, ImportTypeOK
  <2> QED BY <2>1, <2>2, <2>4 DEF ImportTypeOK, CallOK
<1>7. CASE AppendPositive
  <2> DEFINE new == LabelsIn(call.corpus, Batch, "pos")
  <2>1. /\ call.pc = "pos" /\ UNCHANGED <<posSources, negSources, datasets, neg, cache, imports>>
    BY <1>7 DEF AppendPositive
  <2>2. new \subseteq Label
    BY <1>b, <2>1, LabelsAreTyped
  <2>3. pos' \subseteq Label
    BY <1>7, <2>2, InsertedTyped DEF AppendPositive, ImportTypeOK
  <2>4. CallOK' /\ report' \in [Corpora -> Verdicts]
    BY <1>7, <1>a, <2>1, GotoTyped, EndTyped, NextBatchTyped DEF AppendPositive, Raised, Verdicts
  <2> QED BY <2>1, <2>3, <2>4 DEF ImportTypeOK, CallOK
<1>8. CASE AppendNegative
  <2> DEFINE new == LabelsIn(call.corpus, Batch, "neg")
  <2>1. /\ call.pc = "neg" /\ UNCHANGED <<posSources, negSources, datasets, pos, cache, imports>>
    BY <1>8 DEF AppendNegative
  <2>2. new \subseteq Label
    BY <1>b, <2>1, LabelsAreTyped
  <2>3. neg' \subseteq Label
    <3>1. neg' = neg \/ neg' = Inserted(neg, new, negSources)
      BY <1>8 DEF AppendNegative
    <3> HIDE DEF new
    <3> QED BY <2>2, <3>1, InsertedTyped DEF ImportTypeOK
  <2>4. call.gaps \in BOOLEAN
    BY <1>b, <2>1 DEF Call
  <2>5. CallOK' /\ report' \in [Corpora -> Verdicts]
    BY <1>8, <1>a, <2>1, <2>4, EndTyped, NextBatchTyped DEF AppendNegative, Raised, Verdicts
  <2> QED BY <2>1, <2>3, <2>5 DEF ImportTypeOK, CallOK
<1>9. CASE Interrupt
  <2>1. UNCHANGED <<tables, cache, imports>> /\ CallOK' /\ report' \in [Corpora -> Verdicts]
    BY <1>9, <1>a, EndTyped DEF Interrupt, Verdicts
  <2> QED BY <2>1 DEF ImportTypeOK, CallOK, tables
<1>10. CASE UNCHANGED importVars
  BY <1>10 DEF ImportTypeOK, importVars, tables
<1> QED BY <1>1, <1>2, <1>3, <1>4, <1>5, <1>6, <1>7, <1>8, <1>9, <1>10, <1>11 DEF ImportNext

\* So does every step of the worker.
LEMMA ReviewTypeStep == ReviewTypeOK /\ FetchReads /\ [Next]_vars => ReviewTypeOK' /\ FetchReads'
<1> SUFFICES ASSUME ReviewTypeOK, FetchReads, [Next]_vars PROVE ReviewTypeOK' /\ FetchReads'
  OBVIOUS
<1>1. ImportTypeOK' /\ FetchReads'
  BY ImportTypeStep, FetchReadsStep, ReviewKeepsImports DEF ReviewTypeOK
<1>2. CASE UNCHANGED reviewVars
  BY <1>1, <1>2 DEF ReviewTypeOK, reviewVars
<1>3. ASSUME NEW d \in datasets, FetchLabels(d) PROVE ReviewTypeOK'
  <2>1. truth' \subseteq Label /\ expectedClean' \subseteq Label
    BY <1>3 DEF FetchLabels, ReviewTypeOK, ImportTypeOK
  <2>2. matched' = {}
    BY <1>3 DEF FetchLabels, ReviewTypeOK
  <2> QED BY <1>1, <1>3, <2>1, <2>2 DEF FetchLabels, ReviewTypeOK
<1>4. ASSUME NEW F \in SUBSET Findings, Review(F) PROVE ReviewTypeOK'
  <2>1. matched' = {} /\ phase' \in {"dedup", "verify"}
    BY <1>4 DEF Review, ReviewTypeOK
  <2> QED BY <1>1, <1>4, <2>1 DEF Review, ReviewTypeOK
<1>5. ASSUME NEW f \in todo, Cluster(f) PROVE ReviewTypeOK'
  <2>1. clusters' \subseteq SUBSET Findings
    BY <1>5 DEF Cluster, ReviewTypeOK
  <2> QED BY <1>1, <1>5, <2>1 DEF Cluster, ReviewTypeOK
<1>6. CASE KeepBest
  <2>1. matched' = {} /\ phase' = "verify" /\ kept' \subseteq Findings
    BY <1>6 DEF KeepBest, ReviewTypeOK
  <2> QED BY <1>1, <1>6, <2>1 DEF KeepBest, ReviewTypeOK
<1>7. CASE Verify
  BY <1>1, <1>7 DEF Verify, ReviewTypeOK
<1>8. CASE Evaluate
  <2>1. matched' \subseteq kept \X truth
    BY <1>8 DEF Evaluate, Optimal, Assignments
  <2> QED BY <1>1, <1>8, <2>1 DEF Evaluate, ReviewTypeOK
<1> QED BY <1>1, <1>2, <1>3, <1>4, <1>5, <1>6, <1>7, <1>8 DEF Next, vars

\* For any corpora and findings the tables hold labels, an import in progress is at a
\* batch of its corpus, and true positives pair findings with labels of the run.
THEOREM ReviewTypeCorrect == Spec => []ReviewTypeOK
<1>1. Init => ReviewTypeOK /\ FetchReads
  BY CorpusAssumption, IdleIsIdle
     DEF Init, ImportInit, ReviewTypeOK, ImportTypeOK, FetchReads, Verdicts, Sources
<1> QED BY <1>1, ReviewTypeStep, PTL DEF Spec
=============================================================================
