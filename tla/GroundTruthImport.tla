------------------------- MODULE GroundTruthImport -------------------------
(***************************************************************************)
(* The corpus importers of ground_truth/: each widens the CHECK constraint *)
(* on the source of labels, creates the datasets of a parsed corpus that   *)
(* are not there yet and adds their labels with INSERT OR IGNORE. Imports  *)
(* run one after another; each can be killed at any await and repeated.    *)
(* A corpus is the sequence of batches its importer commits: one for most, *)
(* one per language for CodeQL, one per fix commit where a diff is read.   *)
(***************************************************************************)
EXTENDS Naturals, Sequences, FiniteSets

CONSTANTS
    Corpora,
    Kind,        \* the importer of each corpus
    Commit,      \* the commit or version the caller pins it to
    Batches,     \* its rows after parsing and filtering
    Diff,        \* what the diff of each fix commit is, where one is read
    Datasets, Spots, Commits,
    MaxImports   \* bound: imports started

Kinds == {"owasp", "bandit", "codeql", "sard", "mitre", "crossvul", "cvefixes", "bigvul"}
ReadsDiff == {"crossvul", "cvefixes", "bigvul"}
Fixes == DOMAIN Diff

\* The group is the CVE of a fix commit, or the language of an archive's testcase.
Row == [dataset : Datasets, spots : SUBSET Spots, mark : STRING,
        group : STRING, repo : STRING, fix : Fixes]

ASSUME CorpusAssumption ==
    /\ Kind \in [Corpora -> Kinds] /\ Commit \in [Corpora -> Commits]
    /\ \A c \in Corpora : Batches[c] \in Seq(SUBSET Row) /\ Batches[c] # <<>>
    /\ \A c \in Corpora : \A i \in DOMAIN Batches[c] : IsFiniteSet(Batches[c][i])
    /\ \A c \in Corpora : Kind[c] \in ReadsDiff =>
          \A i \in DOMAIN Batches[c] : \E r \in Batches[c][i] : Batches[c][i] = {r}
    \* Big-Vul labels every row of a commit by the commit's fix diff.
    /\ \A c \in Corpora : Kind[c] = "bigvul" =>
          \A i, j \in DOMAIN Batches[c] : \A r \in Batches[c][i], s \in Batches[c][j] :
              r.fix = s.fix /\ r.mark = s.mark => r.spots = s.spots
    /\ Diff \in [Fixes -> {"plain", "empty", "malformed"}]
    /\ IsFiniteSet(Spots)
    /\ MaxImports \in Nat

VARIABLES
    posSources, negSources,  \* sources the CHECK of each label table accepts
    datasets,                \* names in the datasets table
    pos, neg,                \* dataset_labels, dataset_negative_labels
    cache,                   \* repositories and fix commits in the diff cache
    call,                    \* the import in progress
    report,                  \* what the last import of each corpus came to
    imports

tables == <<posSources, negSources, datasets, pos, neg>>
importVars == <<tables, cache, call, report, imports>>

-----------------------------------------------------------------------------
(* What a row says of its files *)

\* expectedresults.csv: the column "real vulnerability".
OwaspPolarity(mark) == IF mark = "true" THEN "pos" ELSE "neg"

\* test_functional.py: an expected issue whose example file is missing is skipped.
BanditPolarity(mark) ==
    CASE mark = "issues" -> "pos" [] mark = "issues without file" -> "none" [] OTHER -> "neg"

\* .expected: a sample is hit or clean; no readable .expected, no label.
CodeqlPolarity(mark) ==
    CASE mark = "hit" -> "pos" [] mark = "clean" -> "neg" [] OTHER -> "none"

\* manifest.xml: a flaw wins over a fix, and a testcase with neither is dropped.
SardPolarity(mark) ==
    CASE mark \in {"flaw", "flaw and fix"} -> "pos" [] mark = "fix" -> "neg" [] OTHER -> "none"

\* cwec.xml: codes that are neither Bad nor Good are dropped.
MitrePolarity(mark) ==
    CASE mark = "Bad" -> "pos" [] mark = "Good" -> "neg" [] OTHER -> "none"

\* The vul column, by which the whole fix diff is labelled.
BigVulPolarity(mark) ==
    CASE mark = "1" -> "pos" [] mark = "0" -> "neg" [] OTHER -> "none"

\* A fix commit without parent, repository or language is passed over.
CveFixesPolarity(mark) == IF mark = "incomplete" THEN "none" ELSE "pos"

Polarity(k, mark) ==
    CASE k = "owasp" -> OwaspPolarity(mark)   [] k = "bandit" -> BanditPolarity(mark)
      [] k = "codeql" -> CodeqlPolarity(mark) [] k = "sard" -> SardPolarity(mark)
      [] k = "mitre" -> MitrePolarity(mark)   [] k = "bigvul" -> BigVulPolarity(mark)
      [] k = "cvefixes" -> CveFixesPolarity(mark) [] k = "crossvul" -> "pos"

Sources == Kinds \cup {"benchmark", "cve_patch", "injected", "manual"}
Id == Kinds \X (STRING \cup Datasets) \X Fixes \X Spots
Label == [dataset : Datasets, spot : Spots, source : Sources, commit : Commits, id : Id]
Keys(table) == {l.id : l \in table}

SourceOf(k) == IF k \in {"owasp", "bandit"} THEN "benchmark" ELSE k

\* The primary key of a label. It names the dataset for OWASP and MITRE only; else the
\* language, or the CVE and the fix commit, and nothing but the example for Bandit.
LabelId(k, r, s) == <<k, IF k \in {"owasp", "mitre"} THEN r.dataset ELSE r.group, r.fix, s>>

LabelsIn(c, rows, polarity) ==
    UNION {{[dataset |-> r.dataset, spot |-> s, source |-> SourceOf(Kind[c]),
             commit |-> Commit[c], id |-> LabelId(Kind[c], r, s)] : s \in r.spots} :
           r \in {q \in rows : Polarity(Kind[c], q.mark) = polarity}}

-----------------------------------------------------------------------------
(* The tables *)

BasePos == {"benchmark", "cve_patch", "cvefixes", "crossvul", "injected", "manual"}
BaseNeg == {"benchmark", "manual", "sard"}
SourcesIn(table) == {l.source : l \in table}

\* Mutant: the rows are copied with INSERT OR IGNORE.
RebuildsWhatFits(table, accepted) == {{l \in table : l.source \in accepted}}

\* What copying a table under a new CHECK can give: all of it, or no table at all
\* when a row's source is not accepted.
Rebuilds(table, accepted) == {t \in {table} : SourcesIn(t) \subseteq accepted}

\* INSERT OR IGNORE passes over known ids and over rows the CHECK refuses.
Inserted(table, new, accepted) ==
    table \cup {l \in new : l.source \in accepted /\ l.id \notin Keys(table)}

-----------------------------------------------------------------------------
(* One import *)

Kd == Kind[call.corpus]
Batch == Batches[call.corpus][call.batch]
TheRow == CHOOSE r \in Batch : TRUE             \* of an importer that reads a diff
Idle == [corpus |-> "none", pc |-> "idle", batch |-> 0, gaps |-> FALSE]
Goto(pc) == call' = [call EXCEPT !.pc = pc]
End(verdict) == /\ call' = Idle
                /\ report' = [report EXCEPT ![call.corpus] = verdict]

BeginBatch(k) == IF k \in {"crossvul", "bigvul"} THEN "fetch" ELSE "create"

\* The next batch after this one, or the next that is of another CVE.
NextBatch(gaps, skipCve) ==
    LET c == call.corpus
        Later == {i \in DOMAIN Batches[c] : i > call.batch /\
                    (skipCve => \A r \in Batches[c][i] : r.group # TheRow.group)}
    IN IF Later = {}
       THEN End(IF gaps THEN "gaps" ELSE "complete")
       ELSE /\ call' = [call EXCEPT !.batch = CHOOSE i \in Later : \A j \in Later : i <= j,
                                    !.pc = BeginBatch(Kd), !.gaps = gaps]
            /\ UNCHANGED report

\* A row that is skipped or raises is counted, and the import goes on.
Skipped == NextBatch(TRUE, FALSE)
Raised == IF Kd \in ReadsDiff THEN NextBatch(TRUE, Kd = "cvefixes") ELSE End("refused")

Begin(c) ==
    /\ call.pc = "idle" /\ imports < MaxImports
    /\ imports' = imports + 1
    /\ call' = [corpus |-> c, pc |-> IF Kind[c] = "owasp" THEN "create" ELSE "widen",
                batch |-> 1, gaps |-> FALSE]
    /\ UNCHANGED <<tables, cache, report>>

AfterWiden == IF Kd \in {"sard", "codeql", "mitre", "bigvul"} THEN "widenNeg" ELSE BeginBatch(Kd)

\* ensure_source_check_includes: probe, then rebuild in one transaction.
Widen ==
    LET accepted == BasePos \cup {SourceOf(Kd)} IN
    /\ call.pc = "widen"
    /\ \/ /\ SourceOf(Kd) \in posSources
          /\ Goto(AfterWiden)
          /\ UNCHANGED <<tables, report>>
       \/ /\ SourceOf(Kd) \notin posSources
          /\ pos' \in Rebuilds(pos, accepted)
          /\ posSources' = accepted
          /\ Goto(AfterWiden)
          /\ UNCHANGED <<negSources, datasets, neg, report>>
       \/ /\ SourceOf(Kd) \notin posSources /\ Rebuilds(pos, accepted) = {}
          /\ End("refused")
          /\ UNCHANGED tables
    /\ UNCHANGED <<cache, imports>>

\* ensure_negative_source_check_includes
WidenNegative ==
    LET accepted == BaseNeg \cup {SourceOf(Kd)} IN
    /\ call.pc = "widenNeg"
    /\ \/ /\ SourceOf(Kd) \in negSources
          /\ Goto(BeginBatch(Kd))
          /\ UNCHANGED <<tables, report>>
       \/ /\ SourceOf(Kd) \notin negSources
          /\ neg' \in Rebuilds(neg, accepted)
          /\ negSources' = accepted
          /\ Goto(BeginBatch(Kd))
          /\ UNCHANGED <<posSources, datasets, pos, report>>
       \/ /\ SourceOf(Kd) \notin negSources /\ Rebuilds(neg, accepted) = {}
          /\ End("refused")
          /\ UNCHANGED tables
    /\ UNCHANGED <<cache, imports>>

Before == {i \in DOMAIN Batches[call.corpus] : i < call.batch}
Pair(r) == <<r.group, r.fix>>    \* the CVE and the fix commit, in whatever repository
FirstOfPair == \A i \in Before : \A r \in Batches[call.corpus][i] : Pair(r) # Pair(TheRow)

\* Mutant: only the first row of a commit is labelled.
FirstOfAny == FirstOfPair

FirstOfPolarity == \A i \in Before : \A r \in Batches[call.corpus][i] :
                       Pair(r) # Pair(TheRow) \/ r.mark # TheRow.mark

Cached(r) == <<r.repo, r.fix>>    \* the cache file of a row's diff
NoRepo == "-"

\* _resolve_diff: from the cache, or from the network into the cache. Big-Vul asks for
\* it at the first row of a CVE and commit only, and skips rows without a repository.
Fetch ==
    /\ call.pc = "fetch"
    /\ Kd = "bigvul" => FirstOfPair /\ TheRow.repo # NoRepo
    /\ \/ /\ cache' = cache \cup {Cached(TheRow)}
          /\ IF Diff[TheRow.fix] = "empty" THEN Skipped ELSE Goto("create") /\ UNCHANGED report
       \/ /\ Cached(TheRow) \notin cache
          /\ Skipped
          /\ UNCHANGED cache
    /\ UNCHANGED <<tables, imports>>

NoRepository ==
    /\ call.pc = "fetch" /\ Kd = "bigvul" /\ TheRow.repo = NoRepo
    /\ Skipped
    /\ UNCHANGED <<tables, cache, imports>>

\* A later Big-Vul row of a CVE and commit: from its repository's cache file alone, and
\* silently over when there is nothing or this polarity has had its row. No dataset is
\* created for it.
Reuse ==
    LET usable == Cached(TheRow) \in cache /\ Diff[TheRow.fix] # "empty" IN
    /\ call.pc = "fetch" /\ Kd = "bigvul" /\ TheRow.repo # NoRepo /\ ~FirstOfPair
    /\ IF usable /\ FirstOfPolarity THEN Goto("pos") /\ UNCHANGED report
       ELSE NextBatch(call.gaps, FALSE)
    /\ UNCHANGED <<tables, cache, imports>>

Wanted == {r.dataset : r \in {q \in Batch : Kd = "cvefixes" => Polarity(Kd, q.mark) # "none"}}

CreateDataset ==
    /\ call.pc = "create"
    /\ \/ \E d \in Wanted \ datasets :
             /\ datasets' = datasets \cup {d}
             /\ UNCHANGED call
       \/ /\ Wanted \subseteq datasets
          /\ Goto("pos")
          /\ UNCHANGED datasets
    /\ UNCHANGED <<posSources, negSources, pos, neg, cache, report, imports>>

HasDatasets(new) == {l.dataset : l \in new} \subseteq datasets    \* the foreign key
Readable(new) == Kd \in ReadsDiff /\ new # {} => Diff[TheRow.fix] # "malformed"

\* append_dataset_labels
AppendPositive ==
    LET new == LabelsIn(call.corpus, Batch, "pos") IN
    /\ call.pc = "pos"
    /\ IF HasDatasets(new) /\ Readable(new)
       THEN /\ pos' = Inserted(pos, new, posSources)
            /\ Goto("neg")
            /\ UNCHANGED report
       ELSE /\ Raised
            /\ UNCHANGED pos
    /\ UNCHANGED <<posSources, negSources, datasets, neg, cache, imports>>

\* append_dataset_negative_labels
AppendNegative ==
    LET new == LabelsIn(call.corpus, Batch, "neg") IN
    /\ call.pc = "neg"
    /\ IF HasDatasets(new)
       THEN /\ neg' = Inserted(neg, new, negSources)
            /\ NextBatch(call.gaps, FALSE)
       ELSE /\ Raised
            /\ UNCHANGED neg
    /\ UNCHANGED <<posSources, negSources, datasets, pos, cache, imports>>

\* The process is killed, or a file is missing or unreadable.
Interrupt ==
    /\ call.pc # "idle"
    /\ End("interrupted")
    /\ UNCHANGED <<tables, cache, imports>>

ImportInit ==
    /\ posSources = {"benchmark", "cve_patch", "injected", "manual"}
    /\ negSources = {"benchmark", "manual"}
    /\ datasets = {} /\ pos = {} /\ neg = {} /\ cache = {}
    /\ call = Idle
    /\ report = [c \in Corpora |-> "none"]
    /\ imports = 0

ImportNext ==
    \/ \E c \in Corpora : Begin(c)
    \/ Widen \/ WidenNegative \/ Fetch \/ NoRepository \/ Reuse \/ CreateDataset
    \/ AppendPositive \/ AppendNegative \/ Interrupt

ImportSpec == ImportInit /\ [][ImportNext]_importVars

-----------------------------------------------------------------------------
(* Properties *)

Verdicts == {"none", "complete", "gaps", "refused", "interrupted"}
Call == [corpus : Corpora, pc : {"widen", "widenNeg", "fetch", "create", "pos", "neg"},
         batch : Nat, gaps : BOOLEAN]

\* Both tables hold labels of known datasets and spots, an import in progress is at a
\* batch of its corpus, and there are no more imports than may begin.
ImportTypeOK ==
    /\ posSources \subseteq Sources /\ negSources \subseteq Sources
    /\ datasets \subseteq Datasets /\ cache \subseteq STRING \X Fixes
    /\ pos \subseteq Label /\ neg \subseteq Label
    /\ \/ call = Idle
       \/ /\ call \in Call
          /\ call.batch \in DOMAIN Batches[call.corpus]
    /\ report \in [Corpora -> Verdicts]
    /\ imports \in 0..MaxImports

\* No migration of a CHECK constraint, repeated or interrupted import takes or
\* changes a label that is stored.
LabelsSurvive == [][pos \subseteq pos' /\ neg \subseteq neg']_importVars

\* Big-Vul rows whose CVE and commit come from several repositories. Rows are told
\* apart by CVE and commit, datasets and diffs by the repository too, so some of them
\* are passed over in silence.
Forked(c, r) ==
    Kind[c] = "bigvul" /\ \E i \in DOMAIN Batches[c] : \E s \in Batches[c][i] :
        Pair(s) = Pair(r) /\ s.repo # r.repo
Plain(c, i) == {r \in Batches[c][i] : ~Forked(c, r)}

\* An importer that reports neither a skip nor an error has a label stored under every
\* id of its corpus, forked rows apart, also when earlier imports of it were cut short.
Stored(c, polarity, table) ==
    \A i \in DOMAIN Batches[c] : Keys(LabelsIn(c, Plain(c, i), polarity)) \subseteq Keys(table)

ReportIsHonest ==
    \A c \in Corpora : report[c] = "complete" => Stored(c, "pos", pos) /\ Stored(c, "neg", neg)

=============================================================================
