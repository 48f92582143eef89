---------------------------- MODULE BundleImport ----------------------------
(***************************************************************************)
(* Export and import of experiment bundles (bundle.py), beside the         *)
(* experiments, runs, datasets, dataset_labels and findings tables, the    *)
(* outputs/ and config/runs directories, a run that finishes, the deletion *)
(* of an experiment and a restart of the coordinator. A request is cut     *)
(* where its handler awaits the database.                                  *)
(***************************************************************************)
EXTENDS Naturals, FiniteSets

CONSTANTS
    Exps,        \* experiment ids that users choose
    Runs,        \* run ids
    Datasets,    \* dataset names
    BaseOf,      \* [Datasets -> Datasets \cup {NoRow}]: base_dataset
    DatasetOf,   \* [Exps -> Datasets]: dataset_name in the configuration
    Foreign,     \* bundles that were exported elsewhere
    Local,       \* [Exps -> SUBSET Runs]: runs submitted here, none if not submitted
    Transfers,   \* imports, exports and deletions, numbered as they arrive (a bound)
    MaxKills,    \* bound: restarts of the coordinator
    NoRow

\* "<id>_imported_<uuid>": the uuid is drawn by the request.
ExpIds == Exps \cup (Exps \X Transfers)
Names == Datasets \cup (Datasets \X Transfers)
Policies == {"reject", "rename", "merge"}

Bundle == [exp : Exps, runs : SUBSET Runs, files : SUBSET Runs, configs : SUBSET Runs,
           datasets : SUBSET Datasets, labels : SUBSET Datasets]

BasesIn(ds, all) == \A d \in ds : BaseOf[d] = NoRow \/ BaseOf[d] \in all
Closed(ds) == BasesIn(ds, ds)

ASSUME ConstantsAssumption ==
    /\ BaseOf \in [Datasets -> Datasets \cup {NoRow}] /\ NoRow \notin ExpIds \cup Names
    /\ Datasets \cap (Datasets \X Transfers) = {} /\ Exps \cap (Exps \X Transfers) = {}
    /\ Exps # {} /\ DatasetOf \in [Exps -> Datasets] /\ Local \in [Exps -> SUBSET Runs]
    /\ \A b \in Foreign : b \in Bundle /\ Closed(b.datasets) /\ b.labels \subseteq b.datasets
    /\ Transfers \subseteq Nat /\ IsFiniteSet(Transfers) /\ MaxKills \in Nat

VARIABLES
    exps,      \* the experiments table
    runs,      \* the runs table: the experiment of each run
    outputs,   \* outputs/<experiment>/<run>
    dirs,      \* outputs/<experiment>
    configs,   \* config/runs/<run>.json: absent, with the upload token, or without
    datasets,  \* the datasets table, by name; base_dataset is BaseIn
    labels,    \* the dataset_labels table: the name each label id is stored under
    trees,     \* datasets/<name>/repo
    findings,  \* the findings table: the experiment each run's rows are under
    zips,      \* bundles a user holds
    tmp,       \* uploads in the tmp directory
    req,
    kills      \* restarts of the coordinator

artifacts == <<outputs, dirs, configs>>
tables == <<exps, runs, datasets, labels, findings>>
disk == <<artifacts, trees, zips, tmp>>
bundleVars == <<tables, disk, req, kills>>

Nothing == [exp |-> CHOOSE e \in Exps : TRUE, runs |-> {}, files |-> {}, configs |-> {},
            datasets |-> {}, labels |-> {}]
Idle == [pc |-> "idle", op |-> "none", policy |-> "reject", zip |-> Nothing,
         target |-> NoRow, renamed |-> {}, left |-> {}, rival |-> FALSE]
Over == {"idle", "ok", "failed"}
Request == [pc : Over \cup {"check", "compare", "extract", "datasets", "materialize", "labels",
                            "rows", "index",                            \* an import
                            "row", "runs", "collect", "read", "write",  \* an export
                            "purge", "erase"},                          \* a deletion
            op : {"none", "import", "export", "delete"}, policy : Policies, zip : Bundle,
            target : ExpIds \cup {NoRow}, renamed : SUBSET Datasets,
            left : SUBSET (Names \cup Runs), rival : BOOLEAN]

Active(q) == req[q].pc \notin Over
Goto(q, pc) == req' = [req EXCEPT ![q].pc = pc]

\* A request arrives. rival is no state of the code: it remembers that two
\* requests were at work on one experiment id at once.
Arrive(q, r) ==
    LET others == {p \in Transfers : Active(p) /\ req[p].zip.exp = r.zip.exp} IN
    /\ req[q].pc = "idle" /\ \A p \in Transfers : p < q => req[p].pc # "idle"
    /\ req' = [p \in Transfers |-> IF p = q THEN [r EXCEPT !.rival = others # {}]
                                  ELSE [req[p] EXCEPT !.rival = @ \/ p \in others]]

\* The bundle's experiment and its dataset rows, under the names they get here.
Final(q, d) == IF d \in req[q].renamed THEN <<d, q>> ELSE d
FinalNames(q) == {Final(q, d) : d \in req[q].zip.datasets}

-----------------------------------------------------------------------------
(* import_experiment_bundle and async_apply_bundle *)

\* The upload is streamed into tmp; the finally clause removes it.
Receive(q, b, policy) ==
    /\ Arrive(q, [Idle EXCEPT !.pc = "check", !.op = "import", !.policy = policy, !.zip = b])
    /\ tmp' = tmp \cup {q}
    /\ UNCHANGED <<tables, artifacts, trees, zips, kills>>

EndImport(q, outcome) ==
    /\ Goto(q, outcome)
    /\ tmp' = tmp \ {q}

\* Mutant: reject does not look at whether the id is taken.
CheckConflictNever(q) ==
    /\ req[q].pc = "check"
    /\ req' = [req EXCEPT ![q].target = req[q].zip.exp, ![q].pc = "extract"]
    /\ UNCHANGED <<tables, disk, kills>>

\* The conflict policy against get_experiment.
CheckConflict(q) ==
    LET r == req[q]
        taken == r.zip.exp \in exps
        to(t, pc) == /\ req' = [req EXCEPT ![q].target = t, ![q].pc = pc]
                     /\ UNCHANGED tmp
    IN
    /\ r.pc = "check"
    /\ \/ r.policy = "reject" /\ taken /\ EndImport(q, "failed")
       \/ r.policy = "merge" /\ ~taken /\ EndImport(q, "failed")
       \/ r.policy = "merge" /\ taken /\ to(r.zip.exp, "compare")
       \/ r.policy = "rename" /\ taken /\ to(<<r.zip.exp, q>>, "extract")
       \/ r.policy # "merge" /\ ~taken /\ to(r.zip.exp, "extract")
    /\ UNCHANGED <<tables, artifacts, trees, zips, kills>>

\* merge: the runs of the bundle must be new to the experiment.
CompareRuns(q) ==
    LET r == req[q] IN
    /\ r.pc = "compare"
    /\ IF \E x \in r.zip.runs : runs[x] = r.target
       THEN EndImport(q, "failed")
       ELSE Goto(q, "extract") /\ UNCHANGED tmp
    /\ UNCHANGED <<tables, artifacts, trees, zips, kills>>

\* Mutant: a failed import leaves what it extracted.
CleanUpNot(q) == UNCHANGED <<outputs, dirs>>

\* What a clean-up takes away: the whole directory of the experiment.
CleanUp(q) ==
    /\ outputs' = [outputs EXCEPT ![req[q].target] = {}]
    /\ dirs' = dirs \ {req[q].target}

\* Results go under the target, configurations lose their upload token on the way.
Bring(q, files, cs) ==
    /\ outputs' = [outputs EXCEPT ![req[q].target] = @ \cup files]
    /\ dirs' = dirs \cup (IF files = {} THEN {} ELSE {req[q].target})
    /\ configs' = [x \in Runs |-> IF x \in cs THEN "bare" ELSE configs[x]]

\* _extract_bundle_files: all files of the bundle, or an exception and a clean-up,
\* which leaves the configurations that were written.
Extract(q) ==
    LET r == req[q] IN
    /\ r.pc = "extract"
    /\ \/ /\ Bring(q, r.zip.files, r.zip.configs)
          /\ Goto(q, IF r.zip.datasets # {} THEN "datasets" ELSE "labels")
          /\ UNCHANGED tmp
       \/ /\ CleanUp(q)
          /\ \E cs \in SUBSET r.zip.configs :
                configs' = [x \in Runs |-> IF x \in cs THEN "bare" ELSE configs[x]]
          /\ EndImport(q, "failed")
    /\ UNCHANGED <<tables, trees, zips, kills>>

\* import_datasets, one transaction; base_dataset follows a rename in the batch.
BaseIn(q, d) == IF BaseOf[d] \in req[q].zip.datasets THEN Final(q, BaseOf[d]) ELSE BaseOf[d]
Known(n) == n = NoRow \/ n \in datasets

ImportDatasets(q) ==
    LET r == req[q]
        collide == r.zip.datasets \cap datasets
        renamed == IF r.policy = "rename" THEN collide ELSE {}
        final(d) == IF d \in renamed THEN <<d, q>> ELSE d
        names == {final(d) : d \in r.zip.datasets}
    IN
    /\ r.pc = "datasets"
    /\ \/ /\ r.policy = "reject"      \* on any exception; what was extracted stays
          /\ EndImport(q, "failed")
          /\ UNCHANGED datasets
       \/ /\ r.policy # "reject" \/ collide = {}
          /\ \A d \in r.zip.datasets : BaseOf[d] \in r.zip.datasets \/ Known(BaseOf[d])
          /\ datasets' = datasets \cup names
          /\ req' = [req EXCEPT ![q].pc = "materialize", ![q].renamed = renamed,
                                ![q].left = names]
          /\ UNCHANGED tmp
       \/ /\ r.policy # "reject"     \* any failure of the transaction is a warning
          /\ Goto(q, "labels")
          /\ UNCHANGED <<datasets, tmp>>
    /\ UNCHANGED <<exps, runs, labels, findings, artifacts, trees, zips, kills>>

\* One dataset whose repository is absent: built with its base, or a warning.
Rehydrate(q) ==
    /\ req[q].pc = "materialize"
    /\ \/ /\ req[q].left \subseteq trees
          /\ req' = [req EXCEPT ![q].pc = "labels", ![q].left = {}]
          /\ UNCHANGED trees
       \/ \E d \in req[q].zip.datasets :
             LET n == Final(q, d) IN
             /\ n \in req[q].left \ trees
             /\ req' = [req EXCEPT ![q].left = @ \ {n}]
             /\ \/ trees' = trees \cup ({n, BaseIn(q, d)} \cap datasets)
                \/ UNCHANGED trees
    /\ UNCHANGED <<tables, artifacts, zips, tmp, kills>>

\* append_dataset_labels: INSERT OR IGNORE on the label's id; a name without a
\* row fails the transaction, which is a warning. Negative labels likewise.
AppendLabels(q) ==
    LET r == req[q] IN
    /\ r.pc = "labels"
    /\ labels' = IF \A d \in r.zip.labels : Final(q, d) \in datasets
                 THEN [d \in Datasets |-> IF d \in r.zip.labels /\ labels[d] = NoRow
                                          THEN Final(q, d) ELSE labels[d]]
                 ELSE labels
    /\ Goto(q, "rows")
    /\ UNCHANGED <<exps, runs, datasets, findings, disk, kills>>

\* import_experiment_rows, one transaction over two primary keys. A failure of
\* any kind removes the experiment's directory.
ImportRows(q) ==
    LET r == req[q]
        fresh == /\ r.policy = "merge" \/ r.target \notin exps
                 /\ \A x \in r.zip.runs : runs[x] = NoRow
    IN
    /\ r.pc = "rows"
    /\ \/ /\ fresh
          /\ exps' = IF r.policy = "merge" THEN exps ELSE exps \cup {r.target}
          /\ runs' = [x \in Runs |-> IF x \in r.zip.runs THEN r.target ELSE runs[x]]
          /\ req' = [req EXCEPT ![q].pc = "index", ![q].left = outputs[r.target]]
          /\ UNCHANGED <<outputs, dirs, tmp>>
       \/ /\ CleanUp(q)
          /\ EndImport(q, "failed")
          /\ UNCHANGED <<exps, runs>>
    /\ UNCHANGED <<datasets, labels, findings, configs, trees, zips, kills>>

\* The findings of every run directory of the experiment; a file that is gone
\* or does not parse is logged.
IndexRun(q) ==
    LET r == req[q] IN
    /\ r.pc = "index"
    /\ \/ r.left = {} /\ EndImport(q, "ok") /\ UNCHANGED findings
       \/ \E x \in r.left :
             /\ req' = [req EXCEPT ![q].left = @ \ {x}]
             /\ \/ x \in outputs[r.target] /\ findings' = [findings EXCEPT ![x] = r.target]
                \/ UNCHANGED findings
             /\ UNCHANGED tmp
    /\ UNCHANGED <<exps, runs, datasets, labels, artifacts, trees, zips, kills>>

-----------------------------------------------------------------------------
(* export_experiment_bundle and async_write_bundle *)

\* The directory is made before anything is looked up.
ExportStart(q, e) ==
    /\ Arrive(q, [Idle EXCEPT !.pc = "row", !.op = "export", !.zip.exp = e])
    /\ dirs' = dirs \cup {e}
    /\ UNCHANGED <<tables, outputs, configs, trees, zips, tmp, kills>>

\* get_experiment: no row is a ValueError.
ExportRow(q) ==
    /\ req[q].pc = "row"
    /\ Goto(q, IF req[q].zip.exp \in exps THEN "runs" ELSE "failed")
    /\ UNCHANGED <<tables, disk, kills>>

\* list_runs; descriptor mode walks from the datasets of the experiment and its runs.
ExportRuns(q) ==
    LET e == req[q].zip.exp IN
    /\ req[q].pc = "runs"
    /\ \E mode \in {"descriptor", "reference"} :
          req' = [req EXCEPT ![q].zip.runs = {x \in Runs : runs[x] = e},
                             ![q].left = IF mode = "descriptor" THEN {DatasetOf[e]} ELSE {},
                             ![q].pc = IF mode = "descriptor" THEN "collect" ELSE "write"]
    /\ UNCHANGED <<tables, disk, kills>>

\* Mutant: the base is not collected.
NoBase(q, d) == {}

\* The base of a dataset, unless it is collected.
BaseToo(q, d) == {BaseOf[d]} \ (req[q].zip.datasets \cup {d, NoRow})

\* _collect_dataset_rows, one get_dataset: a name without a row ends the walk there.
CollectDataset(q) ==
    /\ req[q].pc = "collect"
    /\ \/ /\ req[q].left = {}
          /\ req' = [req EXCEPT ![q].left = req[q].zip.datasets, ![q].pc = "read"]
       \/ \E d \in req[q].left \cap datasets :
             req' = [req EXCEPT ![q].left = (@ \ {d}) \cup BaseToo(q, d),
                                ![q].zip.datasets = @ \cup {d}]
       \/ \E d \in req[q].left \ datasets : req' = [req EXCEPT ![q].left = @ \ {d}]
    /\ UNCHANGED <<tables, disk, kills>>

\* The labels of one collected dataset, negative ones likewise.
ReadLabels(q) ==
    /\ req[q].pc = "read"
    /\ \/ req[q].left = {} /\ Goto(q, "write")
       \/ \E d \in req[q].left :
             req' = [req EXCEPT ![q].left = @ \ {d},
                                ![q].zip.labels = @ \cup {x \in {d} : labels[x] = x}]
    /\ UNCHANGED <<tables, disk, kills>>

\* _write_bundle_from_rows with the files as they are now; the zip goes into the
\* experiment's directory, which is made if it is not there.
WriteBundle(q) ==
    LET b == req[q].zip IN
    /\ req[q].pc = "write"
    /\ zips' = zips \cup {[b EXCEPT !.files = b.runs \cap outputs[b.exp],
                                    !.configs = {x \in b.runs : configs[x] # "none"}]}
    /\ dirs' = dirs \cup {b.exp}
    /\ Goto(q, "ok")
    /\ UNCHANGED <<tables, outputs, configs, trees, tmp, kills>>

-----------------------------------------------------------------------------
(* What else happens to experiments *)

\* A worker of a local run delivers its result.
Publish(x) ==
    LET e == runs[x] IN
    /\ e \in Exps /\ x \in Local[e] \ outputs[e]
    /\ outputs' = [outputs EXCEPT ![e] = @ \cup {x}]
    /\ dirs' = dirs \cup {e}
    /\ UNCHANGED <<tables, configs, trees, zips, tmp, req, kills>>

\* delete_experiment: the directory first, then the configurations of the runs
\* list_runs returns, then the rows.
Delete(q, e) ==
    /\ Arrive(q, [Idle EXCEPT !.pc = "purge", !.op = "delete", !.target = e, !.zip.exp = e])
    /\ outputs' = [outputs EXCEPT ![e] = {}]
    /\ dirs' = dirs \ {e}
    /\ UNCHANGED <<tables, configs, trees, zips, tmp, kills>>

PurgeConfigs(q) ==
    /\ req[q].pc = "purge"
    /\ configs' = [x \in Runs |-> IF runs[x] = req[q].target THEN "none" ELSE configs[x]]
    /\ Goto(q, "erase")
    /\ UNCHANGED <<tables, outputs, dirs, trees, zips, tmp, kills>>

PurgeRows(q) ==
    LET e == req[q].target IN
    /\ req[q].pc = "erase"
    /\ exps' = exps \ {e}
    /\ runs' = [x \in Runs |-> IF runs[x] = e THEN NoRow ELSE runs[x]]
    /\ findings' = [x \in Runs |-> IF findings[x] = e THEN NoRow ELSE findings[x]]
    /\ Goto(q, "ok")
    /\ UNCHANGED <<datasets, labels, disk, kills>>

\* The coordinator is killed, perhaps in the middle of an extraction: no request
\* goes on, and no except or finally clause runs.
Kill ==
    /\ kills < MaxKills
    /\ kills' = kills + 1
    /\ req' = [q \in Transfers |-> IF Active(q) THEN [req[q] EXCEPT !.pc = "failed"] ELSE req[q]]
    /\ \/ UNCHANGED artifacts
       \/ \E q \in {p \in Transfers : req[p].pc = "extract"} :
             \E files \in SUBSET req[q].zip.files, cs \in SUBSET req[q].zip.configs :
                Bring(q, files, cs)
    /\ UNCHANGED <<tables, trees, zips, tmp>>

BundleInit ==
    /\ exps = {e \in Exps : Local[e] # {}}
    /\ runs = [x \in Runs |-> IF \E e \in Exps : x \in Local[e]
                              THEN CHOOSE e \in Exps : x \in Local[e] ELSE NoRow]
    /\ outputs = [e \in ExpIds |-> {}] /\ dirs = {}
    /\ configs = [x \in Runs |-> IF \E e \in Exps : x \in Local[e] THEN "token" ELSE "none"]
    /\ datasets \in {ds \in SUBSET Datasets : Closed(ds)}
    /\ labels = [d \in Datasets |-> IF d \in datasets THEN d ELSE NoRow]
    /\ trees = {}
    /\ findings = [x \in Runs |-> NoRow]
    /\ zips = Foreign
    /\ tmp = {}
    /\ req = [q \in Transfers |-> Idle]
    /\ kills = 0

Import(q) == \/ CheckConflict(q) \/ CompareRuns(q) \/ Extract(q) \/ ImportDatasets(q)
             \/ Rehydrate(q) \/ AppendLabels(q) \/ ImportRows(q) \/ IndexRun(q)

Export(q) == ExportRow(q) \/ ExportRuns(q) \/ CollectDataset(q) \/ ReadLabels(q) \/ WriteBundle(q)

Purge(q) == PurgeConfigs(q) \/ PurgeRows(q)

User(q) == \/ \E b \in zips, policy \in Policies : Receive(q, b, policy)
           \/ \E e \in Exps : ExportStart(q, e) \/ Delete(q, e)

BundleNext ==
    \/ \E q \in Transfers : User(q) \/ Import(q) \/ Export(q) \/ Purge(q)
    \/ \E x \in Runs : Publish(x)
    \/ Kill

BundleSpec == BundleInit /\ [][BundleNext]_bundleVars

-----------------------------------------------------------------------------
(* Properties *)

\* Every variable keeps the shape the code gives it.
BundleTypeOK ==
    /\ exps \subseteq ExpIds
    /\ runs \in [Runs -> ExpIds \cup {NoRow}]
    /\ outputs \in [ExpIds -> SUBSET Runs] /\ dirs \subseteq ExpIds
    /\ configs \in [Runs -> {"none", "token", "bare"}]
    /\ datasets \subseteq Names /\ trees \subseteq Names
    /\ labels \in [Datasets -> Names \cup {NoRow}]
    /\ findings \in [Runs -> ExpIds \cup {NoRow}]
    /\ zips \subseteq Bundle
    /\ tmp \subseteq Transfers
    /\ req \in [Transfers -> Request]
    /\ kills \in Nat

\* The result of a run that has its row is lost only by a deletion, by a merge
\* into its experiment, or where two requests for one experiment overlapped: the
\* clean-up of async_apply_bundle removes the whole directory, and get_experiment
\* is what makes that directory its own.
ResultLostOnlyToRival ==
    [][\A e \in ExpIds : \A x \in outputs[e] \ outputs'[e] :
          runs[x] = e
          => \E q \in Transfers : /\ req'[q].target = e
                                  /\ \/ req'[q].op = "delete"
                                     \/ req'[q].policy = "merge"
                                     \/ req'[q].rival]_bundleVars

\* An import that answers with success while nothing else touched its experiment
\* has brought all rows and all files of the bundle.
ImportIsWhole ==
    [][\A q \in Transfers :
          LET r == req'[q] IN
          /\ r.op = "import" /\ r.pc = "ok" /\ req[q].pc # "ok" /\ ~r.rival
          => /\ r.target \in exps
             /\ \A x \in r.zip.runs : runs[x] = r.target
             /\ r.zip.files \subseteq outputs[r.target]]_bundleVars

\* An output directory that neither a row nor an import at work speaks for.
Unclaimed(e) ==
    /\ e \in dirs \ exps
    /\ \A q \in Transfers :
          req[q].target = e => req[q].pc \notin {"datasets", "materialize", "labels", "rows"}

\* Such a directory comes about only where an import in reject mode breaks off over
\* its datasets, an export is asked for an experiment that is not there, the
\* coordinator is killed, a result arrives for an experiment that is being deleted or
\* is gone, or another request for the experiment overlaps with an export, a merge or
\* a deletion. No other failure leaves one, not even beside other requests.
LeftoversExplained ==
    [][\A e \in ExpIds :
          Unclaimed(e)' /\ ~Unclaimed(e)
          => \/ kills' # kills
             \/ e \notin exps /\ \E x \in outputs'[e] \ outputs[e] : runs[x] = e
             \/ \E q \in Transfers :
                   /\ req'[q].pc # req[q].pc /\ req'[q].zip.exp = e
                   /\ \/ /\ req[q].pc = "datasets" /\ req'[q].pc = "failed"
                         /\ req[q].policy = "reject"
                      \/ req[q].pc = "idle" /\ req'[q].op = "export" /\ e \notin exps
                      \/ req[q].pc = "rows" /\ req[q].policy = "merge" /\ req[q].rival
                      \/ req[q].pc \in {"write", "erase"} /\ req[q].rival
                      \/ req[q].pc = "erase" /\ Local[e] \cap outputs[e] # {}]_bundleVars

\* Every bundle a user can hold carries the base of each of its datasets and the
\* datasets of its labels, also one written while imports ran.
BundlesAreClosed ==
    \A b \in zips : Closed(b.datasets) /\ b.labels \subseteq b.datasets

\* "N3: clean up partially-written experiment output dir on extraction failure"
\* (bundle.py:756): an import removes only what it brought.
CleanUpIsOwn ==
    [][\A e \in ExpIds : \A x \in outputs[e] \ outputs'[e] :
          \E q \in Transfers : /\ req'[q] # req[q]
                               /\ req[q].op # "import" \/ x \in req[q].zip.files]_bundleVars

=============================================================================
