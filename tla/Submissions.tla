---------------------------- MODULE Submissions ----------------------------
(***************************************************************************)
(* The front door of the coordinator: the requests that submit an          *)
(* experiment, start a smoke test, and create or delete a user strategy,   *)
(* over the tables they share. A handler is cut where it awaits the        *)
(* database; between two awaits the event loop runs nothing else.          *)
(***************************************************************************)
EXTENDS Naturals, Sequences, FiniteSets

CONSTANTS
    Builtin,       \* strategies of load_default_registry
    User,          \* user strategies; the content is part of the id
    SmokeStrategy, \* builtin.single_agent
    Models,
    DefaultModel,  \* of a strategy
    OverrideModels,\* those its overrides name
    Canonical,     \* LEGACY_ID_ALIASES, the identity elsewhere
    DefaultExts,   \* tool extensions of a strategy
    OverrideExts,  \* those its overrides add
    EnabledExts,   \* TOOL_EXT_*_AVAILABLE, for the coordinator and its pods
    Home,          \* the provider of a model: its id begins with the key
    Custom,        \* custom providers, without key and address
    Snapshots,     \* what the catalogue may say of all providers
    Files,         \* the files of a dataset that match its test_glob
    PerFile,       \* datasets with iteration "per-test-file"
    Foreign,       \* datasets of a language no allowlist names
    Slug,          \* _slug of a file
    Matrices,      \* what clients submit
    SmokeDataset,  \* the first registered dataset
    MaxSeconds,    \* bound: seconds that pass
    Requests,      \* requests, numbered as they arrive (a bound)
    MaxRestarts,   \* bound: restarts of the coordinator
    NoRow, Nothing

Strategies == Builtin \cup User
ASSUME ConstantsAssumption ==
    /\ SmokeStrategy \in Builtin /\ Builtin \cap User = {}
    /\ Requests \subseteq Nat /\ MaxSeconds \in Nat /\ MaxRestarts \in Nat

VARIABLES
    strategies,   \* the user_strategies table
    experiments,  \* the experiments table
    runs,         \* the runs table
    snap,         \* snapshots of the catalogue (ProviderCatalog)
    now,          \* seconds of the clock
    req,
    restarts,
    smokeRaced    \* history: two smoke requests overlapped

vars == <<strategies, experiments, runs, snap, now, req, restarts, smokeRaced>>

SmokeIds == {<<"smoke-test", t>> : t \in 0..MaxSeconds}
ExpIds == {m.id : m \in Matrices} \cup SmokeIds
Terminal == {"completed", "failed", "cancelled"}

\* One run per repetition; the builtin strategy, no check, no iteration.
SmokeMatrix(t) == [id |-> <<"smoke-test", t>>, strategies |-> <<SmokeStrategy>>, reps |-> 1,
                   dataset |-> SmokeDataset, verifier |-> {}, restricted |-> FALSE,
                   iterate |-> FALSE, unchecked |-> TRUE]
AnyMatrix == Matrices \cup {SmokeMatrix(t) : t \in 0..MaxSeconds}

\* An empty list of strategies would be an experiment without runs; it is left out.
ASSUME MatrixAssumption ==
    /\ \A m \in Matrices : /\ m.strategies \in Seq(Strategies) /\ m.strategies # <<>>
                          /\ m.verifier \subseteq Models
                          /\ m.id \notin SmokeIds
    /\ DefaultModel \in [Strategies -> Models]
    /\ OverrideModels \in [Strategies -> SUBSET Models]

\* "at" is the strategy the check reads next; asked, skipped and plan are its
\* locals, vetted is history.
Idle == [pc |-> "idle", op |-> "none", m |-> Nothing, s |-> Nothing, at |-> 1,
         asked |-> {}, skipped |-> {}, vetted |-> {}, plan |-> {}]
Done == [Idle EXCEPT !.pc = "done"]
InFlight(q) == req[q].pc \notin {"idle", "done"}

Accepts(q) == /\ req[q].pc = "idle"
              /\ \A p \in Requests : p < q => req[p].pc # "idle"
Set(q, r) == req' = [req EXCEPT ![q] = r]
Goto(q, pc) == req' = [req EXCEPT ![q].pc = pc]
End(q) == req' = [req EXCEPT ![q] = Done]

-----------------------------------------------------------------------------
(* Which models are available *)

Listing(p) == snap[p].status \in {"fresh", "stale"}

\* build_effective_registry: what usable snapshots list.
Registry == {x \in Models : Listing(Home[x]) /\ x \in snap[Home[x]].models}

\* _compute_model_status. A custom provider has neither key nor address, so its
\* listing is never looked at; a built-in one without a key is disabled.
ModelStatus(x) ==
    LET s == snap[Home[x]] IN
    CASE s.status = "disabled"  -> IF Home[x] \in Custom THEN "available" ELSE "key_missing"
      [] Home[x] \notin Custom /\ x \in s.models -> "available"
      [] s.status = "failed"    -> "probe_failed"
      [] OTHER                  -> "not_listed"

Offered == {x \in Registry : ModelStatus(x) = "available"}

\* validate_model_availability: nothing is refused while nothing is known.
Problems(ids) ==
    IF Registry = {} THEN {} ELSE {x \in {Canonical[y] : y \in ids} : x \notin Offered}
Acceptable == {y \in Models : Registry = {} \/ Canonical[y] \in Offered}

\* Mutant: the overrides of a strategy are forgotten.
DefaultOnly(s) == {DefaultModel[s]}

ModelsOf(s) == {DefaultModel[s]} \cup OverrideModels[s]

\* Mutant: the overrides of a strategy are forgotten.
DefaultExtsOnly(s) == DefaultExts[s]

\* expand and check_tool_extension_superset form the same union.
ExtsOf(s) == DefaultExts[s] \cup OverrideExts[s]

-----------------------------------------------------------------------------
(* POST /experiments *)

SubmitBegins(q, m) ==
    /\ Accepts(q)
    /\ Set(q, [Idle EXCEPT !.op = "submit", !.m = m, !.asked = m.verifier,
                           !.pc = IF m.unchecked THEN "preview" ELSE "models"])
    /\ UNCHANGED <<strategies, experiments, runs, snap, now, restarts, smokeRaced>>

\* model_ids_from_matrix reads one strategy at a time and passes over one it does
\* not find; the check follows the last read at once.
CollectModels(q) ==
    LET r == req[q]
        s == r.m.strategies[r.at]
        found == s \in strategies \cup Builtin
        asked == r.asked \cup (IF found THEN ModelsOf(s) ELSE {})
        last == r.at = Len(r.m.strategies)
        more == [r EXCEPT !.at = @ + 1, !.asked = asked,
                          !.skipped = IF found THEN @ ELSE @ \cup {s}]
    IN /\ r.pc = "models"
       /\ \/ ~last /\ Set(q, more)
          \/ last /\ Problems(asked) = {}
                  /\ Set(q, [more EXCEPT !.pc = "preview", !.vetted = Acceptable])
          \/ last /\ Problems(asked) # {} /\ End(q)          \* 400
       /\ UNCHANGED <<strategies, experiments, runs, snap, now, restarts, smokeRaced>>

\* build_registry_from_db, read by the list in one query.
Known(m) == {m.strategies[i] : i \in DOMAIN m.strategies} \subseteq strategies \cup Builtin

\* The preview and the extensions the operator has disabled, then the language.
Preview(q) ==
    LET m == req[q].m IN
    /\ req[q].pc = "preview"
    /\ \/ /\ Known(m)
          /\ \A i \in DOMAIN m.strategies : ExtsOf(m.strategies[i]) \subseteq EnabledExts
          /\ Goto(q, IF m.restricted THEN "language" ELSE "registry")
       \/ /\ ~Known(m) \/ \E i \in DOMAIN m.strategies : ~(ExtsOf(m.strategies[i]) \subseteq EnabledExts)
          /\ End(q)                                          \* KeyError, or 400
    /\ UNCHANGED <<strategies, experiments, runs, snap, now, restarts, smokeRaced>>

\* get_dataset. enrich_model_configs reads the strategies once more and its
\* answer is dropped.
Language(q) ==
    /\ req[q].pc = "language"
    /\ IF req[q].m.dataset \in Foreign THEN End(q) ELSE Goto(q, "registry")
    /\ UNCHANGED <<strategies, experiments, runs, snap, now, restarts, smokeRaced>>

-----------------------------------------------------------------------------
(* submit_experiment, for both endpoints *)

\* The registry is read again; expand raises KeyError for a strategy that is gone.
ReadRegistry(q) ==
    /\ req[q].pc = "registry"
    /\ IF Known(req[q].m) THEN Goto(q, "dataset") ELSE End(q)
    /\ UNCHANGED <<strategies, experiments, runs, snap, now, restarts, smokeRaced>>

\* A cell of the matrix: position in strategy_ids, repetition, and file if the
\* dataset is iterated. The order of the rows does not matter here.
Expansion(m) ==
    (DOMAIN m.strategies) \X (1..m.reps)
        \X (IF m.dataset \in PerFile THEN Files[m.dataset] ELSE {Nothing})

Iterable(m) == m.dataset \in PerFile => m.iterate /\ Files[m.dataset] # {}

\* _expand_benchmark_iteration: get_dataset, then a ValueError or the fan-out.
ReadDataset(q) ==
    LET r == req[q] IN
    /\ r.pc = "dataset"
    /\ IF Iterable(r.m) THEN Set(q, [r EXCEPT !.plan = Expansion(r.m), !.pc = "insert"])
                        ELSE End(q)
    /\ UNCHANGED <<strategies, experiments, runs, snap, now, restarts, smokeRaced>>

\* create_experiment; the primary key.
CreateExperiment(q) ==
    LET r == req[q] IN
    /\ r.pc = "insert"
    /\ \/ /\ experiments[r.m.id] = NoRow
          /\ experiments' = [experiments EXCEPT ![r.m.id] =
                 [status |-> "pending", m |-> r.m, by |-> q, answered |-> FALSE,
                  vetted |-> r.vetted, skipped |-> r.skipped,
                  late |-> {s \in User : \/ s \notin strategies
                                         \/ \E p \in Requests : req[p].pc = "remove" /\ req[p].s = s}]]
          /\ Goto(q, "runs")
       \/ /\ experiments[r.m.id] # NoRow
          /\ End(q)
          /\ UNCHANGED experiments
    /\ UNCHANGED <<strategies, runs, snap, now, restarts, smokeRaced>>

RunId(m, c) == <<m.id, m.strategies[c[1]], c[2], IF c[3] = Nothing THEN Nothing ELSE Slug[c[3]]>>
RunRow(m, c) == [id |-> RunId(m, c), file |-> c[3]]

\* Mutant: a row whose id is taken is passed over.
Ignoring(q, c) ==
    LET r == req[q] IN
    /\ runs' = IF RunId(r.m, c) \in {x.id : x \in runs} THEN runs ELSE runs \cup {RunRow(r.m, c)}
    /\ Set(q, [r EXCEPT !.plan = @ \ {c}])

\* create_run. Two files may share a slug and a strategy may be named twice: the
\* primary key ends the request, and the rows written so far stay.
InsertRun(q, c) ==
    LET r == req[q] IN
    \/ /\ RunId(r.m, c) \notin {x.id : x \in runs}
       /\ runs' = runs \cup {RunRow(r.m, c)}
       /\ Set(q, [r EXCEPT !.plan = @ \ {c}])
    \/ /\ RunId(r.m, c) \in {x.id : x \in runs}
       /\ End(q)
       /\ UNCHANGED runs

CreateRun(q) ==
    /\ req[q].pc = "runs"
    /\ \E c \in req[q].plan : InsertRun(q, c)
    /\ UNCHANGED <<strategies, experiments, snap, now, restarts, smokeRaced>>

\* Configurations, the scheduler thread, and 201.
Answer(q) ==
    LET r == req[q] IN
    /\ r.pc = "runs" /\ r.plan = {}
    /\ experiments' = [experiments EXCEPT ![r.m.id] =
           IF @ # NoRow /\ @.by = q THEN [@ EXCEPT !.answered = TRUE] ELSE @]
    /\ End(q)
    /\ UNCHANGED <<strategies, runs, snap, now, restarts, smokeRaced>>

-----------------------------------------------------------------------------
(* POST /smoke-test *)

\* list_models must not be empty; then list_datasets.
SmokeBegins(q) ==
    /\ Accepts(q) /\ Registry # {}
    /\ Set(q, [Idle EXCEPT !.op = "smoke", !.pc = "smoke"])
    /\ smokeRaced' = (smokeRaced \/ \E p \in Requests : req[p].op = "smoke" /\ InFlight(p))
    /\ UNCHANGED <<strategies, experiments, runs, snap, now, restarts>>

\* The id is the second; list_experiments follows.
SmokeNamed(q) ==
    /\ req[q].pc = "smoke"
    /\ Set(q, [req[q] EXCEPT !.m = SmokeMatrix(now), !.pc = "look"])
    /\ UNCHANGED <<strategies, experiments, runs, snap, now, restarts, smokeRaced>>

Live(e) == experiments[e] # NoRow /\ experiments[e].status \notin Terminal

\* Mutant: only a running smoke test counts.
SmokeRunning == \E e \in SmokeIds : experiments[e] # NoRow /\ experiments[e].status = "running"

SmokeAlready == \E e \in SmokeIds : Live(e)

LookForSmoke(q) ==
    /\ req[q].pc = "look"
    /\ IF SmokeAlready THEN End(q) ELSE Goto(q, "registry")
    /\ UNCHANGED <<strategies, experiments, runs, snap, now, restarts, smokeRaced>>

-----------------------------------------------------------------------------
(* POST and DELETE /strategies *)

\* get_user_strategy: 409, or the insert; a second insert breaks the primary key.
CreateBegins(q, s) ==
    /\ Accepts(q)
    /\ Set(q, IF s \in strategies THEN Done ELSE [Idle EXCEPT !.op = "create", !.s = s, !.pc = "add"])
    /\ UNCHANGED <<strategies, experiments, runs, snap, now, restarts, smokeRaced>>

AddStrategy(q) ==
    /\ req[q].pc = "add"
    /\ strategies' = strategies \cup {req[q].s}
    /\ End(q)
    /\ UNCHANGED <<experiments, runs, snap, now, restarts, smokeRaced>>

\* get_user_strategy: 404 for an unknown one, 403 for a builtin.
DeleteBegins(q, s) ==
    /\ Accepts(q) /\ s \in strategies
    /\ Set(q, [Idle EXCEPT !.op = "delete", !.s = s, !.pc = "references"])
    /\ UNCHANGED <<strategies, experiments, runs, snap, now, restarts, smokeRaced>>

\* Mutant: experiments that ended do not count.
ReferencedByLive(s) ==
    \E e \in ExpIds : Live(e) /\ \E i \in DOMAIN experiments[e].m.strategies :
                                     experiments[e].m.strategies[i] = s

\* strategy_is_referenced_by_runs looks at the configurations of experiments.
Referenced(s) ==
    \E e \in ExpIds : /\ experiments[e] # NoRow
                      /\ \E i \in DOMAIN experiments[e].m.strategies :
                             experiments[e].m.strategies[i] = s

LookForReferences(q) ==
    /\ req[q].pc = "references"
    /\ IF Referenced(req[q].s) THEN End(q) ELSE Goto(q, "remove")
    /\ UNCHANGED <<strategies, experiments, runs, snap, now, restarts, smokeRaced>>

RemoveStrategy(q) ==
    /\ req[q].pc = "remove"
    /\ strategies' = strategies \ {req[q].s}
    /\ End(q)
    /\ UNCHANGED <<experiments, runs, snap, now, restarts, smokeRaced>>

-----------------------------------------------------------------------------
(* The surroundings *)

\* The scheduler and the reconcile loop (ExperimentLifecycle); the ways to end
\* are alike here.
Progress(e) ==
    /\ Live(e)
    /\ \E s \in {"running", "completed"} :
          /\ s # experiments[e].status
          /\ experiments' = [experiments EXCEPT ![e].status = s]
    /\ UNCHANGED <<strategies, runs, snap, now, req, restarts, smokeRaced>>

\* delete_experiment: both tables in one transaction.
DeleteExperiment(e) ==
    /\ experiments[e] # NoRow
    /\ experiments' = [experiments EXCEPT ![e] = NoRow]
    /\ runs' = {x \in runs : x.id[1] # e}
    /\ UNCHANGED <<strategies, snap, now, req, restarts, smokeRaced>>

CatalogMoves ==
    /\ snap' \in Snapshots \ {snap}
    /\ UNCHANGED <<strategies, experiments, runs, now, req, restarts, smokeRaced>>

Tick ==
    /\ now < MaxSeconds
    /\ now' = now + 1
    /\ UNCHANGED <<strategies, experiments, runs, snap, req, restarts, smokeRaced>>

\* Requests under way are lost; the tables stay. The builtin strategies are
\* looked for in the table and inserted, and nothing can have removed one.
Restart ==
    /\ restarts < MaxRestarts
    /\ restarts' = restarts + 1
    /\ req' = [q \in Requests |-> IF req[q].pc = "idle" THEN Idle ELSE Done]
    /\ UNCHANGED <<strategies, experiments, runs, snap, now, smokeRaced>>

Init ==
    /\ strategies \in SUBSET User
    /\ experiments = [e \in ExpIds |-> NoRow]
    /\ runs = {}
    /\ snap \in Snapshots
    /\ now = 0
    /\ req = [q \in Requests |-> Idle]
    /\ restarts = 0
    /\ smokeRaced = FALSE

Arrive(q) == \/ \E m \in Matrices : SubmitBegins(q, m)
             \/ SmokeBegins(q)
             \/ \E s \in User : CreateBegins(q, s) \/ DeleteBegins(q, s)

Handle(q) == \/ CollectModels(q) \/ Preview(q) \/ Language(q)
             \/ ReadRegistry(q) \/ ReadDataset(q) \/ CreateExperiment(q)
             \/ CreateRun(q) \/ Answer(q)
             \/ SmokeNamed(q) \/ LookForSmoke(q)
             \/ AddStrategy(q) \/ LookForReferences(q) \/ RemoveStrategy(q)

Around == \/ \E e \in ExpIds : Progress(e) \/ DeleteExperiment(e)
          \/ CatalogMoves \/ Tick \/ Restart

Next == Around \/ \E q \in Requests : Arrive(q) \/ Handle(q)

Spec == Init /\ [][Next]_vars

-----------------------------------------------------------------------------
(* Properties *)

Cells == UNION {Expansion(m) : m \in AnyMatrix}
RunRows == UNION {{RunRow(m, c) : c \in Expansion(m)} : m \in AnyMatrix}
Stored == [status : Terminal \cup {"pending", "running"}, m : AnyMatrix, by : Requests,
           answered : BOOLEAN, vetted : SUBSET Models, skipped : SUBSET Strategies,
           late : SUBSET User]
HasMatrix == {"models", "preview", "language", "registry", "dataset", "insert", "runs", "look"}
HasStrategy == {"add", "references", "remove"}
Request == [pc : {"idle", "done", "smoke"} \cup HasMatrix \cup HasStrategy,
            op : {"none", "submit", "smoke", "create", "delete"},
            m : AnyMatrix \cup {Nothing}, s : User \cup {Nothing}, at : Nat,
            asked : SUBSET Models, skipped : SUBSET Strategies, vetted : SUBSET Models,
            plan : SUBSET Cells]

ASSUME NullAssumption == NoRow \notin Stored

\* Each step of a request finds what it reads.
Placed(r) == /\ r.pc \in HasMatrix => r.m \in AnyMatrix
             /\ r.pc = "models" => r.m \in Matrices /\ r.at \in DOMAIN r.m.strategies
             /\ r.pc \in {"insert", "runs"} => r.plan \subseteq Expansion(r.m)
             /\ r.pc \in HasStrategy => r.s \in User

\* Every variable keeps the shape the code gives it.
TypeOK ==
    /\ strategies \subseteq User
    /\ experiments \in [ExpIds -> Stored \cup {NoRow}]
    /\ runs \subseteq RunRows
    /\ snap \in Snapshots
    /\ now \in 0..MaxSeconds /\ restarts \in 0..MaxRestarts /\ smokeRaced \in BOOLEAN
    /\ req \in [Requests -> Request]
    /\ \A q \in Requests : Placed(req[q])

Named(e) == {experiments[e].m.strategies[i] : i \in DOMAIN experiments[e].m.strategies}

\* A strategy a stored experiment names has its row, unless its deletion was past
\* its check, or done, when the experiment was written (delete_strategy answers
\* 409 for a strategy that is referenced).
StrategiesStay ==
    \A e \in ExpIds : experiments[e] # NoRow =>
        Named(e) \subseteq strategies \cup Builtin \cup experiments[e].late

\* At most one smoke test is under way, unless two requests for one overlapped
\* (run_smoke_test answers 409 when one is already running).
OneSmokeTest == smokeRaced \/ Cardinality({e \in SmokeIds : Live(e)}) <= 1

\* Every cell of the matrix has a row of its own, for its own file.
Whole(e) == \A c \in Expansion(experiments[e].m) : RunRow(experiments[e].m, c) \in runs

\* Each model of each strategy could be had when it was checked, unless the
\* client waived the check or the strategy did not exist yet; and a pod will
\* not refuse to start for want of an extension.
Gated(e) ==
    \/ e \in SmokeIds
    \/ \A s \in Named(e) :
          /\ \/ experiments[e].m.unchecked
             \/ s \in experiments[e].skipped
             \/ {DefaultModel[s]} \cup OverrideModels[s] \subseteq experiments[e].vetted
          /\ DefaultExts[s] \cup OverrideExts[s] \subseteq EnabledExts

\* An experiment that was answered with 201 has all of its runs and passed every
\* gate, whatever was created, deleted or probed meanwhile.
AnsweredInFull ==
    \A e \in ExpIds : experiments[e] # NoRow /\ experiments[e].answered => Whole(e) /\ Gated(e)
=============================================================================
