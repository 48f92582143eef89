# Formal models of the security-review framework

This directory holds TLA+ models of the framework's coordinator, workers, datasets and tool servers, the TLC
configurations that check them on small instances, and TLAPS proofs of what matters most for every size.
`PROJECT.json` lists components, runs, mutants, the source lines behind each definition, findings, hazards and
theorems. Paths below are relative to `src/src/sec_review_framework/`.

## The system

The coordinator (`coordinator.py`, FastAPI, one asyncio loop, one SQLite database through `db.py`) expands
an experiment matrix into runs and creates one Kubernetes Job per run. A worker pod (`worker.py`) reviews a
code base with a language model, compares its findings with labels, and delivers `run_result.json` and other artifacts, on a
shared volume or by an HTTP upload. A reconcile loop ingests results and closes experiments. Beside it the coordinator keeps a
catalogue of models, user strategies, ground-truth datasets and bundles of experiments.

| Component | State | Operations | What makes it correct |
|---|---|---|---|
| Orchestration (`coordinator.py`) | rows of experiments and runs, run configurations, Jobs, the scheduler thread's list and counters, cost trackers | submit, schedule, reconcile, cancel, delete, restart | a run is shown completed only for a published result; a result is charged once; one report per experiment; an experiment at its cap is not completed; every experiment ends |
| Submission endpoints (`coordinator.py` 2848-2980, 3576-3720, 4187-4334, `data/experiment.py`, `models/availability.py`) | strategies table, experiments and runs | submit, smoke test, create and delete a strategy | what is answered is complete and was checked; strategies in use stay; one smoke test at a time |
| Upload (`coordinator.py` 735-1010, `worker.py` 478-553, `db.py` 1193-1299) | token row, staging directories, final directory | consume, stage, stream, rename; retry; sweep | single use; no directory leaks; a result is lost only to a fault |
| Worker run (`worker.py`) | pod, local artifacts | review, verify, evaluate, publish, exit | exits 0 only if the result is delivered |
| Database (`db.py`) | tables | one transaction per await | atomic statements; deletes in foreign-key order |
| Catalogue and providers (`models/catalog.py`, `models/probes/`, `llm_providers.py`) | snapshots per provider, provider rows | refresh, create, patch, delete, probe, load at start-up | the catalogue says what the table says; no listing outlives its limit; a status is that of the latest configuration |
| Subagents (`agent/subagent.py`, `strategies/runner.py`, `strategies/common.py`) | invocation counter, call logs, children, fallback pool, provider cache | invoke, batch, validate, re-prompt, fall back | caps hold; no input is left out or run twice; what children spend is collected |
| Bundles (`bundle.py`) | rows, output directories, labels | export, import with a conflict policy | an import is whole; a bundle is closed; nothing else is lost |
| Datasets (`ground_truth/cve_importer.py`, `vuln_injector.py`, `archive_materializer.py`, `coordinator.py` 1906-2165) | two trees per dataset, rows, labels | import a CVE, inject, materialise | labels speak of code that is there, and of one CVE per dataset; a recipe is replayed once |
| Benchmark importers (`ground_truth/*_importer.py`, `_source_check_migration.py`) | label tables and their CHECK constraints, diff cache | import, migrate, repeat | no label is lost; "complete" means stored |
| Deduplication, verification, evaluation (`strategies/common.py`, `verification/`, `evaluation/`) | of one run | cluster, verify, match, score | clusters are apart; the matching is a best one; both scores agree |
| LSP tools (`tools/mcp_bridge.py`, `tools/extensions/lsp_server.py`) | sessions, pending futures, reader threads, processes | start, call, time out, shut down | one live session per language; every call is answered; no process is forgotten |
| Other tool servers, feedback, reports, pricing, frontend | none shared | | |

How they interact: `submit_experiment` passes its gates, writes rows, then run configurations (with an upload token for HTTP
transport), then starts a *thread* that creates Jobs under per-model caps and marks rows running. The
*reconcile task* ticks on the event loop: it dispatches pending rows for which it finds no Job, closes
experiments without pending or running rows, scans running rows for results, books their cost, may cancel
the experiment, and closes it. *Requests* run on the same event loop and interleave at every await.
*Kubernetes* starts, retries, evicts and times out pods on its own. The thread shares nothing with the loop
but the database, the volume and the Kubernetes API. A restart of the coordinator loses the thread, the catalogue and the
cost trackers and keeps rows, files and Jobs. Inside a worker, `run_strategy` runs a supervisor model whose
tools start child agents on the supervisor's event loop; when it missed inputs, a pool of threads runs the missing ones.
Tool calls leave for a multiplexer process with an event loop of its own, reader threads, and one language server per language.
Importers are scripts over the same database.

What is hard: those actors act on the same rows with no lock and no version; nearly every handler reads,
awaits and writes; files and rows change at different awaits; the scheduler works from a list that is never refreshed; Kubernetes reports
late; clean-ups remove whole directories. The `hazards` of `PROJECT.json` name each place by line.

## Modules

### UploadCommit — the HTTP result transport of one run

| Model | Code |
|---|---|
| `token` | the `run_upload_tokens` row: none, issued, consumed |
| `staging`, `final` | `.staging-<run>-<uuid>` directories, `outputs/<experiment>/<run>` (which request's upload it holds) |
| `handler[q]`, `reply[q]` | where the handler of request `q` is, one value per await, and what it answered |
| `worker[w]`, `attempt[w]` | a replica's place in `_upload_artifacts` and its loop variable |
| `deleter` | `delete_experiment`, after its `cancel_experiment` |
| `authorised` | history: requests for which `consume_upload_token` was true |

Actions: `ConsumeSelect`/`ConsumeUpdate` are the two statements of `consume_upload_token`; `LookupRun`,
`OpenStaging`, `RejectBody`, `CommitResult` the rest of the handler; `FinishReview`, `Post`, `ReceiveReply`,
`TransportError`, `PodLost` the worker; `RevokeTokens`, `RemoveOutputs`, `DeleteRows`, `ScrubStaging`,
`Restart` everything else that touches the same state. The bytes of an upload are the request's identity.

### ExperimentLifecycle — one experiment in the coordinator

| Model | Code |
|---|---|
| `expStatus`, `runStatus`, `costed`, `spent`, `token`, `indexed` | rows of experiments, runs (with `estimated_cost_usd`), `spent_usd`, tokens, findings |
| `config`, `result` | `config/runs/<run>.json`, `outputs/.../run_result.json`: absent, torn or complete |
| `job`, `pod`, `orphan` | the run's Job (`retrying`: its first pod failed), its pod, a pod that outlived a deleted Job |
| `subPc`, `subNext` | `submit_experiment` |
| `schPc`, `schRun`, `schPending`, `schVisit`, `slots`, `tries` | `_schedule_jobs`: `pending`, the rest of this pass, `running_by_model`, `attempt_counts` |
| `recPc`, `recTodo`, `recPrior`, `recRun` | `_reconcile_once`: the list it read, which rows had a cost in it, the run at hand |
| `canPc`, `canTodo` | `cancel_experiment`, once per caller: a request, and the loop itself |
| `usrPc` | the request in progress |
| `tracker`, `tripped` | `ExperimentCostTracker` |
| `published`, `finalized`, `unbilled`, `unindexed`, `capLost` | history: outcomes published, reports, failed bookings, failed upserts, a cancellation that went with a failing call |

A step runs from one await to the next and includes the database call it ends with; calls to the Kubernetes
API are synchronous and belong to the step around them. Reads of a token just before a Job is created again are
one step with the creation. The Kubernetes actions come from how the code sets Jobs up (`backoff_limit=1`,
`active_deadline_seconds`) and reads their status. The reconciliation at start-up is a tick like any other.
`Fault` counts failing API and database calls, failing and lost pods, deadlines and broken uploads. Each `except` branch is an
action of its own: `ScheduleRunFails` and `MarkRunningFails` (with the failing update inside `AttemptFailed`), `IndexFails`, `ChargeFails`, and `ReconcileBreaks`,
`ScanBreaks`, `CancelBreaks`, `DeleteBreaks` for a database call that ends the rest of its handler.
`EarlyTicks = FALSE` is an assumption on the environment, not on the code: the dispatch of a submission fits
between two ticks.

### ExperimentBoard — what the experiments page promises

Rows only move forward; the experiment ends once, after all its rows; a run is billed at most once, after it
ended and before the experiment did; an open experiment goes on until it is closed. `ExperimentLifecycle`
implements it by `rows <- runStatus`, `status <- expStatus`, `bill <- spent` when it is left alone (run
`lifecycle_quiet`).

### StrategyRun — one run_strategy with subagents

| Model | Code |
|---|---|
| `mode` | `dispatch_fallback` of the strategy |
| `phase` | first `run_sync`, re-prompt, programmatic fallback, returned, raised |
| `invocations`, `singleLog`, `batchLog` | `SubagentDeps`; the logs as the set of match keys in them (the validator ignores the roles) |
| `children` | calls of `_run_child`, in order |
| `fallback[x]`, `provider[x]` | `_invoke_one` of the missing input `x`, and the provider its child got |
| `cache` | `ModelProviderCache`, per model: who created the provider in it |
| `completeness` | `dispatch_completeness` times the number of inputs; `Unmeasured` is None |

A tool call is atomic up to its first await (`InvokeSubagent`, `InvokeSubagentBatch`, `RefusedCall`); its children end later,
one by one (`ChildEnds`), and calls of one response overlap. The supervisor model is free: it calls any role with
any keys, answers when it likes once its calls are over, and may raise. A role outside `Seeded` is listed by
the strategy and missing in the registry. In the pool, `ModelProviderCache.get` is three steps, since threads
share it without a lock: the lookup (`WorkerTakes`), the store (`StoreProvider`), the read (`ReadProvider`).
The findings themselves, prompts and tools are left out. Children get tools without dispatch, so `depth` is
the supervisor's 0. A strategy's inputs are distinct (vulnerability classes, file paths).

### Submissions — the front door

| Model | Code |
|---|---|
| `strategies`, `experiments`, `runs` | the three tables; an experiment row remembers its matrix `m` and the request that wrote it; `late` and `answered` are history |
| `snap` | the catalogue's snapshots; what they may say is a constant, `ProviderCatalog` is where it comes from |
| `now` | the clock in seconds, which names smoke tests |
| `req[q]` | the handler of request `q`: its place (`pc`), matrix, collected models, registry read, cells left to write |

Submission: `SubmitBegins`, `CollectModels` (with the availability check), `Preview` (disabled extensions),
`Language`, `ReadRegistry`, `ReadDataset`, `CreateExperiment`, `CreateRun` per cell, `Answer`; the smoke test
`SmokeBegins`, `SmokeNamed`, `LookForSmoke`, and then the steps of a submission; `CreateBegins`,
`AddStrategy`; `DeleteBegins`, `LookForReferences`, `RemoveStrategy`. Around them experiments run and end (`Progress`),
are deleted, the catalogue moves, seconds pass, and the coordinator restarts. The pure parts are operators: `Listing`, `Registry`, `ModelStatus`, `Problems`
(availability), `Expansion` (matrix and per-file iteration), `RunId` (the slug).
A strategy's content is its id; a matrix names at least one strategy; client ids are not those of smoke tests.

### ProviderCatalog — models on offer

| Model | Code |
|---|---|
| `snap[p]` | `ProviderCatalog._snapshots`: status, models, age in refresh intervals |
| `phase`, `got` | `_refresh_loop`: sleeping, single probes, shared probes; answers gathered and not yet written |
| `serving` | lifespan: first round of probes, load of custom providers, requests |
| `rows`, `about` | `llm_providers`; history: which configuration a status speaks of |
| `req[q]` | create, patch, delete, probe: row read, row merged, place |
| `raced`, `mixed` | history: names with overlapping (or interrupted) requests |

`ByPrior` is the fallback of `_safe_probe` on the last listing. A handler is cut at the database and at the probe:
`Create`/`Fetch`, `Probe`, `Update`, `AfterProbe`, `Delete`, `Forget`, `ReadBack`, `Inject`. Addresses, keys and wording
are one value, the configuration.

### DatasetStore — trees, rows and labels

| Model | Code |
|---|---|
| `rows`, `labels` | the tables; a row remembers its CVE, a label is what it speaks of, a CVE or a template |
| `own` | `datasets/<name>/repo`: the commit it is at and how often each template was applied to it |
| `targets` | `datasets/targets/<name>/repo`: the CVEs whose trees were copied there, one over the other, `torn` for a copy cut short |
| `version` | `templates_version` of the deployment |
| `req[q]` | a request: its place, the dataset at work and the derived ones that wait in recursive calls |
| `since` | history: what was injected into a derived tree since it was last built |

`import_cve` is `ImportFiles`, `CreateRow`, `Stamp`, `AppendLabels`; `inject_vuln` is `InjectFiles` and the same tail;
`materialize_dataset` is `Materialize`, `BuildSource` or `NeedBase` (the recursive call), `Derive`, `Stamp`. The client chooses the name of an import,
and any dataset whose repository is there can be injected into, a derived one included. Everything between two awaits, git subprocesses
included, holds the event loop and is one step; `Restart` may cut a clone or a copy short (`TearsOwn`) and may bring another version of the
templates. Injections add to a tree: a template that replaces a line is taken not to hit the lines of another.

### BundleImport — export and import

| Model | Code |
|---|---|
| `exps`, `runs`, `datasets`, `labels`, `findings` | tables; `labels` says under which name each label id is stored |
| `outputs`, `dirs`, `trees` | results by experiment, the directories `outputs/<experiment>`, repositories of datasets |
| `configs` | `config/runs/<run>.json`: absent, with its upload token, or without |
| `zips`, `tmp` | bundles users hold, uploads |
| `req[q]` | a request: its place, bundle, target, what is left of the loop it is in |
| `rival` in `req[q]`, `kills` | history: another request worked on the same target meanwhile; restarts |

An import is `Receive`, `CheckConflict`, `CompareRuns`, `Extract`, `ImportDatasets`, `Rehydrate`, `AppendLabels`, `ImportRows`, `IndexRun`,
`EndImport`. An export is `ExportStart` (which makes the directory first), `ExportRow`, `ExportRuns`, then one step per dataset of the walk
(`CollectDataset`) and per dataset whose labels are read (`ReadLabels`), and `WriteBundle`. Beside them results arrive (`Publish`),
experiments are deleted (`Delete`, `PurgeConfigs`, `PurgeRows`), and the coordinator is killed at any await or inside an extraction (`Kill`). Checksums,
versions and formats of the archive are whether `Extract` succeeds; a failing extraction may have written any of the configurations. A row whose base was
renamed on import stands under its original base here.

### ToolServers — LSP tools

| Model | Code |
|---|---|
| `client`, `mux` | `MCPClient`; the multiplexer process |
| `tracked`, `sess` | `LSPMultiplexer._sessions`; each `LSPSession` with its process, reader thread and handshake |
| `wire`, `asked` | what a language server wrote and nobody read; what it has to answer |
| `pending`, `posted` | `_pending` futures; callbacks posted with `call_soon_threadsafe` |
| `call`, `busy` | each tool call; the coroutine that holds the event loop |

`start()` waits for the handshake without yielding: `busy` stays with the call. `HandOut`, `NoBinary` and `Launch` are the ways of
`_get_or_start_session`; `Register`, `Timeout`, `Resolve` are `_request`; `ReadMessage`, `ReadEnd`, `ClearPending` the reader thread,
whose end takes two steps; `Server` is an environment that answers, chatters, or dies at will. `Torn` is a frame that two readers shared.

### GroundTruthImport and BenchmarkReview — benchmarks in, scores out

`GroundTruthImport` has the nine importers as one protocol: `Widen`, `WidenNegative` (rebuild of a label table under a new CHECK),
then per batch `CreateDataset`, `Fetch` or `Reuse` of a diff, `AppendPositive`, `AppendNegative`, with `Raised` errors and an
`Interrupt` anywhere. A commit whose diff is read is a batch of one row, and Big-Vul rows of one commit and polarity carry the
same labels, since all are read off the commit's diff (`CorpusAssumption`). What differs between importers is in operators: `Polarity` per kind, `SourceOf`,
and `LabelId`, the primary key of a label, which names its dataset for OWASP and MITRE only. A Big-Vul row is told by its CVE and commit (`Pair`), its cached diff by
repository and commit (`Cached`), its dataset by all three.
`BenchmarkReview` extends it by one run on an imported dataset: `FetchLabels`, `Review` (any findings), `Cluster` and `KeepBest`
(deduplicate), `Verify`, `Evaluate`. A finding has a class and, independent of it, CWE ids; it may lack both lines or the second, or have
them reversed. `Score` is the evaluator's (class and lines), `Hits` the scorecard's (CWE and lines). `BestMatching` compares the assignment with the definition of a best one-to-one matching.
Imports run one at a time.

### Proof modules

Eight modules extend their components by theorems: `OutputsProofs` (for `UploadCommit` and `BundleImport`), `ExperimentLifecycleProofs`, `StrategyRunProofs`,
`SubmissionsProofs`, `ProviderCatalogProofs`, `DatasetStoreProofs`, `BenchmarkReviewProofs`, `ToolServersProofs`.
The `MC` modules give the constants of the runs.

## Runs

| Run | Instance | Shows |
|---|---|---|
| `upload` | 2 replicas, 2 attempts, 1 restart | all properties of `UploadCommit`, with liveness |
| `lifecycle_any` | 1 run, cap 1, spend cap 1, both transports, early ticks, 1 request (cancel or delete), 1 restart, 1 fault (2.8 million states) | safety under everything at once |
| `lifecycle_quiet` | 2 runs, concurrency cap 2, spend cap 2, both transports, 1 fault | `ExperimentEnds` and the refinement of `ExperimentBoard` |
| `capped_never_ends` | 2 runs, cap 1, no fault | a documented promise the code does not keep (see Findings) |
| `strategy_run` | 3 inputs (one without specialist), 2 roles with a strategy of 3, every mode, cap 3, batches of 2, pool of 2, 2 tool calls, 1 fault | caps, validator, fallback, spend, end of the run |
| `submissions` | 2 requests, 1 built-in and 2 user strategies, 5 matrices, 3 catalogue states, 2 seconds, 1 restart (1.6 million states) | strategies in use stay, one smoke test, answers are complete and checked |
| `catalog` | 1 single and 1 shared built-in provider, 1 custom name, 2 ids, 2 configurations, 3 requests, limit of 1 interval, 1 restart (0.66 million) | catalogue against table, status against configuration, age of listings |
| `datasets` | a git dataset, an archive, a derived one of each and one of a derived one, one template, 2 CVEs, 4 requests, 2 template versions, 1 restart (1.6 million) | labels, names and recipes |
| `bundle` | 1 experiment with a local run, 1 foreign run, a base and a derived dataset, 2 foreign bundles, 2 requests, 1 restart (0.27 million) | what imports and exports keep |
| `import_wipes_results` | the same | a comment the code does not keep (see Findings) |
| `tools` | 2 calls, one of them for any language, 1 language, 2 sessions, 1 unasked message (0.1 million) | sessions, processes, `CallEnds` |
| `ground_truth` | 5 corpora (OWASP, SARD, two CVEfixes commits, Big-Vul rows of one commit, Big-Vul rows of a fork and of no repository), 3 imports, 5 findings of which a run reports up to 3 (1.7 million) | labels, reports, clusters, matching |

Why the bounds are enough.

* `upload`: two replicas with two attempts give a retry of one's own request, a race of two different pods, and a late handler behind
  a restarted one; a third adds no new pair.
* The lifecycle: two runs are the least that fill a scan, exhaust a cap and leave work behind; one run suffices where the race is
  between actors and not between runs. One fault suffices for each property that fails with none or one; two
  in a row exhaust the Job's retry, which a pod without a readable configuration does by itself. The spend cap
  is reached by the first result (1) or by the last (2).
* `strategy_run`: two calls of up to two keys reach a cap of three from both sides and can repeat, miss or invent a key; a pool of two is
  the least that races, and three inputs the least that queue for it.
* `submissions`: two requests are the least that race, and each hazard is between two. The matrices are: two strategies, one of them with a legacy model id
  and an extension; files as runs; files with colliding slugs; a strategy with a custom provider's model and a disabled extension; a
  dataset of a language outside the allowlist.
* `catalog`: patch beside patch, patch beside probe and delete beside either need two requests, the creation before them a third; two
  ids let a name be created again.
* `datasets`: four requests import, inject, materialise and rebuild, and two import under one name; the derivative of a derivative is the least base that is
  rebuilt itself; the archive and the git dataset differ in how they are fetched, and a
  template version that changes makes a rebuild necessary.
* `bundle`: two requests race; an export followed by an import of it takes two; after a restart the second works on what the first left. Bundles cover both dataset modes, files that are
  missing and a run id that exists here.
* `tools`: two calls share a session, race for a new one, and meet one that died; two sessions are a start and a restart.
* `ground_truth`: three imports repeat one corpus and follow another; three findings are the least that nest and chain.

Deadlock is checked in `catalog`, whose refresh loop never stops. Elsewhere an experiment that ended, a worker that exited, or a list of
requests that is used up leaves nothing to do. Bounds in the modules are named there: `MaxAttempts` (5 in the code), `MaxRestarts`, `MaxKills`, `Derived`, `MaxRequests`, `Requests`, `Transfers`,
`MaxFaults`, `MaxCalls`, `MaxImports`, `MaxFindings`, `MaxSeconds`, `MaxChatter`, `Sessions`, `Ids`, the number of runs `N`; a cost is one unit.

## Fairness

`UploadCommit`: each worker loop (every request has a timeout of 300 s and every sleep is at most 60 s), each handler
(the event loop runs every ready task) and the hourly sweep. Deletion, pod loss and restarts are not fair.

`ExperimentLifecycle`: submission, the scheduler thread, the reconcile task and the cancellation are each weakly fair, since an
event loop and a thread run whatever is ready; per run, the cluster starts pods, notices dead ones and enforces
the deadline (`WF` of `PodStep(r)`, so a pod moves on in some way). Requests and restarts are not fair.

`StrategyRun`: children end (retries and timeouts of a provider are bounded), the supervisor's model goes on and, its tool
calls being bounded by `MaxCalls`, answers, the threads of the pool run. Raising is never forced.

`ToolServers`: the event loop runs what is ready, its timers included (`WF` of `Loop(c)`), and reader threads are scheduled (`WF` of
`Reader(s)`). Language servers owe nothing, so a handshake with a silent server may hold the loop for ever;
`CallEnds` is about executions in which the loop is free again and again.

The other modules have safety properties only and state no fairness.

## What is proved

For every value of the constants that satisfies the named assumptions of a module. Every proof follows one pattern: an inductive
invariant `Inv` with `Init => Inv`, `Inv /\ [Next]_vars => Inv'` action by action, and the property from it.

* `OutputsProofs`, the upload (`UploadAssumption`): `TypeCorrect`, `TokenIsSingleUse`, `StagingIsCleaned`, `ExitZeroIsEarned`, `ResultsAreKept`.
  `SingleUse` is not inductive. `IInv` adds: while the token is unspent nobody is authorised (`Unspent`);
  a spent token has one winner (`SpentBehind`, `OneWinner`); a handler past the consumption is authorised (`PastConsume`); a
  worker's current request is the last one it made (`FreshAhead`); an answer names its ground (`Replied`); tokens
  are gone once the deletion began (`RevokedByDeleter`); a streaming handler that owns its directory keeps it (`Streaming`).
* `OutputsProofs`, bundles (the `ConstantsAssumption` of `BundleImport`): `BundleTypeCorrect`, `ImportInvariance`,
  `LeftoversAreExplained`, `ResultsSurviveImports`, `ImportsAreWhole`, `BundlesStayClosed`, for any number of requests and restarts.
  They interleave at every stage, so `ImportInv` says what each may still rely on: a request works on the experiment of its bundle or on
  an id of its own (`TargetInv`, `DrawnIds`), and two at work on one experiment know of each other (`RivalInv`). Without a rival, the target of
  an import that does not merge is new until its rows are written (`FreshTarget`), its files are there from the extraction on and its
  run rows from the import of rows on (`FilesInv`, `RowsInv`); a merge keeps its target unless that is deleted beside it (`MergeTarget`), and
  only a deletion leaves run rows without an experiment (`RowInv`). Without a rival an export still has its experiment
  (`ExportTarget`), and a deletion finds its directory again only with a late result (`PurgeInv`). `Excused` lists what
  can leave a directory without an experiment. `BundlesStayClosed` needs that the datasets table holds the base of every dataset in it, and
  that what an export has collected lacks no base but those it has yet to look at (`BasesKnown`, `ExportClosed`). A kill ends
  every request, and so all that is said of them.
* `ExperimentLifecycleProofs` (`LifecycleAssumption`): `TypeCorrect`, `CompletedIsPublished`, `NoDoubleFinalize`, `CapIsFinal`,
  `FindingsAreIndexed`, `SpendIsBooked`, `BoardIsKept`. The type invariant needs `RunInHand` (the loop holds a run when it looks at a Job or indexes).
  `CompletedWasPublished` needs that a complete result on disk was published (`PublishedInv`); `FinalizedOnce` that the status is no
  longer pending once a finalization happened (`FinalInv`); `CappedNotCompleted` that without a restart the tracker counts
  no less than the row, that at the cap it has tripped, and that while the trip is in force (`InForce`: no failing call took the
  cancellation) the scan is over and no finalization is under way before the cancellation closed the experiment (`TripInv`); and that nothing
  runs before the submission is through (`NothingRuns`). `CompletedIsIndexed` follows run by run along the scan (`IndexStep`).
  `SpendAgrees` needs that apart from charges that failed at most one run in hand has a cost that is not booked (`BookInv`), that the scan knows which runs had one
  before it (`PriorKnown`), and that a run in hand lost its row only with the experiment (`RowsInv`). `BoardIsKept` is the safety half
  of `ImplementsBoard`: without early ticks, requests and restarts (`Quiet`) every step is one of `ExperimentBoard` or a stutter, whatever the
  caps. Its invariant says that the scheduler is through before the first tick (`DispatchFirst`) and that what the loop has in hand is as
  it was read (`HandIsFresh`).
* `StrategyRunProofs` (`StrategyAssumption`): `TypeCorrect`, `WithinCap`, `FallbackIsDisjoint`, `RepromptHonest`,
  `NothingIsLeftOut`, `SpendIsKept`. `SupervisorWithinCap` needs that every child was counted first (`Counted`); the fallback's properties that it
  starts after the supervisor is through and has noted every missing input (`FallbackLast`), and that only inputs
  without specialist are skipped (`SkippedUnknown`); `RepromptIsHonest` that the count grows with the logs
  (`DispatchedGrows`, on cardinalities); the spend that a provider in the cache is replaced only where the supervisor's children never had one.
* `SubmissionsProofs` (`ConstantsAssumption`, `MatrixAssumption`, `NullAssumption`): `TypeCorrect`, `StrategiesAreKept`,
  `SmokeTestsAreSingle`, `AnswersAreWhole`. A deletion past its check and an experiment with the strategy know of each other
  (`RemovalsKnown`). A smoke request has a way of its own through the steps of a submission (`WayInv`); unless two overlapped, at most
  one is under way, and it found no live smoke test (`OneSmoker`, `NoneWasThere`, `OneLive`). What is answered is built up
  along the way: each gate leaves what it established in the request (`CheckInv`), and the rows hold every cell that is no longer in hand (`RowInv`).
* `ProviderCatalogProofs` (`ConstantsAssumption`): `TypeCorrect`, `ListingsAgeOut`, `CatalogFollowsTable`, `StatusIsOfConfig`.
  `CatalogInv` adds that names and ids stay unique (`UniqueNames`, `SameName`, `UnusedIds`), that a request without a rival holds the row as it is in
  the table (`Alone`), and that before the load nothing custom is in the catalogue (`BootInv`). `AgeInv` bounds the ages of what is stored
  and of what waits to be stored, phase by phase.
* `DatasetStoreProofs` (`ConstantsAssumption`, `NullAssumption`): `TypeCorrect`, `RecipesAreReplayedOnce`, `LabelsSpeakOfTrees`,
  `LabelsAreOfTheRow`. Trees move in four ways only (`TreesMove`: not, by a mark, a source appears, a derived one is rebuilt) and sources only
  grow (`SourcesGrow`), so what a label speaks of is in its base unless that was rebuilt (`Evident`); a request in its last writes
  has its files (`FilesFirst`), and a label in the table has them too (`LabelsBehind`). The tables only grow (`TablesGrow`), so
  the row of a name stays with the CVE that registered it first.
* `BenchmarkReviewProofs` (`CorpusAssumption`, `ReviewAssumption`), for any corpora, findings and labels:
  * `ReviewTypeCorrect`, which needs that only importers which read diffs fetch one (`FetchReads`); `LabelsAreKept`, action by action.
  * `ReportsAreHonest`. `ReportInv` says that the tables accept the labels at hand once an import is past its widening (`Widened`), that while
    no gap was met every earlier batch is stored (`BatchesStored`), and that the later rows of a Big-Vul commit, which are passed
    over in silence, find the diff of the first and so have its labels where commit and CVE are of one repository (`DiffAtHand`, `Plain`).
  * `ClustersAreApart`, by the sweep: a finding not yet looked at starts behind those clustered (`Swept`), and two that are near it are
    near each other, so it joins one cluster at most.
  * `MatchingIsBest`. Inside a file every finding can meet every label, so a matching that leaves no such pair out is a largest one
    (`FullIsLargest`), and every matching within files is part of an assignment of full size with as many pairs of one file as any
    (`ExtendsToAssignment`). An optimal assignment gains no less and has no more such pairs, so the mask costs it nothing
    (`SumOfMasked`), nor does dropping pairs without score (`SumOfPositive`). That `MapThenSumSet` sums is proved from its
    recursion (`SumExists`, `SumIsUnique`), by a smallest counterexample. A run has finitely many labels, since every import adds finitely many (`Countable`).
  * `HitsGetMatched`: hits with the label's class, or with lines in order (`Comparable`), score (`LinesScore`, `HitScores`); a file hit by
    one and without a true positive would leave its pair free, and with one more pair the matching scores more.
* `ToolServersProofs` (`ConstantsAssumption`): `TypeCorrect`, `LanguagesHaveOneSession`, `NoLiveSessionIsLeft`. A call between two
  awaits holds the loop (`Turn`), so while one starts a session its language has no live one (`NoRival`); without a bridge
  that was ready there is no session (`BridgeInv`).

The type invariants are proved; no run repeats them.

Only model-checked: liveness (`WorkersExit`, `StagingReclaimed`, `ExperimentEnds`, `RunEnds`, `CallEnds`) and the liveness half of
`ImplementsBoard`, since TLAPS does not handle fairness. Every other property of a passing run is a theorem.

## Findings

1. *Concurrency caps* (`capped_never_ends`). The scheduler counts Jobs it created and never counts them
   down, and the reconcile loop creates the rest regardless of the cap while leaving their rows pending, so that
   nobody ingests their results: the experiment never ends.
2. *A failed import removes results that were there* (`import_wipes_results`). The clean-up of a failed import removes the
   output directory of its target, which under the merge policy holds the results of the experiment's own runs.

Met while modelling and not stated as a property:

* The cap is forgotten in a restart: the rebuilt tracker starts at zero whatever `spent_usd` says (`coordinator.py:1321`, where the comment is
  "rebuild tracker from DB"), so an experiment that reached its cap in two processes ends completed. `CappedNotCompleted` is stated up to the first restart.
* A template is applied twice: `inject_vuln` changes the base in place (`coordinator.py:2132`), and the first rebuild of the derived dataset copies
  that base and applies the recipe to it again (2006), against "applied to clean repos" (`README.md:52`). `RecipeOnce` counts over what the base has.
* A materialised dataset is not the one that is reviewed: it is built under `datasets/<name>/repo`, and a worker reads
  `datasets/targets/<name>/repo` (`worker.py:271`), which only an import of a CVE fills.
* A rename loses the labels, against the comment at `bundle.py:826`: they keep their ids, which are taken where the dataset's name was, so
  `INSERT OR IGNORE` passes them over and the new name has none. `dataset_labels_imported` counts them all the same.
* A failed import strips a token: a bundle that holds an undelivered run writes that run's configuration without its upload token
  (`bundle.py:420`) before it fails on the run's key, and the worker cannot start (`worker.py:487`).
* Labels of one import hide those of another: their ids lack the dataset's name (Bandit, `ground_truth/bandit_functional_importer.py:530`) or the
  release (SARD, CodeQL), and the second import reports no skip.
* A fork's dataset is dropped: Big-Vul rows are told apart by CVE and commit (`ground_truth/big_vul_importer.py:375`) although every "(cve_id,
  project, commit_id) triple" is to be a dataset (271); the second project's row is passed over without a word.
* An upload that breaks after its token was spent cannot be repeated, and the worker exits 0 as if another replica had delivered
  (`worker.py:528`).
* The reconcile loop creates Jobs beyond the concurrency caps (`coordinator.py:426` against 1177). The label `run-id` it looks for is never
  set, and Jobs that exist are told apart only by the 409.
* The scheduler thread creates Jobs for an experiment that was cancelled (`coordinator.py:443`), and overwrites the cancelled status with running.
* A run whose first pod failed is marked failed although the Job's retry may deliver (`coordinator.py:1362`; `ARCHITECTURE.md:4701`).
* A cancellation in flight overwrites completed (`coordinator.py:1025` against 1052; `user_stories.md:1166-1170`).
* A fallback child's spend is lost when two threads create a provider of one model (`strategies/common.py:158`).
* A tick between `create_experiment` and the last `create_run` sees no pending row of an experiment whose `total_runs` is
  positive and finalizes it, and one between `create_run` and the configuration marks the run failed.
* The smoke test's first model is looked up and discarded (`coordinator.py:3588`): the strategy's own model is used.
* The answer's `total_runs` ignores the fan-out over files.
* A custom provider's fresh model has the status `not_listed` (`models/availability.py:181-225`), so that an experiment on it is refused
  (`coordinator.py:2923`) unless the request allows unavailable models; an empty registry skips the check, and legacy ids are
  rewritten for the check only.
* Files with colliding slugs, or a strategy named twice, answer 500 and leave an experiment with some of its runs.
* Each importer rebuilds the CHECK from the base set and its own source: after another importer's rows the rebuild fails
  and nothing is imported; without them it takes the other source away again (`ground_truth/_source_check_migration.py:71`).
* A reject-mode import that breaks off over its datasets leaves its files behind, and the run configurations it wrote stay
  after any failed import. A merge beside a deletion writes run rows without an experiment.
* An export of an unknown experiment leaves an empty directory (`coordinator.py:2731`), and a bundle uploaded before a restart is never swept.
* When the database call that closes a capped experiment fails, the tracker has tripped and does not trip again: the experiment goes
  on beyond its cap (`coordinator.py:1326`). When the call that fails a run whose Job was refused fails too, its row stays pending (463).
* A second CVE under a taken name lays its tree over the first one's before `create_dataset` refuses it (`ground_truth/cve_importer.py:742`).
* A label of a derivative of a derivative outlives its mark when its base is rebuilt (`coordinator.py:2003`).
* A materialised CVE dataset is at the fix (`coordinator.py:2103`), its labels speak of the parent commit; `import_cve` stamps
  `materialized_at` though `datasets/<name>/repo` is not there.
* A finding with a label's CWE, another class and no comparable lines is a hit of the scorecard and scores 0 in the evaluator.
* A Big-Vul row of a fork without a vulnerability takes the turn of its polarity. `_parse_hunk_ranges` never raises, although it is documented to.

## Not modelled

Several experiments of the lifecycle at once (no state is shared between them but the trends cache and the smoke-test's
check, which is in `Submissions`); reclassification and search of findings and the trends page; exported bundles and retention of old experiments in the
sweep; validation of a draft strategy, formats and checksums of bundles, parsing of foreign corpora, caches whose key holds their whole input; the
review itself, prompts and profiles; feedback, reports, pricing and ratios of the evaluation, which keep no state; tool servers without
sessions; the web frontend. `PROJECT.json` lists each component with its reason.

## Plan

Done: all modules above, with proofs of their safety properties. Left: retention; two experiments of one
lifecycle that share the concurrency of a model.
