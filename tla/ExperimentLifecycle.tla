------------------------ MODULE ExperimentLifecycle ------------------------
(***************************************************************************)
(* One experiment in the coordinator (coordinator.py): submit_experiment,  *)
(* the scheduler thread it starts, the periodic reconcile loop, cancel and *)
(* delete requests and coordinator restarts, with the database rows (db.py)*)
(* and files they share, the Kubernetes Jobs they create and the worker    *)
(* pods (worker.py) that publish results.                                  *)
(*                                                                         *)
(* Everything but the scheduler thread and the pods runs on one event      *)
(* loop, so a step ends where the code awaits; the database call a step    *)
(* ends with belongs to it, and so do reads in a row with nothing between  *)
(* them.  Every result costs one unit.                                     *)
(***************************************************************************)
EXTENDS Naturals, FiniteSets

CONSTANTS
    N,              \* number of runs the matrix expands to
    Models,         \* the models under review
    ModelOf,        \* the model of each run
    Cap,            \* concurrency_caps, per model
    CostCap,        \* max_experiment_cost_usd in units; 0 is no cap
    Transports,     \* result_transport settings considered
    LabelMatches,   \* the experiment id is its own _k8s_safe form
    EarlyTicks,     \* the loop may tick while runs are still being dispatched
    Requests,       \* kinds of request considered
    MaxRequests,    \* bound on cancel and delete requests
    MaxRestarts,    \* bound on coordinator restarts
    MaxFaults       \* bound on failing API and database calls, pods and uploads

Runs == 1..N
NoRun == 0
MaxScheduleAttempts == 3
(* The two callers of cancel_experiment: a request, and the reconcile loop *)
(* when the spend cap is hit.                                              *)
Callers == {"user", "rec"}

ASSUME LifecycleAssumption ==
    /\ N \in Nat \ {0}
    /\ ModelOf \in [Runs -> Models]
    /\ Cap \in [Models -> Nat]
    /\ CostCap \in Nat
    /\ Transports \subseteq {"pvc", "http"}
    /\ LabelMatches \in BOOLEAN
    /\ EarlyTicks \in BOOLEAN
    /\ Requests \subseteq {"cancel", "delete"}
    /\ MaxRequests \in Nat
    /\ MaxRestarts \in Nat
    /\ MaxFaults \in Nat

VARIABLES
    transport,      \* the deployment's setting
    \* database
    expStatus,      \* experiments.status, "absent" without a row
    runStatus,      \* runs.status, "absent" without a row
    costed,         \* runs with a non-zero estimated_cost_usd
    spent,          \* experiments.spent_usd
    token,          \* run_upload_tokens, per run
    indexed,        \* runs whose findings are in the findings table
    \* shared volume
    config,         \* config/runs/<run>.json
    result,         \* outputs/<experiment>/<run>/run_result.json
    \* Kubernetes
    job,            \* the Job of each run
    pod,            \* the Job's current pod
    orphan,         \* runs with a pod left over from a deleted Job
    \* coordinator memory
    subPc, subNext,                             \* submit_experiment
    schPc, schRun, schPending, schVisit, slots, tries,  \* _schedule_jobs
    recPc, recTodo, recPrior, recRun,           \* the reconcile loop
    canPc, canTodo,                             \* cancel_experiment, per caller
    usrPc,                                      \* the cancel or delete request
    tracker, tripped,                           \* ExperimentCostTracker
    \* bounds and history
    requests, restarts, faults,
    published,      \* outcomes the run's workers have published in full
    finalized,      \* how often finalize_experiment ran since the last restart
    unbilled,       \* how often add_experiment_spend failed
    unindexed,      \* runs whose upsert_findings_for_run failed
    capLost         \* a failing call kept the cap from cancelling the experiment

dbVars  == <<expStatus, runStatus, costed, spent, token, indexed>>
diskVars == <<config, result>>
k8sVars == <<job, pod, orphan>>
subVars == <<subPc, subNext>>
schVars == <<schPc, schRun, schPending, schVisit, slots, tries>>
recVars == <<recPc, recTodo, recPrior, recRun>>
canVars == <<canPc, canTodo>>
memVars == <<tracker, tripped>>
bounds  == <<requests, restarts, faults>>
losses  == <<unbilled, unindexed, capLost>>
history == <<published, finalized, losses>>
vars == <<transport, dbVars, diskVars, k8sVars, subVars, schVars, recVars,
          canVars, usrPc, memVars, bounds, history>>

-----------------------------------------------------------------------------
Outcome == {"completed", "failed"}
RunTerminal == {"completed", "failed", "cancelled"}
ExpTerminal == {"completed", "failed", "cancelled"}

TypeOK ==
    /\ transport \in Transports
    /\ expStatus \in {"absent", "pending"} \cup ExpTerminal
    /\ runStatus \in [Runs -> {"absent", "pending", "running"} \cup RunTerminal]
    /\ costed \subseteq Runs
    /\ spent \in Nat
    /\ token \in [Runs -> {"none", "issued", "consumed"}]
    /\ indexed \subseteq Runs
    /\ config \in [Runs -> {"absent", "torn", "written"}]
    /\ result \in [Runs -> {"absent", "torn"} \cup Outcome]
    /\ job \in [Runs -> {"none", "active", "retrying", "succeeded", "failed"}]
    /\ pod \in [Runs -> {"none", "running", "writing", "written", "lost"}]
    /\ orphan \subseteq Runs
    /\ subPc \in {"idle", "rows", "configs", "done"}
    /\ subNext \in Runs
    /\ schPc \in {"off", "scan", "created"}
    /\ schRun \in Runs \cup {NoRun}
    /\ schPending \subseteq Runs
    /\ schVisit \subseteq schPending
    /\ slots \in [Models -> Nat]
    /\ tries \in [Runs -> 0..MaxScheduleAttempts]
    /\ recPc \in {"idle", "redispatch", "finalize", "list", "scan", "job", "index",
                  "charge", "cancel", "recount", "refinalize"}
    /\ recTodo \subseteq Runs
    /\ recPrior \subseteq Runs
    /\ recRun \in Runs \cup {NoRun}
    /\ canPc \in [Callers -> {"off", "begin", "jobs", "flip", "close"}]
    /\ canTodo \in [Callers -> SUBSET Runs]
    /\ usrPc \in {"idle", "cancel", "delete", "remove", "unlink", "rows"}
    /\ tracker \in Nat
    /\ tripped \in BOOLEAN
    /\ requests \in 0..MaxRequests
    /\ restarts \in 0..MaxRestarts
    /\ faults \in 0..MaxFaults
    /\ published \in [Runs -> SUBSET Outcome]
    /\ finalized \in Nat
    /\ unbilled \in Nat
    /\ unindexed \subseteq Runs
    /\ capLost \in BOOLEAN

Init ==
    /\ transport \in Transports
    /\ expStatus = "absent"
    /\ runStatus = [r \in Runs |-> "absent"]
    /\ costed = {} /\ spent = 0 /\ indexed = {}
    /\ token = [r \in Runs |-> "none"]
    /\ config = [r \in Runs |-> "absent"]
    /\ result = [r \in Runs |-> "absent"]
    /\ job = [r \in Runs |-> "none"]
    /\ pod = [r \in Runs |-> "none"]
    /\ orphan = {}
    /\ subPc = "idle" /\ subNext = 1
    /\ schPc = "off" /\ schRun = NoRun /\ schPending = {} /\ schVisit = {}
    /\ slots = [m \in Models |-> 0]
    /\ tries = [r \in Runs |-> 0]
    /\ recPc = "idle" /\ recTodo = {} /\ recPrior = {} /\ recRun = NoRun
    /\ canPc = [c \in Callers |-> "off"]
    /\ canTodo = [c \in Callers |-> {}]
    /\ usrPc = "idle"
    /\ tracker = 0 /\ tripped = FALSE
    /\ requests = 0 /\ restarts = 0 /\ faults = 0
    /\ published = [r \in Runs |-> {}]
    /\ finalized = 0
    /\ unbilled = 0 /\ unindexed = {} /\ capLost = FALSE

(* Loops over runs go by creation order.                                   *)
IsFirst(r, S) == r \in S /\ \A s \in S : r <= s

(* UPDATE runs SET status = s WHERE id = r: without a row, nothing.        *)
UpdateRun(r, s) ==
    runStatus' = IF runStatus[r] = "absent" THEN runStatus
                 ELSE [runStatus EXCEPT ![r] = s]

(* update_experiment_status, likewise.                                     *)
UpdateExperiment(s) ==
    expStatus' = IF expStatus = "absent" THEN expStatus ELSE s

Faults(k) == faults + k <= MaxFaults /\ faults' = faults + k
Fault == Faults(1)

InStatus(S) == {r \in Runs : runStatus[r] \in S}

-----------------------------------------------------------------------------
(* submit_experiment *)

(* create_experiment                                                       *)
Submit ==
    /\ subPc = "idle"
    /\ expStatus' = "pending"
    /\ subPc' = "rows"
    /\ UNCHANGED <<transport, runStatus, costed, spent, token, indexed, diskVars,
                   k8sVars, subNext, schVars, recVars, canVars, usrPc, memVars,
                   bounds, history>>

(* create_run, one await per run                                           *)
CreateRunRow ==
    /\ subPc = "rows"
    /\ runStatus' = [runStatus EXCEPT ![subNext] = "pending"]
    /\ IF subNext < N
       THEN subNext' = subNext + 1 /\ UNCHANGED subPc
       ELSE subNext' = 1 /\ subPc' = "configs"
    /\ UNCHANGED <<transport, expStatus, costed, spent, token, indexed, diskVars,
                   k8sVars, schVars, recVars, canVars, usrPc, memVars, bounds, history>>

(* The tracker is made and the thread started right after the last file.   *)
StartThread ==
    /\ subPc' = "done"
    /\ schPc' = "scan"
    /\ schPending' = Runs
    /\ schVisit' = Runs
    /\ tracker' = 0
    /\ tripped' = FALSE
    /\ UNCHANGED <<schRun, slots, tries>>

(* PVC transport: all run configurations are written without an await.     *)
WriteConfigs ==
    /\ subPc = "configs"
    /\ transport = "pvc"
    /\ config' = [r \in Runs |-> "written"]
    /\ StartThread
    /\ UNCHANGED <<transport, dbVars, result, k8sVars, subNext, recVars, canVars,
                   usrPc, bounds, history>>

(* HTTP transport: issue_upload_token is awaited before each file.         *)
IssueTokenAndWriteConfig ==
    /\ subPc = "configs"
    /\ transport = "http"
    /\ token' = [token EXCEPT ![subNext] = "issued"]
    /\ config' = [config EXCEPT ![subNext] = "written"]
    /\ IF subNext < N
       THEN subNext' = subNext + 1 /\ UNCHANGED <<subPc, schVars, memVars>>
       ELSE StartThread /\ UNCHANGED subNext
    /\ UNCHANGED <<transport, expStatus, runStatus, costed, spent, indexed, result,
                   k8sVars, recVars, canVars, usrPc, bounds, history>>

SubmitStep == Submit \/ CreateRunRow \/ WriteConfigs \/ IssueTokenAndWriteConfig

-----------------------------------------------------------------------------
(* _schedule_jobs, in a thread of its own *)

UnderCap(r) == slots[ModelOf[r]] < Cap[ModelOf[r]]
Eligible(S) == {r \in S : UnderCap(r)}

(* _create_k8s_job: the name is a hash of the run id, so a second Job for  *)
(* the run is a 409.                                                       *)
CreateJob(r) ==
    /\ job[r] = "none"
    /\ job' = [job EXCEPT ![r] = "active"]
    /\ UNCHANGED <<pod, orphan>>

ScheduleRun(r) ==
    /\ schPc = "scan"
    /\ IsFirst(r, Eligible(schVisit))
    /\ CreateJob(r)
    /\ schPc' = "created"
    /\ schRun' = r
    /\ UNCHANGED <<transport, dbVars, diskVars, subVars, schPending, schVisit, slots,
                   tries, recVars, canVars, usrPc, memVars, bounds, history>>

(* The except branch, after k failing calls: with the third failure the    *)
(* run is marked failed and dropped, and dropped also when it cannot be    *)
(* marked (db_err).                                                        *)
AttemptFailed(r, k) ==
    /\ tries' = [tries EXCEPT ![r] = @ + 1]
    /\ schVisit' = schVisit \ {r}
    /\ IF tries[r] + 1 >= MaxScheduleAttempts
       THEN /\ schPending' = schPending \ {r}
            /\ \/ UpdateRun(r, "failed") /\ Faults(k)
               \/ UNCHANGED runStatus /\ Faults(k + 1)
       ELSE UNCHANGED <<runStatus, schPending>> /\ Faults(k)

ScheduleRunFails(r) ==
    /\ schPc = "scan"
    /\ IsFirst(r, Eligible(schVisit))
    /\ AttemptFailed(r, IF job[r] = "none" THEN 1 ELSE 0)
    /\ UNCHANGED <<transport, expStatus, costed, spent, token, indexed, diskVars,
                   k8sVars, subVars, schPc, schRun, slots, recVars, canVars, usrPc,
                   memVars, requests, restarts, history>>

(* update_run(running): whatever the row says by now.                      *)
MarkRunning ==
    /\ schPc = "created"
    /\ UpdateRun(schRun, "running")
    /\ slots' = [slots EXCEPT ![ModelOf[schRun]] = @ + 1]
    /\ schPending' = schPending \ {schRun}
    /\ schVisit' = schVisit \ {schRun}
    /\ schPc' = "scan"
    /\ schRun' = NoRun
    /\ UNCHANGED <<transport, expStatus, costed, spent, token, indexed, diskVars,
                   k8sVars, subVars, tries, recVars, canVars, usrPc, memVars, bounds,
                   history>>

MarkRunningFails ==
    /\ schPc = "created"
    /\ AttemptFailed(schRun, 1)
    /\ schPc' = "scan"
    /\ schRun' = NoRun
    /\ UNCHANGED <<transport, expStatus, costed, spent, token, indexed, diskVars,
                   k8sVars, subVars, slots, recVars, canVars, usrPc, memVars,
                   requests, restarts, history>>

(* After the sleep: another pass over what is left.  slots only grows, so  *)
(* once no run is under its cap further passes change nothing.             *)
NextRound ==
    /\ schPc = "scan"
    /\ Eligible(schVisit) = {}
    /\ Eligible(schPending) # {}
    /\ schVisit' = schPending
    /\ UNCHANGED <<transport, dbVars, diskVars, k8sVars, subVars, schPc, schRun,
                   schPending, slots, tries, recVars, canVars, usrPc, memVars,
                   bounds, history>>

ScheduleStep ==
    \/ \E r \in Runs : ScheduleRun(r) \/ ScheduleRunFails(r)
    \/ MarkRunning \/ MarkRunningFails \/ NextRound

-----------------------------------------------------------------------------
(* Jobs and worker pods *)

JobLive(r) == job[r] \in {"active", "retrying"}
PodLive(r) == pod[r] \in {"running", "writing", "written"}

PodStart(r) ==
    /\ JobLive(r) /\ pod[r] = "none" /\ config[r] = "written"
    /\ pod' = [pod EXCEPT ![r] = "running"]
    /\ UNCHANGED <<transport, dbVars, diskVars, job, orphan, subVars, schVars,
                   recVars, canVars, usrPc, memVars, bounds, history>>

(* A pod of the Job exits non-zero, or the controller notices that it is   *)
(* gone: backoff_limit is 1, so the first failure is retried.  A pod whose *)
(* run configuration is missing or torn fails by itself.                   *)
PodFails(r) ==
    /\ JobLive(r)
    /\ \/ PodLive(r) /\ Fault
       \/ pod[r] = "lost" /\ UNCHANGED faults
       \/ pod[r] = "none" /\ config[r] # "written" /\ UNCHANGED faults
    /\ pod' = [pod EXCEPT ![r] = "none"]
    /\ job' = [job EXCEPT ![r] = IF @ = "active" THEN "retrying" ELSE "failed"]
    /\ UNCHANGED <<transport, dbVars, diskVars, orphan, subVars, schVars, recVars,
                   canVars, usrPc, memVars, requests, restarts, history>>

(* Evicted or out of memory, and the Job's status does not show it yet.    *)
PodLost(r) ==
    /\ PodLive(r)
    /\ Fault
    /\ pod' = [pod EXCEPT ![r] = "lost"]
    /\ UNCHANGED <<transport, dbVars, diskVars, job, orphan, subVars, schVars,
                   recVars, canVars, usrPc, memVars, requests, restarts, history>>

(* active_deadline_seconds                                                 *)
DeadlineExceeded(r) ==
    /\ JobLive(r)
    /\ Fault
    /\ job' = [job EXCEPT ![r] = "failed"]
    /\ pod' = [pod EXCEPT ![r] = "none"]
    /\ UNCHANGED <<transport, dbVars, diskVars, orphan, subVars, schVars, recVars,
                   canVars, usrPc, memVars, requests, restarts, history>>

(* The review is over.  PVC: shutil.copy2 has opened run_result.json.      *)
(* HTTP: the upload spent the token; with a spent or revoked one the       *)
(* worker is refused and exits 0.                                          *)
PodWrite(r) ==
    /\ pod[r] = "running"
    /\ \/ /\ transport = "pvc"
          /\ result' = [result EXCEPT ![r] = "torn"]
          /\ pod' = [pod EXCEPT ![r] = "writing"]
          /\ UNCHANGED <<token, job>>
       \/ /\ transport = "http" /\ token[r] = "issued"
          /\ token' = [token EXCEPT ![r] = "consumed"]
          /\ pod' = [pod EXCEPT ![r] = "writing"]
          /\ UNCHANGED <<result, job>>
       \/ /\ transport = "http" /\ token[r] # "issued"
          /\ job' = [job EXCEPT ![r] = "succeeded"]
          /\ pod' = [pod EXCEPT ![r] = "none"]
          /\ UNCHANGED <<token, result>>
    /\ UNCHANGED <<transport, expStatus, runStatus, costed, spent, indexed, config,
                   orphan, subVars, schVars, recVars, canVars, usrPc, memVars,
                   bounds, history>>

(* run_result.json is complete: copied, or renamed into place.             *)
PodPublish(r, o) ==
    /\ pod[r] = "writing"
    /\ result' = [result EXCEPT ![r] = o]
    /\ published' = [published EXCEPT ![r] = @ \cup {o}]
    /\ pod' = [pod EXCEPT ![r] = "written"]
    /\ UNCHANGED <<transport, dbVars, config, job, orphan, subVars, schVars, recVars,
                   canVars, usrPc, memVars, bounds, finalized, losses>>

(* The upload that spent the token breaks; the next attempt is refused and *)
(* the worker exits 0 (module UploadCommit).                               *)
UploadBroken(r) ==
    /\ pod[r] = "writing" /\ transport = "http"
    /\ Fault
    /\ pod' = [pod EXCEPT ![r] = "none"]
    /\ job' = [job EXCEPT ![r] = "succeeded"]
    /\ UNCHANGED <<transport, dbVars, diskVars, orphan, subVars, schVars, recVars,
                   canVars, usrPc, memVars, requests, restarts, history>>

(* The other artifacts are delivered and the worker exits 0.               *)
PodExit(r) ==
    /\ pod[r] = "written"
    /\ pod' = [pod EXCEPT ![r] = "none"]
    /\ job' = [job EXCEPT ![r] = "succeeded"]
    /\ UNCHANGED <<transport, dbVars, diskVars, orphan, subVars, schVars, recVars,
                   canVars, usrPc, memVars, bounds, history>>

(* A pod whose Job was deleted may still deliver, and goes away.           *)
OrphanPublish(r, o) ==
    /\ r \in orphan
    /\ transport = "http" => token[r] = "issued"
    /\ orphan' = orphan \ {r}
    /\ result' = [result EXCEPT ![r] = o]
    /\ token' = IF transport = "http" THEN [token EXCEPT ![r] = "consumed"] ELSE token
    /\ published' = [published EXCEPT ![r] = @ \cup {o}]
    /\ UNCHANGED <<transport, expStatus, runStatus, costed, spent, indexed, config,
                   job, pod, subVars, schVars, recVars, canVars, usrPc, memVars,
                   bounds, finalized, losses>>

OrphanDies(r) ==
    /\ r \in orphan
    /\ orphan' = orphan \ {r}
    /\ UNCHANGED <<transport, dbVars, diskVars, job, pod, subVars, schVars, recVars,
                   canVars, usrPc, memVars, bounds, history>>

PodStep(r) ==
    \/ PodStart(r) \/ PodFails(r) \/ PodLost(r) \/ DeadlineExceeded(r) \/ PodWrite(r)
    \/ \E o \in Outcome : PodPublish(r, o) \/ OrphanPublish(r, o)
    \/ UploadBroken(r) \/ PodExit(r) \/ OrphanDies(r)

-----------------------------------------------------------------------------
(* cancel_experiment, for a request or for the spend cap *)

(* list_namespaced_job(label_selector="experiment=<id>"): the Jobs carry   *)
(* the label _k8s_safe(<id>).                                              *)
Listed == IF LabelMatches THEN {r \in Runs : job[r] # "none"} ELSE {}

CancelBegin(c) ==
    /\ canPc[c] = "begin"
    /\ canPc' = [canPc EXCEPT ![c] =
                    IF expStatus \in ExpTerminal \cup {"absent"} THEN "off" ELSE "jobs"]
    /\ UNCHANGED <<transport, dbVars, diskVars, k8sVars, subVars, schVars, recVars,
                   canTodo, usrPc, memVars, bounds, history>>

(* Jobs with neither a succeeded nor a failed pod are deleted; a pod may   *)
(* outlive its Job.  If the API fails, the rest are left, and the handler  *)
(* goes on to the rows.                                                    *)
CancelJobs(c) ==
    LET unfinished == {r \in Listed : job[r] = "active"} IN
    /\ canPc[c] = "jobs"
    /\ \E gone \in SUBSET unfinished :
        /\ IF gone = unfinished THEN UNCHANGED faults ELSE Fault
        /\ job' = [r \in Runs |-> IF r \in gone THEN "none" ELSE job[r]]
        /\ pod' = [r \in Runs |-> IF r \in gone THEN "none" ELSE pod[r]]
        /\ \E left \in SUBSET {r \in gone : PodLive(r)} : orphan' = orphan \cup left
    /\ canTodo' = [canTodo EXCEPT ![c] = InStatus({"pending", "running"})]
    /\ canPc' = [canPc EXCEPT ![c] = "flip"]
    /\ UNCHANGED <<transport, dbVars, diskVars, subVars, schVars, recVars, usrPc,
                   memVars, requests, restarts, history>>

CancelFlip(c, r) ==
    /\ canPc[c] = "flip"
    /\ IsFirst(r, canTodo[c])
    /\ UpdateRun(r, "cancelled")
    /\ canTodo' = [canTodo EXCEPT ![c] = @ \ {r}]
    /\ UNCHANGED <<transport, expStatus, costed, spent, token, indexed, diskVars,
                   k8sVars, subVars, schVars, recVars, canPc, usrPc, memVars, bounds,
                   history>>

CancelClose(c) ==
    /\ canPc[c] = "flip"
    /\ canTodo[c] = {}
    /\ UpdateExperiment("cancelled")
    /\ canPc' = [canPc EXCEPT ![c] = "off"]
    /\ UNCHANGED <<transport, runStatus, costed, spent, token, indexed, diskVars,
                   k8sVars, subVars, schVars, recVars, canTodo, usrPc, memVars,
                   bounds, history>>

(* A database call of cancel_experiment fails: the rest of it and of its   *)
(* caller is left.  The Jobs may be gone by then.                          *)
CancelBreaks(c) ==
    /\ canPc[c] \in {"begin", "flip"}
    /\ Fault
    /\ canPc' = [canPc EXCEPT ![c] = "off"]
    /\ IF c = "rec"
       THEN recPc = "cancel" /\ recPc' = "idle" /\ capLost' = TRUE /\ UNCHANGED usrPc
       ELSE usrPc' = "idle" /\ UNCHANGED <<recPc, capLost>>
    /\ UNCHANGED <<transport, dbVars, diskVars, k8sVars, subVars, schVars, recTodo,
                   recPrior, recRun, canTodo, memVars, requests, restarts,
                   published, finalized, unbilled, unindexed>>

CancelStep(c) ==
    \/ CancelBegin(c) \/ CancelJobs(c) \/ CancelClose(c) \/ CancelBreaks(c)
    \/ \E r \in Runs : CancelFlip(c, r)

(* POST /experiments/{id}/cancel and DELETE /experiments/{id}              *)
Request ==
    /\ usrPc = "idle"
    /\ requests < MaxRequests
    /\ expStatus # "absent"
    /\ requests' = requests + 1
    /\ usrPc' \in Requests
    /\ canPc' = [canPc EXCEPT !["user"] = "begin"]
    /\ UNCHANGED <<transport, dbVars, diskVars, k8sVars, subVars, schVars, recVars,
                   canTodo, memVars, restarts, faults, history>>

CancelAnswered ==
    /\ usrPc = "cancel" /\ canPc["user"] = "off"
    /\ usrPc' = "idle"
    /\ UNCHANGED <<transport, dbVars, diskVars, k8sVars, subVars, schVars, recVars,
                   canVars, memVars, bounds, history>>

(* delete_experiment, after its cancel_experiment                          *)
RevokeTokens ==
    /\ usrPc = "delete" /\ canPc["user"] = "off"
    /\ usrPc' = "remove"
    /\ token' = [r \in Runs |-> "none"]
    /\ UNCHANGED <<transport, expStatus, runStatus, costed, spent, indexed, diskVars,
                   k8sVars, subVars, schVars, recVars, canVars, memVars, bounds, history>>

RemoveOutputs ==
    /\ usrPc = "remove"
    /\ usrPc' = "unlink"
    /\ result' = [r \in Runs |-> "absent"]
    /\ UNCHANGED <<transport, dbVars, config, k8sVars, subVars, schVars, recVars,
                   canVars, memVars, bounds, history>>

UnlinkConfigs ==
    /\ usrPc = "unlink"
    /\ usrPc' = "rows"
    /\ config' = [r \in Runs |-> IF runStatus[r] = "absent" THEN config[r] ELSE "absent"]
    /\ UNCHANGED <<transport, dbVars, result, k8sVars, subVars, schVars, recVars,
                   canVars, memVars, bounds, history>>

(* All rows go in one transaction.                                         *)
DeleteRows ==
    /\ usrPc = "rows"
    /\ usrPc' = "idle"
    /\ expStatus' = "absent"
    /\ runStatus' = [r \in Runs |-> "absent"]
    /\ token' = [r \in Runs |-> "none"]
    /\ costed' = {} /\ spent' = 0 /\ indexed' = {}
    /\ UNCHANGED <<transport, diskVars, k8sVars, subVars, schVars, recVars, canVars,
                   memVars, bounds, history>>

(* A database call of delete_experiment fails: the request does, too.      *)
DeleteBreaks ==
    /\ \/ usrPc = "delete" /\ canPc["user"] = "off"
       \/ usrPc \in {"unlink", "rows"}
    /\ Fault
    /\ usrPc' = "idle"
    /\ UNCHANGED <<transport, dbVars, diskVars, k8sVars, subVars, schVars, recVars,
                   canVars, memVars, requests, restarts, history>>

RequestStep ==
    \/ Request \/ CancelAnswered
    \/ RevokeTokens \/ RemoveOutputs \/ UnlinkConfigs \/ DeleteRows \/ DeleteBreaks

-----------------------------------------------------------------------------
(* _reconcile_once: reconcile(), then _reconcile_experiment_once *)

(* Environment: with EarlyTicks FALSE the dispatch of a submission fits    *)
(* between two ticks.                                                      *)
Dispatching == subPc # "done" \/ schPc = "created" \/ Eligible(schPending) # {}
MayTick == EarlyTicks \/ ~Dispatching

(* Dispatched runs are looked for by the label "run-id", which             *)
(* _create_k8s_job does not set.                                           *)
DispatchedIds == {}

Tick ==
    /\ recPc = "idle"
    /\ MayTick
    /\ expStatus = "pending"
    /\ recTodo' = InStatus({"pending"}) \ DispatchedIds
    /\ recPc' = "redispatch"
    /\ UNCHANGED <<transport, dbVars, diskVars, k8sVars, subVars, schVars, recPrior,
                   recRun, canVars, usrPc, memVars, bounds, history>>

(* No configuration, or one that does not parse: the run is failed.        *)
RedispatchFails(r) ==
    /\ recPc = "redispatch"
    /\ IsFirst(r, recTodo)
    /\ config[r] # "written"
    /\ UpdateRun(r, "failed")
    /\ recTodo' = recTodo \ {r}
    /\ UNCHANGED <<transport, expStatus, costed, spent, token, indexed, diskVars,
                   k8sVars, subVars, schVars, recPc, recPrior, recRun, canVars, usrPc,
                   memVars, bounds, history>>

UploadedAlready(r) == transport = "http" /\ token[r] = "consumed"

RedispatchSkips(r) ==
    /\ recPc = "redispatch"
    /\ IsFirst(r, recTodo)
    /\ config[r] = "written" /\ UploadedAlready(r)
    /\ recTodo' = recTodo \ {r}
    /\ UNCHANGED <<transport, dbVars, diskVars, k8sVars, subVars, schVars, recPc,
                   recPrior, recRun, canVars, usrPc, memVars, bounds, history>>

(* The Job is created; a 409 or another API error leaves things as they    *)
(* are.  The row stays "pending" either way.                               *)
Redispatch(r) ==
    /\ recPc = "redispatch"
    /\ IsFirst(r, recTodo)
    /\ config[r] = "written" /\ ~UploadedAlready(r)
    /\ token' = IF transport = "http" /\ token[r] = "none"
                THEN [token EXCEPT ![r] = "issued"] ELSE token
    /\ \/ CreateJob(r) /\ UNCHANGED faults
       \/ job[r] # "none" /\ UNCHANGED <<k8sVars, faults>>
       \/ job[r] = "none" /\ Fault /\ UNCHANGED k8sVars
    /\ recTodo' = recTodo \ {r}
    /\ UNCHANGED <<transport, expStatus, runStatus, costed, spent, indexed, diskVars,
                   subVars, schVars, recPc, recPrior, recRun, canVars, usrPc, memVars,
                   requests, restarts, history>>

(* Mutant: running runs do not hold up the report.                         *)
NonePending == InStatus({"pending"}) = {}

Drained == InStatus({"pending", "running"}) = {}

(* get_experiment_status: the counts decide, the status is not looked at.  *)
CountAfterRedispatch ==
    /\ recPc = "redispatch"
    /\ recTodo = {}
    /\ recPc' = IF expStatus # "absent" /\ Drained THEN "finalize" ELSE "list"
    /\ UNCHANGED <<transport, dbVars, diskVars, k8sVars, subVars, schVars, recTodo,
                   recPrior, recRun, canVars, usrPc, memVars, bounds, history>>

(* finalize_experiment: report rendered, then the status set.              *)
Finalize ==
    /\ recPc \in {"finalize", "refinalize"}
    /\ UpdateExperiment("completed")
    /\ finalized' = finalized + 1
    /\ recPc' = IF recPc = "finalize" THEN "list" ELSE "idle"
    /\ UNCHANGED <<transport, runStatus, costed, spent, token, indexed, diskVars,
                   k8sVars, subVars, schVars, recTodo, recPrior, recRun, canVars,
                   usrPc, memVars, bounds, published, losses>>

(* reconcile() raised at one of its database calls, the first included:    *)
(* _reconcile_once logs it and goes on to the scan.                        *)
ReconcileBreaks ==
    /\ \/ recPc = "idle" /\ MayTick /\ expStatus = "pending"
       \/ recPc = "redispatch"
          /\ \/ recTodo = {} \/ transport = "http"
             \/ \E r \in Runs : IsFirst(r, recTodo) /\ config[r] # "written"
       \/ recPc = "finalize"
    /\ Fault
    /\ recPc' = "list"
    /\ recTodo' = {}
    /\ UNCHANGED <<transport, dbVars, diskVars, k8sVars, subVars, schVars, recPrior,
                   recRun, canVars, usrPc, memVars, requests, restarts, history>>

(* Mutant: the status is not re-read before the runs are scanned.          *)
StatusUnchecked == expStatus # "absent"

(* "Re-check status in case another iteration already finalised it"        *)
StillActive == expStatus = "pending"

ListRunning ==
    /\ recPc = "list"
    /\ IF StillActive
       THEN /\ recPc' = "scan"
            /\ recTodo' = InStatus({"running"})
            /\ recPrior' = costed
       ELSE /\ recPc' = "idle"
            /\ UNCHANGED <<recTodo, recPrior>>
    /\ UNCHANGED <<transport, dbVars, diskVars, k8sVars, subVars, schVars, recRun,
                   canVars, usrPc, memVars, bounds, history>>

(* Where the loop body goes after the findings are indexed: to the cost,   *)
(* if the row had none when the runs were listed.                          *)
AfterIndex(r) == IF r \in recPrior THEN "scan" ELSE "charge"

(* Mutant: the cost is booked, the row not written.                        *)
IngestWithoutRow(r) ==
    /\ recPc = "scan"
    /\ IsFirst(r, recTodo)
    /\ result[r] \in Outcome
    /\ recRun' = r
    /\ recPc' = AfterIndex(r)
    /\ recTodo' = recTodo \ {r}
    /\ UNCHANGED <<transport, dbVars, diskVars, k8sVars, subVars, schVars, recPrior,
                   canVars, usrPc, memVars, bounds, history>>

(* Mutant: the cost comes before the findings.                             *)
IngestCostFirst(r) ==
    /\ recPc = "scan"
    /\ IsFirst(r, recTodo)
    /\ result[r] \in Outcome
    /\ UpdateRun(r, result[r])
    /\ costed' = IF runStatus[r] = "absent" THEN costed ELSE costed \cup {r}
    /\ recRun' = r
    /\ recPc' = AfterIndex(r)
    /\ recTodo' = recTodo \ {r}
    /\ UNCHANGED <<transport, expStatus, spent, token, indexed, diskVars, k8sVars,
                   subVars, schVars, recPrior, canVars, usrPc, memVars, bounds, history>>

(* A result that parses: the row takes its status and cost.                *)
IngestResult(r) ==
    /\ recPc = "scan"
    /\ IsFirst(r, recTodo)
    /\ result[r] \in Outcome
    /\ UpdateRun(r, result[r])
    /\ costed' = IF runStatus[r] = "absent" THEN costed ELSE costed \cup {r}
    /\ recRun' = r
    /\ recPc' = IF result[r] = "completed" THEN "index" ELSE AfterIndex(r)
    /\ recTodo' = recTodo \ {r}
    /\ UNCHANGED <<transport, expStatus, spent, token, indexed, diskVars, k8sVars,
                   subVars, schVars, recPrior, canVars, usrPc, memVars, bounds, history>>

(* A result that does not parse: the run is failed.                        *)
IngestTorn(r) ==
    /\ recPc = "scan"
    /\ IsFirst(r, recTodo)
    /\ result[r] = "torn"
    /\ UpdateRun(r, "failed")
    /\ recTodo' = recTodo \ {r}
    /\ UNCHANGED <<transport, expStatus, costed, spent, token, indexed, diskVars,
                   k8sVars, subVars, schVars, recPc, recPrior, recRun, canVars, usrPc,
                   memVars, bounds, history>>

(* No result file: the Job is asked about next, while the pod goes on.     *)
NoResultYet(r) ==
    /\ recPc = "scan"
    /\ IsFirst(r, recTodo)
    /\ result[r] = "absent"
    /\ recPc' = "job"
    /\ recRun' = r
    /\ recTodo' = recTodo \ {r}
    /\ UNCHANGED <<transport, dbVars, diskVars, k8sVars, subVars, schVars, recPrior,
                   canVars, usrPc, memVars, bounds, history>>

(* Mutant: only a Job that succeeded is terminal.                          *)
ShownSucceeded(r) == job[r] = "succeeded"

(* job.status.failed counts pods, the first of the two included.           *)
ShownTerminal(r) == job[r] \in {"retrying", "succeeded", "failed"}

(* Mutant: a Job that succeeded completes its run.                         *)
JobOutcomeTrusted(r) == IF job[r] = "succeeded" THEN "completed" ELSE "failed"

(* A run whose Job ended without a result file is failed.                  *)
JobOutcome(r) == "failed"

CheckJob ==
    LET r == recRun IN
    /\ recPc = "job"
    /\ recPc' = "scan"
    /\ \/ /\ r \notin Listed \/ ShownTerminal(r)
          /\ UpdateRun(r, JobOutcome(r))
          /\ UNCHANGED <<k8sVars, faults>>
       \/ /\ r \in Listed /\ job[r] = "active" /\ pod[r] = "lost"   \* _check_stalled_job
          /\ UpdateRun(r, "failed")
          /\ \/ /\ job' = [job EXCEPT ![r] = "none"]
                /\ pod' = [pod EXCEPT ![r] = "none"]
                /\ UNCHANGED <<orphan, faults>>
             \/ Fault /\ UNCHANGED k8sVars                   \* the Job is not deleted
       \/ /\ r \in Listed /\ job[r] = "active" /\ pod[r] # "lost"
          /\ UNCHANGED <<runStatus, k8sVars, faults>>
       \/ /\ Fault                                          \* logged, nothing done
          /\ UNCHANGED <<runStatus, k8sVars>>
    /\ UNCHANGED <<transport, expStatus, costed, spent, token, indexed, diskVars,
                   subVars, schVars, recTodo, recPrior, recRun, canVars, usrPc,
                   memVars, requests, restarts, history>>

(* upsert_findings_for_run                                                 *)
IndexFindings ==
    /\ recPc = "index"
    /\ indexed' = indexed \cup {recRun}
    /\ recPc' = AfterIndex(recRun)
    /\ UNCHANGED <<transport, expStatus, runStatus, costed, spent, token, diskVars,
                   k8sVars, subVars, schVars, recTodo, recPrior, recRun, canVars,
                   usrPc, memVars, bounds, history>>

(* It fails: logged, and the loop body goes on.                            *)
IndexFails ==
    /\ recPc = "index"
    /\ Fault
    /\ unindexed' = unindexed \cup {recRun}
    /\ recPc' = AfterIndex(recRun)
    /\ UNCHANGED <<transport, dbVars, diskVars, k8sVars, subVars, schVars, recTodo,
                   recPrior, recRun, canVars, usrPc, memVars, requests, restarts,
                   published, finalized, unbilled, capLost>>

(* record_job_cost: only the call that reaches the cap says so.            *)
Trips == CostCap > 0 /\ ~tripped /\ tracker + 1 >= CostCap
RecordJobCost == tracker' = tracker + 1 /\ tripped' = (tripped \/ Trips)

(* Mutant: the call that reaches the cap cancels and never books its cost. *)
ChargeUnlessCapped ==
    /\ recPc = "charge"
    /\ RecordJobCost
    /\ IF Trips
       THEN /\ recPc' = "cancel"
            /\ canPc' = [canPc EXCEPT !["rec"] = "begin"]
            /\ recTodo' = {}
            /\ UNCHANGED spent
       ELSE /\ recPc' = "scan"
            /\ spent' = IF expStatus = "absent" THEN spent ELSE spent + 1
            /\ UNCHANGED <<canPc, recTodo>>
    /\ UNCHANGED <<transport, expStatus, runStatus, costed, token, indexed, diskVars,
                   k8sVars, subVars, schVars, recPrior, recRun, canTodo, usrPc, bounds,
                   history>>

(* record_job_cost and add_experiment_spend; the call that reaches the cap *)
(* starts a cancellation and ends the scan.                                *)
Charge ==
    /\ recPc = "charge"
    /\ RecordJobCost
    /\ spent' = IF expStatus = "absent" THEN spent ELSE spent + 1
    /\ IF Trips
       THEN /\ recPc' = "cancel"
            /\ canPc' = [canPc EXCEPT !["rec"] = "begin"]
            /\ recTodo' = {}
       ELSE /\ recPc' = "scan"
            /\ UNCHANGED <<canPc, recTodo>>
    /\ UNCHANGED <<transport, expStatus, runStatus, costed, token, indexed, diskVars,
                   k8sVars, subVars, schVars, recPrior, recRun, canTodo, usrPc, bounds,
                   history>>

(* add_experiment_spend fails: the tracker has counted the cost, and the   *)
(* exception takes the scan with it, a cancellation due included.          *)
ChargeFails ==
    /\ recPc = "charge"
    /\ Fault
    /\ RecordJobCost
    /\ unbilled' = unbilled + 1
    /\ capLost' = (capLost \/ Trips)
    /\ recPc' = "idle"
    /\ recTodo' = {}
    /\ UNCHANGED <<transport, dbVars, diskVars, k8sVars, subVars, schVars, recPrior,
                   recRun, canVars, usrPc, requests, restarts, published, finalized,
                   unindexed>>

(* Another database call of the scan fails: the experiment is skipped until*)
(* the next tick.                                                          *)
ScanBreaks ==
    /\ \/ recPc \in {"list", "recount", "refinalize"}
       \/ recPc = "scan" /\ recTodo = {}
       \/ recPc = "scan" /\ \E r \in Runs : IsFirst(r, recTodo) /\ result[r] # "absent"
       \/ recPc = "cancel" /\ canPc["rec"] = "off"
    /\ Fault
    /\ recPc' = "idle"
    /\ recTodo' = {}
    /\ UNCHANGED <<transport, dbVars, diskVars, k8sVars, subVars, schVars, recPrior,
                   recRun, canVars, usrPc, memVars, requests, restarts, history>>

(* Mutant: "Re-check experiment status" is left out.                       *)
AfterScanUnchecked == "recount"

AfterScan == IF StillActive THEN "recount" ELSE "idle"

RecheckStatus ==
    /\ \/ recPc = "scan" /\ recTodo = {}
       \/ recPc = "cancel" /\ canPc["rec"] = "off"
    /\ recPc' = AfterScan
    /\ UNCHANGED <<transport, dbVars, diskVars, k8sVars, subVars, schVars, recTodo,
                   recPrior, recRun, canVars, usrPc, memVars, bounds, history>>

CountAfterScan ==
    /\ recPc = "recount"
    /\ recPc' = IF Drained THEN "refinalize" ELSE "idle"
    /\ UNCHANGED <<transport, dbVars, diskVars, k8sVars, subVars, schVars, recTodo,
                   recPrior, recRun, canVars, usrPc, memVars, bounds, history>>

ReconcileStep ==
    \/ Tick \/ CountAfterRedispatch \/ Finalize \/ ListRunning \/ CheckJob
    \/ IndexFindings \/ IndexFails \/ Charge \/ ChargeFails \/ RecheckStatus
    \/ CountAfterScan \/ ReconcileBreaks \/ ScanBreaks
    \/ \E r \in Runs : \/ RedispatchFails(r) \/ RedispatchSkips(r) \/ Redispatch(r)
                       \/ IngestResult(r) \/ IngestTorn(r) \/ NoResultYet(r)

-----------------------------------------------------------------------------
(* The coordinator process dies and starts again.  Memory, the scheduler   *)
(* thread included, is lost; a configuration being written may be torn.    *)
TornConfigs ==
    LET cuts == IF transport = "http" THEN {subNext} ELSE Runs IN
    IF subPc # "configs" THEN {config}
    ELSE {[r \in Runs |-> IF r < k THEN "written"
                          ELSE IF r = k /\ torn THEN "torn" ELSE "absent"]
            : k \in cuts, torn \in BOOLEAN}

Restart ==
    /\ restarts < MaxRestarts
    /\ restarts' = restarts + 1
    /\ config' \in TornConfigs
    /\ subPc' = IF subPc = "idle" THEN "idle" ELSE "done"
    /\ subNext' = 1
    /\ schPc' = "off" /\ schRun' = NoRun /\ schPending' = {} /\ schVisit' = {}
    /\ slots' = [m \in Models |-> 0]
    /\ tries' = [r \in Runs |-> 0]
    /\ recPc' = "idle" /\ recTodo' = {} /\ recPrior' = {} /\ recRun' = NoRun
    /\ canPc' = [c \in Callers |-> "off"]
    /\ canTodo' = [c \in Callers |-> {}]
    /\ usrPc' = "idle"
    /\ tracker' = 0 /\ tripped' = FALSE
    /\ finalized' = 0
    /\ UNCHANGED <<transport, dbVars, result, k8sVars, requests, faults, published,
                   losses>>

Next ==
    \/ SubmitStep \/ ScheduleStep \/ ReconcileStep \/ RequestStep \/ Restart
    \/ \E c \in Callers : CancelStep(c)
    \/ \E r \in Runs : PodStep(r)

Spec == Init /\ [][Next]_vars

(* The event loop and the thread run whenever they can; the cluster starts *)
(* pods, notices dead ones and enforces active_deadline_seconds.  Requests *)
(* and restarts may never come.                                            *)
Fairness ==
    /\ WF_vars(SubmitStep) /\ WF_vars(ScheduleStep) /\ WF_vars(ReconcileStep)
    /\ \A c \in Callers : WF_vars(CancelStep(c))
    /\ \A r \in Runs : WF_vars(PodStep(r))
    /\ WF_vars(CancelAnswered \/ RevokeTokens \/ RemoveOutputs \/ UnlinkConfigs
                \/ DeleteRows)

FairSpec == Spec /\ Fairness

-----------------------------------------------------------------------------
(* A run is reported completed only if one of its workers published a      *)
(* complete result that says so: no race of scan, cancel, delete, retry    *)
(* and restart turns a Job's state or a half-written file into a success.  *)
CompletedWasPublished ==
    \A r \in Runs : runStatus[r] = "completed" => "completed" \in published[r]

(* spent_usd against the runs that carry a cost: no run is charged twice,  *)
(* and each restart and each failed add_experiment_spend loses at most one *)
(* charge; the run in hand is the only other that may be missing.          *)
Booking == recPc \in {"index", "charge"}

SpendAgrees ==
    /\ spent <= Cardinality(costed)
    /\ Cardinality(costed) <= spent + unbilled + restarts + (IF Booking THEN 1 ELSE 0)

(* While the coordinator stays up and no failing call takes the cap's      *)
(* cancellation with it, an experiment whose spent_usd reached the cap is  *)
(* not finalized, by the scan that charged the last run or by a later one. *)
CappedNotCompleted ==
    CostCap > 0 /\ spent >= CostCap /\ restarts = 0 /\ ~capLost
        => expStatus # "completed"

(* Without a restart the findings of every completed run are searchable    *)
(* unless writing them failed, also those of the run whose cost hits the   *)
(* cap and of one whose charge fails.                                      *)
CompletedIsIndexed ==
    restarts = 0 =>
        \A r \in Runs : runStatus[r] = "completed" =>
            r \in indexed \cup unindexed \/ (recPc = "index" /\ recRun = r)

(* "Safe to call multiple times; will not double-finalize"                 *)
FinalizedOnce == finalized <= 1

(* Left alone, with one experiment dispatched between two ticks, the       *)
(* coordinator keeps what the experiments page promises.                   *)
Board == INSTANCE ExperimentBoard
            WITH rows <- runStatus, status <- expStatus, bill <- spent
ImplementsBoard == Board!BoardSpec

(* Every submitted experiment reaches a terminal status.                   *)
ExperimentEnds == (expStatus = "pending") ~> (expStatus \in ExpTerminal \cup {"absent"})

=============================================================================
