---------------------------- MODULE UploadCommit ----------------------------
(***************************************************************************)
(* HTTP result transport of one run: the worker's upload loop              *)
(* (worker.py, _upload_artifacts), the coordinator's upload handler        *)
(* (coordinator.py, handle_run_result_upload) with the single-use token    *)
(* (db.py, consume_upload_token), and what else touches the same token,    *)
(* row and directories: delete_experiment, the retention sweep and a       *)
(* coordinator restart.                                                    *)
(*                                                                         *)
(* A step ends where the handler awaits, so every interleaving of the      *)
(* coordinator's event loop is a behaviour.  The bytes of an upload are    *)
(* abstracted to the request they came with: `final' names the request     *)
(* whose directory was renamed into place.                                 *)
(***************************************************************************)
EXTENDS Naturals, FiniteSets

CONSTANTS
    Replicas,       \* worker pods of the run: the Job's retries and lost pods
    MaxAttempts,    \* _upload_artifacts: max_attempts (5 in the code)
    MaxRestarts,    \* bound on coordinator restarts
    NoResult        \* no outputs/<experiment>/<run> directory

Requests == Replicas \X (1..MaxAttempts)

ASSUME UploadAssumption ==
    /\ MaxAttempts \in Nat \ {0}
    /\ MaxRestarts \in Nat
    /\ NoResult \notin Requests

VARIABLES
    token,      \* the run_upload_tokens row: "none", "issued" or "consumed"
    runRow,     \* the runs row exists
    staging,    \* requests whose .staging-<run>-<uuid> directory exists
    final,      \* the request committed at outputs/<experiment>/<run>
    handler,    \* where each request's handler is
    reply,      \* the response each handler sent
    worker,     \* where each worker replica is
    attempt,    \* the attempt a replica is at, from 1
    deleter,    \* where delete_experiment is
    restarts,
    authorised  \* ghost: requests for which consume_upload_token was true

dbVars     == <<token, runRow>>
diskVars   == <<staging, final>>
serverVars == <<handler, reply>>
clientVars == <<worker, attempt>>
vars == <<dbVars, diskVars, serverVars, clientVars, deleter, restarts, authorised>>

(* "aborted": the coordinator died under the handler.                      *)
HandlerPc == {"none", "select", "update", "lookup", "stage", "stream", "done", "aborted"}
(* Response classes the worker tells apart: 2xx, 403/409, other 4xx, 5xx.  *)
ReplyCode == {"none", "ok", "refused", "client_error", "server_error"}
WorkerPc  == {"review", "send", "wait", "exit0", "exit1"}
DeleterPc == {"idle", "revoked", "removed", "deleted"}

TypeOK ==
    /\ token \in {"none", "issued", "consumed"}
    /\ runRow \in BOOLEAN
    /\ staging \subseteq Requests
    /\ final \in Requests \cup {NoResult}
    /\ handler \in [Requests -> HandlerPc]
    /\ reply \in [Requests -> ReplyCode]
    /\ worker \in [Replicas -> WorkerPc]
    /\ attempt \in [Replicas -> 1..MaxAttempts]
    /\ deleter \in DeleterPc
    /\ restarts \in 0..MaxRestarts
    /\ authorised \subseteq Requests

Init ==
    /\ token = "issued"     \* submit_experiment issued it before any Job exists
    /\ runRow = TRUE
    /\ staging = {}
    /\ final = NoResult
    /\ handler = [q \in Requests |-> "none"]
    /\ reply = [q \in Requests |-> "none"]
    /\ worker = [w \in Replicas |-> "review"]
    /\ attempt = [w \in Replicas |-> 1]
    /\ deleter = "idle"
    /\ restarts = 0
    /\ authorised = {}

-----------------------------------------------------------------------------
(* The worker. *)

(* The review is over and its artifacts are in the pod's temporary         *)
(* directory.                                                              *)
FinishReview(w) ==
    /\ worker[w] = "review"
    /\ worker' = [worker EXCEPT ![w] = "send"]
    /\ UNCHANGED <<dbVars, diskVars, serverVars, attempt, deleter, restarts, authorised>>

(* client.post: the request leaves the worker.                             *)
Post(w) ==
    LET q == <<w, attempt[w]>> IN
    /\ worker[w] = "send"
    /\ worker' = [worker EXCEPT ![w] = "wait"]
    /\ handler' = [handler EXCEPT ![q] = "select"]
    /\ UNCHANGED <<dbVars, diskVars, reply, attempt, deleter, restarts, authorised>>

(* Mutant: `while True' without a counter.                                 *)
RetryForever(w) ==
    /\ worker' = [worker EXCEPT ![w] = "send"]
    /\ UNCHANGED attempt

(* The tail of the loop: another attempt, or RuntimeError and exit code 1. *)
RetryOrGiveUp(w) ==
    IF attempt[w] < MaxAttempts
    THEN /\ attempt' = [attempt EXCEPT ![w] = @ + 1]
         /\ worker' = [worker EXCEPT ![w] = "send"]
    ELSE /\ worker' = [worker EXCEPT ![w] = "exit1"]
         /\ UNCHANGED attempt

ReceiveReply(w) ==
    LET code == reply[<<w, attempt[w]>>] IN
    /\ worker[w] = "wait"
    /\ \/ /\ code \in {"ok", "refused"}
          /\ worker' = [worker EXCEPT ![w] = "exit0"]
          /\ UNCHANGED attempt
       \/ /\ code = "client_error"
          /\ worker' = [worker EXCEPT ![w] = "exit1"]
          /\ UNCHANGED attempt
       \/ /\ code = "server_error"
          /\ RetryOrGiveUp(w)
    /\ UNCHANGED <<dbVars, diskVars, serverVars, deleter, restarts, authorised>>

(* httpx.TransportError: the connection broke, or no answer came within    *)
(* the timeout.  What the handler did or will do is unknown to the worker. *)
TransportError(w) ==
    /\ worker[w] = "wait"
    /\ RetryOrGiveUp(w)
    /\ UNCHANGED <<dbVars, diskVars, serverVars, deleter, restarts, authorised>>

(* The pod is evicted or runs out of memory.                               *)
PodLost(w) ==
    /\ worker[w] \in {"review", "send", "wait"}
    /\ worker' = [worker EXCEPT ![w] = "exit1"]
    /\ UNCHANGED <<dbVars, diskVars, serverVars, attempt, deleter, restarts, authorised>>

-----------------------------------------------------------------------------
(* The upload handler, one step per await. *)

Answer(q, code) ==
    /\ handler' = [handler EXCEPT ![q] = "done"]
    /\ reply' = [reply EXCEPT ![q] = code]

(* consume_upload_token: the SELECT and the comparison of the hashes.      *)
ConsumeSelect(q) ==
    /\ handler[q] = "select"
    /\ IF token = "issued"
       THEN /\ handler' = [handler EXCEPT ![q] = "update"]
            /\ UNCHANGED reply
       ELSE Answer(q, "refused")
    /\ UNCHANGED <<dbVars, diskVars, clientVars, deleter, restarts, authorised>>

(* Mutant: the UPDATE matches the row without `consumed_at IS NULL'.       *)
UpdateMatchesAnyRow == token # "none"

(* The WHERE clause of the UPDATE.                                         *)
UpdateMatches == token = "issued"

(* Mutant: db.commit() is forgotten after the UPDATE.                      *)
ConsumeUncommitted(q) ==
    /\ handler[q] = "update"
    /\ handler' = [handler EXCEPT ![q] = "lookup"]
    /\ authorised' = authorised \cup {q}
    /\ UNCHANGED <<dbVars, diskVars, reply, clientVars, deleter, restarts>>

(* consume_upload_token: UPDATE ... WHERE consumed_at IS NULL; rowcount    *)
(* decides.                                                                *)
ConsumeUpdate(q) ==
    /\ handler[q] = "update"
    /\ IF UpdateMatches
       THEN /\ token' = "consumed"
            /\ authorised' = authorised \cup {q}
            /\ handler' = [handler EXCEPT ![q] = "lookup"]
            /\ UNCHANGED reply
       ELSE /\ Answer(q, "refused")
            /\ UNCHANGED <<token, authorised>>
    /\ UNCHANGED <<runRow, diskVars, clientVars, deleter, restarts>>

(* db.get_run: 404 when the experiment was deleted meanwhile.              *)
LookupRun(q) ==
    /\ handler[q] = "lookup"
    /\ IF runRow
       THEN /\ handler' = [handler EXCEPT ![q] = "stage"]
            /\ UNCHANGED reply
       ELSE Answer(q, "client_error")
    /\ UNCHANGED <<dbVars, diskVars, clientVars, deleter, restarts, authorised>>

(* staging_dir.mkdir(parents=True), then the wait for the body.            *)
OpenStaging(q) ==
    /\ handler[q] = "stage"
    /\ staging' = staging \cup {q}
    /\ handler' = [handler EXCEPT ![q] = "stream"]
    /\ UNCHANGED <<dbVars, final, reply, clientVars, deleter, restarts, authorised>>

(* Mutant: an error path without shutil.rmtree(staging_dir).               *)
StagingKept(q) == staging

(* Every path out of the handler past OpenStaging removes or renames it.   *)
StagingWithout(q) == staging \ {q}

(* The body ends early or breaks a size cap, run_result.json is missing,   *)
(* or the staging directory was removed under the writer: 400, 413, 422.   *)
RejectBody(q) ==
    /\ handler[q] = "stream"
    /\ staging' = StagingWithout(q)
    /\ Answer(q, "client_error")
    /\ UNCHANGED <<dbVars, final, clientVars, deleter, restarts, authorised>>

(* The last byte is in: from there to the answer nothing is awaited.       *)
CommitResult(q) ==
    /\ handler[q] = "stream"
    /\ staging' = StagingWithout(q)
    /\ \/ /\ final # NoResult
          /\ Answer(q, "refused")
          /\ UNCHANGED final
       \/ /\ final = NoResult
          /\ q \in staging
          /\ final' = q
          /\ Answer(q, "ok")
       \/ /\ final = NoResult           \* rename and copytree both fail
          /\ q \notin staging
          /\ Answer(q, "server_error")
          /\ UNCHANGED final
    /\ UNCHANGED <<dbVars, clientVars, deleter, restarts, authorised>>

-----------------------------------------------------------------------------
(* The rest of the coordinator. *)

(* delete_experiment, after its cancel_experiment: the Job is gone but its *)
(* pods are not (the delete call names no propagation policy).             *)
RevokeTokens ==
    /\ deleter = "idle"
    /\ deleter' = "revoked"
    /\ token' = "none"
    /\ UNCHANGED <<runRow, diskVars, serverVars, clientVars, restarts, authorised>>

RemoveOutputs ==
    /\ deleter = "revoked"
    /\ deleter' = "removed"
    /\ staging' = {}
    /\ final' = NoResult
    /\ UNCHANGED <<dbVars, serverVars, clientVars, restarts, authorised>>

DeleteRows ==
    /\ deleter = "removed"
    /\ deleter' = "deleted"
    /\ token' = "none"
    /\ runRow' = FALSE
    /\ UNCHANGED <<diskVars, serverVars, clientVars, restarts, authorised>>

(* Mutant: no age check.                                                   *)
StaleAtOnce(q) == TRUE

(* Mutant: only directories of handlers that ended in order are swept.     *)
StaleIfAnswered(q) == handler[q] = "done"

(* Older than an hour, which no upload in progress is.                     *)
Stale(q) == handler[q] # "stream"

(* retention_cleanup_loop: staging directories not touched for an hour.    *)
(* Assumed: the experiment is younger than the retention days, after which *)
(* its outputs go too, and holds no exported bundle, which exempts it.     *)
ScrubStaging ==
    /\ \E q \in staging : Stale(q)
    /\ staging' = {q \in staging : ~Stale(q)}
    /\ UNCHANGED <<dbVars, final, serverVars, clientVars, deleter, restarts, authorised>>

(* The coordinator process dies: handlers end without an answer and the    *)
(* directories stay.                                                       *)
InProgress(q) == handler[q] \notin {"none", "done", "aborted"}

Restart ==
    /\ restarts < MaxRestarts
    /\ restarts' = restarts + 1
    /\ handler' = [q \in Requests |-> IF InProgress(q) THEN "aborted" ELSE handler[q]]
    /\ deleter' = IF deleter = "deleted" THEN deleter ELSE "idle"
    /\ UNCHANGED <<dbVars, diskVars, reply, clientVars, authorised>>

-----------------------------------------------------------------------------
WorkerStep(w) ==
    FinishReview(w) \/ Post(w) \/ ReceiveReply(w) \/ TransportError(w) \/ PodLost(w)

HandlerStep(q) ==
    \/ ConsumeSelect(q) \/ ConsumeUpdate(q) \/ LookupRun(q) \/ OpenStaging(q)
    \/ RejectBody(q) \/ CommitResult(q)

DeleteStep == RevokeTokens \/ RemoveOutputs \/ DeleteRows

Next ==
    \/ \E w \in Replicas : WorkerStep(w)
    \/ \E q \in Requests : HandlerStep(q)
    \/ DeleteStep \/ ScrubStaging \/ Restart

Spec == Init /\ [][Next]_vars

(* The worker's loop has a timeout on every request and sleeps a bounded   *)
(* time; the event loop runs every handler; the sweep is hourly.  Whoever  *)
(* deletes, kills pods or restarts the coordinator owes nothing.           *)
Fairness ==
    /\ \A w \in Replicas :
        WF_vars(FinishReview(w) \/ Post(w) \/ ReceiveReply(w) \/ TransportError(w))
    /\ \A q \in Requests : WF_vars(HandlerStep(q))
    /\ WF_vars(ScrubStaging)

FairSpec == Spec /\ Fairness

-----------------------------------------------------------------------------
(* Of all the requests ever made with the run's token, retries and replicas *)
(* racing between the SELECT and the UPDATE included, at most one gets past *)
(* consume_upload_token.                                                    *)
SingleUse == Cardinality(authorised) <= 1

(* A handler that ends, on any path, takes its staging directory with it:  *)
(* what is left on disk is of an upload in progress or one that a restart  *)
(* cut off.                                                                *)
NoLeakedStaging == \A q \in staging : handler[q] \in {"stream", "aborted"}

(* A worker that exits 0 did not do so for nothing: its run's token is     *)
(* spent, or the experiment was deleted.  (A replica that finds the token  *)
(* spent takes this for a delivered result.)                               *)
ExitZeroMeansSpent ==
    (\E w \in Replicas : worker[w] = "exit0") => token # "issued"

(* A spent token without a result is the mark of a fault: the one request  *)
(* that spent it is still in progress, was cut off by a restart, or brought *)
(* a body that the handler refused.  Nothing else the coordinator does     *)
(* loses a result, the staging sweep included.                             *)
Faulted(q) == handler[q] = "aborted" \/ reply[q] = "client_error"

ResultLostOnlyByFault ==
    token = "consumed" /\ final = NoResult =>
        \E q \in authorised : InProgress(q) \/ Faulted(q)

(* Every replica's upload loop ends.                                       *)
WorkersExit == \A w \in Replicas : <>(worker[w] \in {"exit0", "exit1"})

(* Directories of broken uploads do not pile up.                           *)
StagingReclaimed == (staging # {}) ~> (staging = {})
=============================================================================
