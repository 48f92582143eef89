------------------------ MODULE ExperimentLifecycleProofs ------------------------
(***************************************************************************)
(* Safety of ExperimentLifecycle for any number of runs, any caps and any  *)
(* environment: early ticks, requests, restarts and faults without bound.  *)
(***************************************************************************)
EXTENDS ExperimentLifecycle, FiniteSetTheorems, TLAPS

(* A step that names a run in a variable has one there; a run that used up *)
(* its attempts is out of the scheduler's hands.                           *)
RunInHand ==
    /\ schPc # "off" => subPc = "done"
    /\ subPc # "done" => \A r \in Runs : tries[r] = 0
    /\ \A r \in schPending : tries[r] < MaxScheduleAttempts
    /\ schPc = "created" => schRun \in schVisit
    /\ recPc \in {"job", "index", "charge"} => recRun \in Runs

TypeInv == TypeOK /\ RunInHand

LEMMA RunNumbers == 1 \in Runs /\ \A k \in Runs : k < N => k + 1 \in Runs
  BY LifecycleAssumption DEF Runs

LEMMA InitType == Init => TypeInv
<1> SUFFICES ASSUME Init PROVE TypeInv
  OBVIOUS
<1> USE LifecycleAssumption, RunNumbers
    DEF Init, RunTerminal, ExpTerminal, Outcome, NoRun, MaxScheduleAttempts
<1>1. /\ tripped \in BOOLEAN /\ capLost \in BOOLEAN
      /\ canTodo \in [Callers -> SUBSET Runs] /\ published \in [Runs -> SUBSET Outcome]
  OBVIOUS
<1>2. RunInHand
  BY DEF RunInHand
<1> QED BY <1>1, <1>2 DEF TypeInv, TypeOK

(* Every action keeps the type.                                            *)
LEMMA TypeStep ==
  ASSUME TypeInv, [Next]_vars
  PROVE  TypeInv'
<1> USE LifecycleAssumption DEF TypeInv, TypeOK, RunInHand, RunTerminal,
       ExpTerminal, Outcome, MaxScheduleAttempts, dbVars, diskVars, k8sVars, subVars,
       schVars, recVars, canVars, memVars, bounds, history, losses
<1>1. CASE SubmitStep
  <2>1. CASE Submit
    BY <2>1 DEF Submit
  <2>2. CASE CreateRunRow
    BY <2>2, RunNumbers DEF CreateRunRow
  <2>3. CASE WriteConfigs
    <3>1. tripped' \in BOOLEAN
      BY <2>3 DEF WriteConfigs, StartThread
    <3> QED BY <2>3, <3>1, RunNumbers DEF WriteConfigs, StartThread
  <2>4. CASE IssueTokenAndWriteConfig
    <3>1. CASE subNext < N
      BY <2>4, <3>1, RunNumbers DEF IssueTokenAndWriteConfig
    <3>2. CASE ~(subNext < N)
      <4>1. tripped' \in BOOLEAN
        BY <2>4, <3>2 DEF IssueTokenAndWriteConfig, StartThread
      <4> QED BY <2>4, <3>2, <4>1 DEF IssueTokenAndWriteConfig, StartThread
    <3> QED BY <3>1, <3>2
  <2> QED BY <1>1, <2>1, <2>2, <2>3, <2>4 DEF SubmitStep
<1>2. CASE ScheduleStep
  <2>1. ASSUME NEW r \in Runs, ScheduleRun(r)
         PROVE  TypeInv'
    BY <2>1 DEF ScheduleRun, CreateJob, IsFirst, Eligible
  <2>2. ASSUME NEW r \in Runs, ScheduleRunFails(r)
         PROVE  TypeInv'
    <3>1. faults' \in 0..MaxFaults
      BY <2>2 DEF ScheduleRunFails, AttemptFailed, Faults
    <3>2. r \in schVisit /\ tries[r] \in 0..2
      BY <2>2 DEF ScheduleRunFails, IsFirst, Eligible
    <3>3. /\ runStatus' \in [Runs -> {"absent", "pending", "running"} \cup RunTerminal]
          /\ schPending' \subseteq Runs /\ schVisit' \subseteq schPending'
      BY <2>2 DEF ScheduleRunFails, AttemptFailed, UpdateRun, Fault, Faults
    <3>4. /\ tries' = [tries EXCEPT ![r] = @ + 1]
          /\ tries' \in [Runs -> 0..MaxScheduleAttempts]
      BY <2>2, <3>2 DEF ScheduleRunFails, AttemptFailed
    <3>5. \A x \in schPending' : tries'[x] < MaxScheduleAttempts
      BY <2>2, <3>2, <3>4 DEF ScheduleRunFails, AttemptFailed
    <3>6. tries' = tries \/ subPc' = "done"
      BY <2>2 DEF ScheduleRunFails
    <3> QED BY <2>2, <3>1, <3>3, <3>4, <3>5, <3>6 DEF ScheduleRunFails
  <2>3. CASE MarkRunning
    BY <2>3 DEF MarkRunning, UpdateRun
  <2>4. CASE MarkRunningFails
    <3>1. faults' \in 0..MaxFaults
      BY <2>4 DEF MarkRunningFails, AttemptFailed, Faults
    <3>2. schRun \in schVisit /\ tries[schRun] \in 0..2
      BY <2>4 DEF MarkRunningFails
    <3>3. /\ runStatus' \in [Runs -> {"absent", "pending", "running"} \cup RunTerminal]
          /\ schPending' \subseteq Runs /\ schVisit' \subseteq schPending'
      BY <2>4 DEF MarkRunningFails, AttemptFailed, UpdateRun
    <3>4. /\ tries' = [tries EXCEPT ![schRun] = @ + 1]
          /\ tries' \in [Runs -> 0..MaxScheduleAttempts]
      BY <2>4, <3>2 DEF MarkRunningFails, AttemptFailed
    <3>5. \A x \in schPending' : tries'[x] < MaxScheduleAttempts
      BY <2>4, <3>2, <3>4 DEF MarkRunningFails, AttemptFailed
    <3>6. tries' = tries \/ subPc' = "done"
      BY <2>4 DEF MarkRunningFails
    <3> QED BY <2>4, <3>1, <3>3, <3>4, <3>5, <3>6 DEF MarkRunningFails
  <2>5. CASE NextRound
    BY <2>5 DEF NextRound
  <2> QED BY <1>2, <2>1, <2>2, <2>3, <2>4, <2>5 DEF ScheduleStep
<1>3. CASE ReconcileStep
  <2>1. CASE Tick
    BY <2>1 DEF Tick, InStatus, DispatchedIds
  <2>2. CASE CountAfterRedispatch
    BY <2>2 DEF CountAfterRedispatch
  <2>3. CASE Finalize
    BY <2>3 DEF Finalize, UpdateExperiment
  <2>4. CASE ListRunning
    BY <2>4 DEF ListRunning, InStatus, StillActive
  <2>5. CASE CheckJob
    BY <2>5 DEF CheckJob, UpdateRun, JobOutcome, Fault, Faults
  <2>6. CASE IndexFindings
    BY <2>6 DEF IndexFindings, AfterIndex
  <2>7. CASE Charge
    BY <2>7 DEF Charge, RecordJobCost, Trips
  <2>8. CASE RecheckStatus
    BY <2>8 DEF RecheckStatus, AfterScan, StillActive
  <2>9. CASE CountAfterScan
    BY <2>9 DEF CountAfterScan
  <2>10. ASSUME NEW r \in Runs, RedispatchFails(r)
         PROVE  TypeInv'
    BY <2>10 DEF RedispatchFails, UpdateRun
  <2>11. ASSUME NEW r \in Runs, RedispatchSkips(r)
         PROVE  TypeInv'
    BY <2>11 DEF RedispatchSkips
  <2>12. ASSUME NEW r \in Runs, Redispatch(r)
         PROVE  TypeInv'
    BY <2>12 DEF Redispatch, CreateJob, Fault, Faults
  <2>13. ASSUME NEW r \in Runs, IngestResult(r)
         PROVE  TypeInv'
    BY <2>13 DEF IngestResult, UpdateRun, AfterIndex, IsFirst
  <2>14. ASSUME NEW r \in Runs, IngestTorn(r)
         PROVE  TypeInv'
    BY <2>14 DEF IngestTorn, UpdateRun
  <2>15. ASSUME NEW r \in Runs, NoResultYet(r)
         PROVE  TypeInv'
    BY <2>15 DEF NoResultYet, IsFirst
  <2>16. CASE IndexFails
    BY <2>16 DEF IndexFails, AfterIndex, Fault, Faults
  <2>17. CASE ChargeFails
    <3>1. capLost' \in BOOLEAN /\ tripped' \in BOOLEAN
      BY <2>17 DEF ChargeFails, RecordJobCost
    <3> QED BY <2>17, <3>1 DEF ChargeFails, RecordJobCost, Fault, Faults
  <2>18. CASE ScanBreaks
    BY <2>18 DEF ScanBreaks, Fault, Faults
  <2>19. CASE ReconcileBreaks
    BY <2>19 DEF ReconcileBreaks, MayTick, Fault, Faults
  <2> QED BY <1>3, <2>1, <2>2, <2>3, <2>4, <2>5, <2>6, <2>7, <2>8, <2>9, <2>10,
     <2>11, <2>12, <2>13, <2>14, <2>15, <2>16, <2>17, <2>18, <2>19 DEF ReconcileStep
<1>4. CASE RequestStep
  <2>1. CASE Request
    <3>1. usrPc' \in {"idle", "cancel", "delete", "remove", "unlink", "rows"}
      BY <2>1 DEF Request
    <3>2. requests' \in 0..MaxRequests
      BY <2>1 DEF Request
    <3>3. canPc' \in [Callers -> {"off", "begin", "jobs", "flip", "close"}]
      BY <2>1 DEF Request
    <3> QED BY <2>1, <3>1, <3>2, <3>3 DEF Request
  <2>2. CASE CancelAnswered
    BY <2>2 DEF CancelAnswered
  <2>3. CASE RevokeTokens
    BY <2>3 DEF RevokeTokens
  <2>4. CASE RemoveOutputs
    BY <2>4 DEF RemoveOutputs
  <2>5. CASE UnlinkConfigs
    BY <2>5 DEF UnlinkConfigs
  <2>6. CASE DeleteRows
    BY <2>6 DEF DeleteRows
  <2>7. CASE DeleteBreaks
    BY <2>7 DEF DeleteBreaks, Fault, Faults
  <2> QED BY <1>4, <2>1, <2>2, <2>3, <2>4, <2>5, <2>6, <2>7 DEF RequestStep
<1>5. CASE Restart
  <2>1. config' \in [Runs -> {"absent", "torn", "written"}]
    BY <1>5 DEF Restart, TornConfigs
  <2>2. tripped' \in BOOLEAN /\ canTodo' \in [Callers -> SUBSET Runs]
    BY <1>5 DEF Restart
  <2> QED BY <1>5, <2>1, <2>2, RunNumbers DEF Restart, NoRun
<1>6. ASSUME NEW c \in Callers, CancelStep(c)
      PROVE  TypeInv'
  <2>1. CASE CancelBegin(c)
    BY <2>1 DEF CancelBegin
  <2>2. CASE CancelJobs(c)
    <3>1. /\ job' \in [Runs -> {"none", "active", "retrying", "succeeded", "failed"}]
          /\ pod' \in [Runs -> {"none", "running", "writing", "written", "lost"}]
          /\ orphan' \subseteq Runs
      <4> PICK gone \in SUBSET Runs :
                /\ job' = [x \in Runs |-> IF x \in gone THEN "none" ELSE job[x]]
                /\ pod' = [x \in Runs |-> IF x \in gone THEN "none" ELSE pod[x]]
                /\ \E left \in SUBSET gone : orphan' = orphan \cup left
        BY <2>2 DEF CancelJobs, Listed
      <4> QED OBVIOUS
    <3>2. faults' \in 0..MaxFaults
      BY <2>2 DEF CancelJobs, Fault, Faults
    <3>3. canTodo' \in [Callers -> SUBSET Runs]
      BY <2>2 DEF CancelJobs, InStatus
    <3> QED BY <2>2, <3>1, <3>2, <3>3 DEF CancelJobs
  <2>3. CASE CancelClose(c)
    BY <2>3 DEF CancelClose, UpdateExperiment
  <2>4. ASSUME NEW r \in Runs, CancelFlip(c, r)
         PROVE  TypeInv'
    BY <2>4 DEF CancelFlip, UpdateRun
  <2>5. CASE CancelBreaks(c)
    <3>1. capLost' \in BOOLEAN
      BY <2>5 DEF CancelBreaks
    <3>2. canPc' \in [Callers -> {"off", "begin", "jobs", "flip", "close"}]
      BY <2>5 DEF CancelBreaks
    <3> QED BY <2>5, <3>1, <3>2 DEF CancelBreaks, Fault, Faults
  <2> QED BY <1>6, <2>1, <2>2, <2>3, <2>4, <2>5 DEF CancelStep
<1>7. ASSUME NEW r \in Runs, PodStep(r)
      PROVE  TypeInv'
  <2>1. CASE PodStart(r)
    BY <2>1 DEF PodStart
  <2>2. CASE PodFails(r)
    BY <2>2 DEF PodFails, Fault, Faults
  <2>3. CASE PodLost(r)
    BY <2>3 DEF PodLost, Fault, Faults
  <2>4. CASE DeadlineExceeded(r)
    BY <2>4 DEF DeadlineExceeded, Fault, Faults
  <2>5. CASE PodWrite(r)
    BY <2>5 DEF PodWrite
  <2>6. CASE UploadBroken(r)
    BY <2>6 DEF UploadBroken, Fault, Faults
  <2>7. CASE PodExit(r)
    BY <2>7 DEF PodExit
  <2>8. CASE OrphanDies(r)
    BY <2>8 DEF OrphanDies
  <2>9. ASSUME NEW o \in Outcome, PodPublish(r, o)
         PROVE  TypeInv'
    BY <2>9 DEF PodPublish
  <2>10. ASSUME NEW o \in Outcome, OrphanPublish(r, o)
         PROVE  TypeInv'
    BY <2>10 DEF OrphanPublish
  <2> QED BY <1>7, <2>1, <2>2, <2>3, <2>4, <2>5, <2>6, <2>7, <2>8, <2>9, <2>10 DEF
     PodStep
<1>8. CASE UNCHANGED vars
  BY <1>8 DEF vars
<1> QED BY <1>1, <1>2, <1>3, <1>4, <1>5, <1>6, <1>7, <1>8 DEF Next


LEMMA TypeInvariance == Spec => []TypeInv
<1>1. TypeInv /\ [Next]_vars => TypeInv'
  BY TypeStep
<1> QED BY InitType, <1>1, PTL DEF Spec

(* Every variable keeps its type: no interleaving of the coordinator's     *)
(* tasks with the scheduler thread leads a status outside its lattice or a *)
(* run beyond its three attempts.                                          *)
THEOREM TypeCorrect == Spec => []TypeOK
<1>1. TypeInv => TypeOK
  BY DEF TypeInv
<1> QED BY TypeInvariance, <1>1, PTL

-----------------------------------------------------------------------------
(* A complete result on disk was published by a worker, and a run's row    *)
(* says "completed" only after such a result.                              *)
Backed == \A r \in Runs : result[r] = "completed" => "completed" \in published[r]
PublishedInv == Backed /\ CompletedWasPublished

(* Only PodPublish and OrphanPublish write a complete result.              *)
LEMMA PublishedStep ==
  ASSUME TypeInv, PublishedInv, [Next]_vars
  PROVE  PublishedInv'
<1> USE LifecycleAssumption DEF TypeInv, TypeOK, RunTerminal, ExpTerminal, Outcome,
       PublishedInv, Backed, CompletedWasPublished, dbVars, diskVars, k8sVars, subVars,
       schVars, recVars, canVars, memVars, bounds, history, losses
<1>1. CASE SubmitStep
  <2>1. CASE Submit
    BY <2>1 DEF Submit
  <2>2. CASE CreateRunRow
    BY <2>2 DEF CreateRunRow
  <2>3. CASE WriteConfigs
    BY <2>3 DEF WriteConfigs, StartThread
  <2>4. CASE IssueTokenAndWriteConfig
    BY <2>4 DEF IssueTokenAndWriteConfig, StartThread
  <2> QED BY <1>1, <2>1, <2>2, <2>3, <2>4 DEF SubmitStep
<1>2. CASE ScheduleStep
  <2>1. ASSUME NEW r \in Runs, ScheduleRun(r)
         PROVE  PublishedInv'
    BY <2>1 DEF ScheduleRun, CreateJob, IsFirst, Eligible
  <2>2. ASSUME NEW r \in Runs, ScheduleRunFails(r)
         PROVE  PublishedInv'
    BY <2>2 DEF ScheduleRunFails, Fault, Faults, AttemptFailed, UpdateRun, IsFirst, Eligible
  <2>3. CASE MarkRunning
    BY <2>3 DEF MarkRunning, UpdateRun
  <2>4. CASE MarkRunningFails
    BY <2>4 DEF MarkRunningFails, Fault, Faults, AttemptFailed, UpdateRun
  <2>5. CASE NextRound
    BY <2>5 DEF NextRound
  <2> QED BY <1>2, <2>1, <2>2, <2>3, <2>4, <2>5 DEF ScheduleStep
<1>3. CASE ReconcileStep
  <2>1. CASE Tick
    BY <2>1 DEF Tick, InStatus, DispatchedIds
  <2>2. CASE CountAfterRedispatch
    BY <2>2 DEF CountAfterRedispatch
  <2>3. CASE Finalize
    BY <2>3 DEF Finalize, UpdateExperiment
  <2>4. CASE ListRunning
    BY <2>4 DEF ListRunning, InStatus, StillActive
  <2>5. CASE CheckJob
    BY <2>5 DEF CheckJob, UpdateRun, JobOutcome, Fault, Faults
  <2>6. CASE IndexFindings
    BY <2>6 DEF IndexFindings, AfterIndex
  <2>7. CASE Charge
    BY <2>7 DEF Charge, RecordJobCost, Trips
  <2>8. CASE RecheckStatus
    BY <2>8 DEF RecheckStatus, AfterScan, StillActive
  <2>9. CASE CountAfterScan
    BY <2>9 DEF CountAfterScan
  <2>10. ASSUME NEW r \in Runs, RedispatchFails(r)
         PROVE  PublishedInv'
    BY <2>10 DEF RedispatchFails, UpdateRun
  <2>11. ASSUME NEW r \in Runs, RedispatchSkips(r)
         PROVE  PublishedInv'
    BY <2>11 DEF RedispatchSkips
  <2>12. ASSUME NEW r \in Runs, Redispatch(r)
         PROVE  PublishedInv'
    BY <2>12 DEF Redispatch, CreateJob, Fault, Faults
  <2>13. ASSUME NEW r \in Runs, IngestResult(r)
         PROVE  PublishedInv'
    BY <2>13 DEF IngestResult, UpdateRun, AfterIndex, IsFirst
  <2>14. ASSUME NEW r \in Runs, IngestTorn(r)
         PROVE  PublishedInv'
    BY <2>14 DEF IngestTorn, UpdateRun
  <2>15. ASSUME NEW r \in Runs, NoResultYet(r)
         PROVE  PublishedInv'
    BY <2>15 DEF NoResultYet, IsFirst
  <2>16. CASE IndexFails
    BY <2>16 DEF IndexFails, AfterIndex, Fault, Faults
  <2>17. CASE ChargeFails
    BY <2>17 DEF ChargeFails, RecordJobCost, Trips, Fault, Faults
  <2>18. CASE ScanBreaks
    BY <2>18 DEF ScanBreaks, Fault, Faults
  <2>19. CASE ReconcileBreaks
    BY <2>19 DEF ReconcileBreaks, MayTick, Fault, Faults
  <2> QED BY <1>3, <2>1, <2>2, <2>3, <2>4, <2>5, <2>6, <2>7, <2>8, <2>9, <2>10,
     <2>11, <2>12, <2>13, <2>14, <2>15, <2>16, <2>17, <2>18, <2>19 DEF ReconcileStep
<1>4. CASE RequestStep
  <2>1. CASE Request
    BY <2>1 DEF Request
  <2>2. CASE CancelAnswered
    BY <2>2 DEF CancelAnswered
  <2>3. CASE RevokeTokens
    BY <2>3 DEF RevokeTokens
  <2>4. CASE RemoveOutputs
    BY <2>4 DEF RemoveOutputs
  <2>5. CASE UnlinkConfigs
    BY <2>5 DEF UnlinkConfigs
  <2>6. CASE DeleteRows
    BY <2>6 DEF DeleteRows
  <2>7. CASE DeleteBreaks
    BY <2>7 DEF DeleteBreaks, Fault, Faults
  <2> QED BY <1>4, <2>1, <2>2, <2>3, <2>4, <2>5, <2>6, <2>7 DEF RequestStep
<1>5. CASE Restart
  BY <1>5 DEF Restart, TornConfigs
<1>6. ASSUME NEW c \in Callers, CancelStep(c)
      PROVE  PublishedInv'
  <2>1. CASE CancelBegin(c)
    BY <2>1 DEF CancelBegin
  <2>2. CASE CancelJobs(c)
    BY <2>2 DEF CancelJobs, InStatus, Fault, Faults
  <2>3. CASE CancelClose(c)
    BY <2>3 DEF CancelClose, UpdateExperiment
  <2>4. ASSUME NEW r \in Runs, CancelFlip(c, r)
         PROVE  PublishedInv'
    BY <2>4 DEF CancelFlip, UpdateRun
  <2>5. CASE CancelBreaks(c)
    BY <2>5 DEF CancelBreaks, Callers, Fault, Faults
  <2> QED BY <1>6, <2>1, <2>2, <2>3, <2>4, <2>5 DEF CancelStep
<1>7. ASSUME NEW r \in Runs, PodStep(r)
      PROVE  PublishedInv'
  <2>1. CASE PodStart(r)
    BY <2>1 DEF PodStart
  <2>2. CASE PodFails(r)
    BY <2>2 DEF PodFails, Fault, Faults
  <2>3. CASE PodLost(r)
    BY <2>3 DEF PodLost, Fault, Faults
  <2>4. CASE DeadlineExceeded(r)
    BY <2>4 DEF DeadlineExceeded, Fault, Faults
  <2>5. CASE PodWrite(r)
    BY <2>5 DEF PodWrite
  <2>6. CASE UploadBroken(r)
    BY <2>6 DEF UploadBroken, Fault, Faults
  <2>7. CASE PodExit(r)
    BY <2>7 DEF PodExit
  <2>8. CASE OrphanDies(r)
    BY <2>8 DEF OrphanDies
  <2>9. ASSUME NEW o \in Outcome, PodPublish(r, o)
         PROVE  PublishedInv'
    BY <2>9 DEF PodPublish
  <2>10. ASSUME NEW o \in Outcome, OrphanPublish(r, o)
         PROVE  PublishedInv'
    BY <2>10 DEF OrphanPublish
  <2> QED BY <1>7, <2>1, <2>2, <2>3, <2>4, <2>5, <2>6, <2>7, <2>8, <2>9, <2>10 DEF
     PodStep
<1>8. CASE UNCHANGED vars
  BY <1>8 DEF vars
<1> QED BY <1>1, <1>2, <1>3, <1>4, <1>5, <1>6, <1>7, <1>8 DEF Next

(* No race of scan, cancel, delete, retry and restart turns a Job's state  *)
(* or a half-written file into a success.                                  *)
THEOREM CompletedIsPublished == Spec => []CompletedWasPublished
<1>1. Init => PublishedInv
  BY LifecycleAssumption DEF Init, PublishedInv, Backed, CompletedWasPublished
<1>2. TypeInv /\ PublishedInv /\ [Next]_vars => PublishedInv'
  BY PublishedStep
<1>3. PublishedInv => CompletedWasPublished
  BY DEF PublishedInv
<1> QED BY <1>1, <1>2, <1>3, TypeInvariance, PTL DEF Spec

-----------------------------------------------------------------------------
(* An experiment that was finalized is not pending again, so no tick gets  *)
(* as far as a second finalize_experiment.                                 *)
FinalInv ==
    /\ expStatus # "absent" => subPc # "idle"
    /\ recPc # "idle" => subPc # "idle"
    /\ finalized > 0 => /\ expStatus # "pending" /\ subPc # "idle"
                        /\ recPc \in {"list", "idle"}
    /\ FinalizedOnce

(* StillActive is what stands between the two calls of one tick.           *)
LEMMA FinalStep ==
  ASSUME TypeInv, FinalInv, [Next]_vars
  PROVE  FinalInv'
<1> USE LifecycleAssumption DEF TypeInv, TypeOK, RunTerminal, ExpTerminal, Outcome,
       FinalInv, FinalizedOnce, dbVars, diskVars, k8sVars, subVars, schVars, recVars,
       canVars, memVars, bounds, history, losses
<1>1. CASE SubmitStep
  <2>1. CASE Submit
    BY <2>1 DEF Submit
  <2>2. CASE CreateRunRow
    BY <2>2 DEF CreateRunRow
  <2>3. CASE WriteConfigs
    BY <2>3 DEF WriteConfigs, StartThread
  <2>4. CASE IssueTokenAndWriteConfig
    BY <2>4 DEF IssueTokenAndWriteConfig, StartThread
  <2> QED BY <1>1, <2>1, <2>2, <2>3, <2>4 DEF SubmitStep
<1>2. CASE ScheduleStep
  <2>1. ASSUME NEW r \in Runs, ScheduleRun(r)
         PROVE  FinalInv'
    BY <2>1 DEF ScheduleRun, CreateJob, IsFirst, Eligible
  <2>2. ASSUME NEW r \in Runs, ScheduleRunFails(r)
         PROVE  FinalInv'
    BY <2>2 DEF ScheduleRunFails, Fault, Faults, AttemptFailed, UpdateRun, IsFirst, Eligible
  <2>3. CASE MarkRunning
    BY <2>3 DEF MarkRunning, UpdateRun
  <2>4. CASE MarkRunningFails
    BY <2>4 DEF MarkRunningFails, Fault, Faults, AttemptFailed, UpdateRun
  <2>5. CASE NextRound
    BY <2>5 DEF NextRound
  <2> QED BY <1>2, <2>1, <2>2, <2>3, <2>4, <2>5 DEF ScheduleStep
<1>3. CASE ReconcileStep
  <2>1. CASE Tick
    BY <2>1 DEF Tick, InStatus, DispatchedIds
  <2>2. CASE CountAfterRedispatch
    BY <2>2 DEF CountAfterRedispatch
  <2>3. CASE Finalize
    BY <2>3 DEF Finalize, UpdateExperiment
  <2>4. CASE ListRunning
    BY <2>4 DEF ListRunning, InStatus, StillActive
  <2>5. CASE CheckJob
    BY <2>5 DEF CheckJob, UpdateRun, JobOutcome, Fault, Faults
  <2>6. CASE IndexFindings
    BY <2>6 DEF IndexFindings, AfterIndex
  <2>7. CASE Charge
    BY <2>7 DEF Charge, RecordJobCost, Trips
  <2>8. CASE RecheckStatus
    BY <2>8 DEF RecheckStatus, AfterScan, StillActive
  <2>9. CASE CountAfterScan
    BY <2>9 DEF CountAfterScan
  <2>10. ASSUME NEW r \in Runs, RedispatchFails(r)
         PROVE  FinalInv'
    BY <2>10 DEF RedispatchFails, UpdateRun
  <2>11. ASSUME NEW r \in Runs, RedispatchSkips(r)
         PROVE  FinalInv'
    BY <2>11 DEF RedispatchSkips
  <2>12. ASSUME NEW r \in Runs, Redispatch(r)
         PROVE  FinalInv'
    BY <2>12 DEF Redispatch, CreateJob, Fault, Faults
  <2>13. ASSUME NEW r \in Runs, IngestResult(r)
         PROVE  FinalInv'
    BY <2>13 DEF IngestResult, UpdateRun, AfterIndex, IsFirst
  <2>14. ASSUME NEW r \in Runs, IngestTorn(r)
         PROVE  FinalInv'
    BY <2>14 DEF IngestTorn, UpdateRun
  <2>15. ASSUME NEW r \in Runs, NoResultYet(r)
         PROVE  FinalInv'
    BY <2>15 DEF NoResultYet, IsFirst
  <2>16. CASE IndexFails
    BY <2>16 DEF IndexFails, AfterIndex, Fault, Faults
  <2>17. CASE ChargeFails
    BY <2>17 DEF ChargeFails, RecordJobCost, Trips, Fault, Faults
  <2>18. CASE ScanBreaks
    BY <2>18 DEF ScanBreaks, Fault, Faults
  <2>19. CASE ReconcileBreaks
    BY <2>19 DEF ReconcileBreaks, MayTick, Fault, Faults
  <2> QED BY <1>3, <2>1, <2>2, <2>3, <2>4, <2>5, <2>6, <2>7, <2>8, <2>9, <2>10,
     <2>11, <2>12, <2>13, <2>14, <2>15, <2>16, <2>17, <2>18, <2>19 DEF ReconcileStep
<1>4. CASE RequestStep
  <2>1. CASE Request
    BY <2>1 DEF Request
  <2>2. CASE CancelAnswered
    BY <2>2 DEF CancelAnswered
  <2>3. CASE RevokeTokens
    BY <2>3 DEF RevokeTokens
  <2>4. CASE RemoveOutputs
    BY <2>4 DEF RemoveOutputs
  <2>5. CASE UnlinkConfigs
    BY <2>5 DEF UnlinkConfigs
  <2>6. CASE DeleteRows
    BY <2>6 DEF DeleteRows
  <2>7. CASE DeleteBreaks
    BY <2>7 DEF DeleteBreaks, Fault, Faults
  <2> QED BY <1>4, <2>1, <2>2, <2>3, <2>4, <2>5, <2>6, <2>7 DEF RequestStep
<1>5. CASE Restart
  BY <1>5 DEF Restart, TornConfigs
<1>6. ASSUME NEW c \in Callers, CancelStep(c)
      PROVE  FinalInv'
  <2>1. CASE CancelBegin(c)
    BY <2>1 DEF CancelBegin
  <2>2. CASE CancelJobs(c)
    BY <2>2 DEF CancelJobs, InStatus, Fault, Faults
  <2>3. CASE CancelClose(c)
    BY <2>3 DEF CancelClose, UpdateExperiment
  <2>4. ASSUME NEW r \in Runs, CancelFlip(c, r)
         PROVE  FinalInv'
    BY <2>4 DEF CancelFlip, UpdateRun
  <2>5. CASE CancelBreaks(c)
    BY <2>5 DEF CancelBreaks, Callers, Fault, Faults
  <2> QED BY <1>6, <2>1, <2>2, <2>3, <2>4, <2>5 DEF CancelStep
<1>7. ASSUME NEW r \in Runs, PodStep(r)
      PROVE  FinalInv'
  <2>1. CASE PodStart(r)
    BY <2>1 DEF PodStart
  <2>2. CASE PodFails(r)
    BY <2>2 DEF PodFails, Fault, Faults
  <2>3. CASE PodLost(r)
    BY <2>3 DEF PodLost, Fault, Faults
  <2>4. CASE DeadlineExceeded(r)
    BY <2>4 DEF DeadlineExceeded, Fault, Faults
  <2>5. CASE PodWrite(r)
    BY <2>5 DEF PodWrite
  <2>6. CASE UploadBroken(r)
    BY <2>6 DEF UploadBroken, Fault, Faults
  <2>7. CASE PodExit(r)
    BY <2>7 DEF PodExit
  <2>8. CASE OrphanDies(r)
    BY <2>8 DEF OrphanDies
  <2>9. ASSUME NEW o \in Outcome, PodPublish(r, o)
         PROVE  FinalInv'
    BY <2>9 DEF PodPublish
  <2>10. ASSUME NEW o \in Outcome, OrphanPublish(r, o)
         PROVE  FinalInv'
    BY <2>10 DEF OrphanPublish
  <2> QED BY <1>7, <2>1, <2>2, <2>3, <2>4, <2>5, <2>6, <2>7, <2>8, <2>9, <2>10 DEF
     PodStep
<1>8. CASE UNCHANGED vars
  BY <1>8 DEF vars
<1> QED BY <1>1, <1>2, <1>3, <1>4, <1>5, <1>6, <1>7, <1>8 DEF Next

(* Between two restarts an experiment is finalized at most once.           *)
THEOREM NoDoubleFinalize == Spec => []FinalizedOnce
<1>1. Init => FinalInv
  BY DEF Init, FinalInv, FinalizedOnce
<1>2. TypeInv /\ FinalInv /\ [Next]_vars => FinalInv'
  BY FinalStep
<1>3. FinalInv => FinalizedOnce
  BY DEF FinalInv
<1> QED BY <1>1, <1>2, <1>3, TypeInvariance, PTL DEF Spec

-----------------------------------------------------------------------------
(* The tracker knows what the rows have been charged, so it trips with     *)
(* them; then the loop waits for its own cancellation, and finds the       *)
(* experiment no longer pending when that is over.                         *)
Scanning == {"scan", "job", "index", "charge", "cancel", "recount", "refinalize"}
NothingRuns ==
    /\ \A r \in Runs : runStatus[r] # "running"
    /\ recPc \notin {"job", "index", "charge", "cancel"}
    /\ recPc = "scan" => recTodo = {}
InForce == tripped /\ ~capLost
TripInv ==
    /\ tripped \/ recPc # "idle" \/ expStatus # "absent" => subPc # "idle"
    /\ subPc # "done" => spent = 0 /\ NothingRuns
    /\ restarts = 0 => spent <= tracker
    /\ CostCap > 0 /\ tracker >= CostCap => tripped
    /\ InForce => recPc \in {"cancel", "idle"} /\ expStatus # "completed"
    /\ InForce /\ expStatus = "pending" => recPc = "cancel" /\ canPc["rec"] # "off"
    /\ recPc \in Scanning => expStatus # "completed"

(* Charge, the cancellation and AfterScan carry the argument.              *)
LEMMA TripStep ==
  ASSUME TypeInv, TripInv, [Next]_vars
  PROVE  TripInv'
<1> USE LifecycleAssumption DEF TypeInv, TypeOK, RunTerminal, ExpTerminal, Outcome,
       TripInv, NothingRuns, InForce, RunInHand, Scanning, Callers, dbVars, diskVars, k8sVars,
       subVars, schVars, recVars, canVars, memVars, bounds, history, losses
<1>1. CASE SubmitStep
  <2>1. CASE Submit
    BY <2>1 DEF Submit
  <2>2. CASE CreateRunRow
    BY <2>2 DEF CreateRunRow
  <2>3. CASE WriteConfigs
    BY <2>3 DEF WriteConfigs, StartThread
  <2>4. CASE IssueTokenAndWriteConfig
    BY <2>4 DEF IssueTokenAndWriteConfig, StartThread
  <2> QED BY <1>1, <2>1, <2>2, <2>3, <2>4 DEF SubmitStep
<1>2. CASE ScheduleStep
  <2>1. ASSUME NEW r \in Runs, ScheduleRun(r)
         PROVE  TripInv'
    BY <2>1 DEF ScheduleRun, CreateJob, IsFirst, Eligible
  <2>2. ASSUME NEW r \in Runs, ScheduleRunFails(r)
         PROVE  TripInv'
    BY <2>2 DEF ScheduleRunFails, Fault, Faults, AttemptFailed, UpdateRun, IsFirst, Eligible
  <2>3. CASE MarkRunning
    BY <2>3 DEF MarkRunning, UpdateRun
  <2>4. CASE MarkRunningFails
    BY <2>4 DEF MarkRunningFails, Fault, Faults, AttemptFailed, UpdateRun
  <2>5. CASE NextRound
    BY <2>5 DEF NextRound
  <2> QED BY <1>2, <2>1, <2>2, <2>3, <2>4, <2>5 DEF ScheduleStep
<1>3. CASE ReconcileStep
  <2>1. CASE Tick
    BY <2>1 DEF Tick, InStatus, DispatchedIds
  <2>2. CASE CountAfterRedispatch
    BY <2>2 DEF CountAfterRedispatch
  <2>3. CASE Finalize
    BY <2>3 DEF Finalize, UpdateExperiment
  <2>4. CASE ListRunning
    BY <2>4 DEF ListRunning, InStatus, StillActive
  <2>5. CASE CheckJob
    BY <2>5 DEF CheckJob, UpdateRun, JobOutcome, Fault, Faults
  <2>6. CASE IndexFindings
    BY <2>6 DEF IndexFindings, AfterIndex
  <2>7. CASE Charge
    <3>1. /\ recPc = "charge" /\ ~InForce /\ subPc = "done"
          /\ UNCHANGED <<expStatus, subPc, capLost, restarts, runStatus>>
      BY <2>7 DEF Charge
    <3>2. /\ tracker' = tracker + 1 /\ (spent' = spent \/ spent' = spent + 1)
          /\ CostCap > 0 /\ tracker' >= CostCap => tripped'
      BY <2>7, <3>1 DEF Charge, RecordJobCost, Trips
    <3>3. CASE Trips
      <4>1. recPc' = "cancel" /\ canPc' = [canPc EXCEPT !["rec"] = "begin"]
        BY <2>7, <3>3 DEF Charge
      <4>2. canPc'["rec"] = "begin"
        BY <4>1
      <4> QED BY <3>1, <3>2, <4>1, <4>2
    <3>4. CASE ~Trips
      <4>1. (tripped' <=> tripped) /\ recPc' = "scan"
        BY <2>7, <3>4, Zenon DEF Charge, RecordJobCost
      <4> QED BY <3>1, <3>2, <4>1
    <3> QED BY <3>3, <3>4
  <2>8. CASE RecheckStatus
    BY <2>8 DEF RecheckStatus, AfterScan, StillActive
  <2>9. CASE CountAfterScan
    BY <2>9 DEF CountAfterScan
  <2>10. ASSUME NEW r \in Runs, RedispatchFails(r)
         PROVE  TripInv'
    BY <2>10 DEF RedispatchFails, UpdateRun
  <2>11. ASSUME NEW r \in Runs, RedispatchSkips(r)
         PROVE  TripInv'
    BY <2>11 DEF RedispatchSkips
  <2>12. ASSUME NEW r \in Runs, Redispatch(r)
         PROVE  TripInv'
    BY <2>12 DEF Redispatch, CreateJob, Fault, Faults
  <2>13. ASSUME NEW r \in Runs, IngestResult(r)
         PROVE  TripInv'
    BY <2>13 DEF IngestResult, UpdateRun, AfterIndex, IsFirst
  <2>14. ASSUME NEW r \in Runs, IngestTorn(r)
         PROVE  TripInv'
    BY <2>14 DEF IngestTorn, UpdateRun
  <2>15. ASSUME NEW r \in Runs, NoResultYet(r)
         PROVE  TripInv'
    BY <2>15 DEF NoResultYet, IsFirst
  <2>16. CASE IndexFails
    BY <2>16 DEF IndexFails, AfterIndex, Fault, Faults
  <2>17. CASE ChargeFails
    <3>1. /\ recPc = "charge" /\ ~InForce /\ subPc = "done" /\ recPc' = "idle"
          /\ UNCHANGED <<expStatus, subPc, restarts, spent>>
      BY <2>17 DEF ChargeFails
    <3>2. /\ tracker' = tracker + 1
          /\ CostCap > 0 /\ tracker' >= CostCap => tripped'
      BY <2>17, <3>1 DEF ChargeFails, RecordJobCost, Trips
    <3>3. ~InForce'
      <4>1. CASE Trips
        BY <2>17, <4>1, Zenon DEF ChargeFails, InForce
      <4>2. CASE ~Trips
        <5>1. (tripped' <=> tripped) /\ (capLost' <=> capLost)
          BY <2>17, <4>2, Zenon DEF ChargeFails, RecordJobCost
        <5> QED BY <3>1, <5>1, Zenon DEF InForce
      <4> QED BY <4>1, <4>2
    <3> QED BY <3>1, <3>2, <3>3
  <2>18. CASE ScanBreaks
    BY <2>18 DEF ScanBreaks, Fault, Faults
  <2>19. CASE ReconcileBreaks
    BY <2>19 DEF ReconcileBreaks, MayTick, Fault, Faults
  <2> QED BY <1>3, <2>1, <2>2, <2>3, <2>4, <2>5, <2>6, <2>7, <2>8, <2>9, <2>10,
     <2>11, <2>12, <2>13, <2>14, <2>15, <2>16, <2>17, <2>18, <2>19 DEF ReconcileStep
<1>4. CASE RequestStep
  <2>1. CASE Request
    BY <2>1 DEF Request
  <2>2. CASE CancelAnswered
    BY <2>2 DEF CancelAnswered
  <2>3. CASE RevokeTokens
    BY <2>3 DEF RevokeTokens
  <2>4. CASE RemoveOutputs
    BY <2>4 DEF RemoveOutputs
  <2>5. CASE UnlinkConfigs
    BY <2>5 DEF UnlinkConfigs
  <2>6. CASE DeleteRows
    BY <2>6 DEF DeleteRows
  <2>7. CASE DeleteBreaks
    BY <2>7 DEF DeleteBreaks, Fault, Faults
  <2> QED BY <1>4, <2>1, <2>2, <2>3, <2>4, <2>5, <2>6, <2>7 DEF RequestStep
<1>5. CASE Restart
  BY <1>5 DEF Restart, TornConfigs
<1>6. ASSUME NEW c \in Callers, CancelStep(c)
      PROVE  TripInv'
  <2>1. CASE CancelBegin(c)
    BY <2>1 DEF CancelBegin
  <2>2. CASE CancelJobs(c)
    BY <2>2 DEF CancelJobs, InStatus, Fault, Faults
  <2>3. CASE CancelClose(c)
    BY <2>3 DEF CancelClose, UpdateExperiment
  <2>4. ASSUME NEW r \in Runs, CancelFlip(c, r)
         PROVE  TripInv'
    BY <2>4 DEF CancelFlip, UpdateRun
  <2>5. CASE CancelBreaks(c)
    BY <2>5 DEF CancelBreaks, Callers, Fault, Faults
  <2> QED BY <1>6, <2>1, <2>2, <2>3, <2>4, <2>5 DEF CancelStep
<1>7. ASSUME NEW r \in Runs, PodStep(r)
      PROVE  TripInv'
  <2>1. CASE PodStart(r)
    BY <2>1 DEF PodStart
  <2>2. CASE PodFails(r)
    BY <2>2 DEF PodFails, Fault, Faults
  <2>3. CASE PodLost(r)
    BY <2>3 DEF PodLost, Fault, Faults
  <2>4. CASE DeadlineExceeded(r)
    BY <2>4 DEF DeadlineExceeded, Fault, Faults
  <2>5. CASE PodWrite(r)
    BY <2>5 DEF PodWrite
  <2>6. CASE UploadBroken(r)
    BY <2>6 DEF UploadBroken, Fault, Faults
  <2>7. CASE PodExit(r)
    BY <2>7 DEF PodExit
  <2>8. CASE OrphanDies(r)
    BY <2>8 DEF OrphanDies
  <2>9. ASSUME NEW o \in Outcome, PodPublish(r, o)
         PROVE  TripInv'
    BY <2>9 DEF PodPublish
  <2>10. ASSUME NEW o \in Outcome, OrphanPublish(r, o)
         PROVE  TripInv'
    BY <2>10 DEF OrphanPublish
  <2> QED BY <1>7, <2>1, <2>2, <2>3, <2>4, <2>5, <2>6, <2>7, <2>8, <2>9, <2>10 DEF
     PodStep
<1>8. CASE UNCHANGED vars
  BY <1>8 DEF vars
<1> QED BY <1>1, <1>2, <1>3, <1>4, <1>5, <1>6, <1>7, <1>8 DEF Next

(* While the coordinator is up and no failing call takes the cap's         *)
(* cancellation with it, reaching the cap is final: the experiment is not  *)
(* reported as completed, whoever else cancels or deletes meanwhile.       *)
THEOREM CapIsFinal == Spec => []CappedNotCompleted
<1>1. Init => TripInv
  BY LifecycleAssumption DEF Init, TripInv, NothingRuns, InForce, Scanning
<1>2. TypeInv /\ TripInv /\ [Next]_vars => TripInv'
  BY TripStep
<1>3. TypeInv /\ TripInv => CappedNotCompleted
  BY LifecycleAssumption DEF TripInv, InForce, CappedNotCompleted, TypeInv, TypeOK
<1> QED BY <1>1, <1>2, <1>3, TypeInvariance, PTL DEF Spec

-----------------------------------------------------------------------------
(* Between the row and the index the loop is nowhere else.                 *)
LEMMA IndexStep ==
  ASSUME TypeInv, CompletedIsIndexed, [Next]_vars
  PROVE  CompletedIsIndexed'
<1> USE LifecycleAssumption DEF TypeInv, TypeOK, RunTerminal, ExpTerminal, Outcome,
       CompletedIsIndexed, dbVars, diskVars, k8sVars, subVars, schVars, recVars,
       canVars, memVars, bounds, history, losses
<1>1. CASE SubmitStep
  <2>1. CASE Submit
    BY <2>1 DEF Submit
  <2>2. CASE CreateRunRow
    BY <2>2 DEF CreateRunRow
  <2>3. CASE WriteConfigs
    BY <2>3 DEF WriteConfigs, StartThread
  <2>4. CASE IssueTokenAndWriteConfig
    BY <2>4 DEF IssueTokenAndWriteConfig, StartThread
  <2> QED BY <1>1, <2>1, <2>2, <2>3, <2>4 DEF SubmitStep
<1>2. CASE ScheduleStep
  <2>1. ASSUME NEW r \in Runs, ScheduleRun(r)
         PROVE  CompletedIsIndexed'
    BY <2>1 DEF ScheduleRun, CreateJob, IsFirst, Eligible
  <2>2. ASSUME NEW r \in Runs, ScheduleRunFails(r)
         PROVE  CompletedIsIndexed'
    BY <2>2 DEF ScheduleRunFails, Fault, Faults, AttemptFailed, UpdateRun, IsFirst, Eligible
  <2>3. CASE MarkRunning
    BY <2>3 DEF MarkRunning, UpdateRun
  <2>4. CASE MarkRunningFails
    BY <2>4 DEF MarkRunningFails, Fault, Faults, AttemptFailed, UpdateRun
  <2>5. CASE NextRound
    BY <2>5 DEF NextRound
  <2> QED BY <1>2, <2>1, <2>2, <2>3, <2>4, <2>5 DEF ScheduleStep
<1>3. CASE ReconcileStep
  <2>1. CASE Tick
    BY <2>1 DEF Tick, InStatus, DispatchedIds
  <2>2. CASE CountAfterRedispatch
    BY <2>2 DEF CountAfterRedispatch
  <2>3. CASE Finalize
    BY <2>3 DEF Finalize, UpdateExperiment
  <2>4. CASE ListRunning
    BY <2>4 DEF ListRunning, InStatus, StillActive
  <2>5. CASE CheckJob
    BY <2>5 DEF CheckJob, UpdateRun, JobOutcome, Fault, Faults
  <2>6. CASE IndexFindings
    BY <2>6 DEF IndexFindings, AfterIndex
  <2>7. CASE Charge
    BY <2>7 DEF Charge, RecordJobCost, Trips
  <2>8. CASE RecheckStatus
    BY <2>8 DEF RecheckStatus, AfterScan, StillActive
  <2>9. CASE CountAfterScan
    BY <2>9 DEF CountAfterScan
  <2>10. ASSUME NEW r \in Runs, RedispatchFails(r)
         PROVE  CompletedIsIndexed'
    BY <2>10 DEF RedispatchFails, UpdateRun
  <2>11. ASSUME NEW r \in Runs, RedispatchSkips(r)
         PROVE  CompletedIsIndexed'
    BY <2>11 DEF RedispatchSkips
  <2>12. ASSUME NEW r \in Runs, Redispatch(r)
         PROVE  CompletedIsIndexed'
    BY <2>12 DEF Redispatch, CreateJob, Fault, Faults
  <2>13. ASSUME NEW r \in Runs, IngestResult(r)
         PROVE  CompletedIsIndexed'
    BY <2>13 DEF IngestResult, UpdateRun, AfterIndex, IsFirst
  <2>14. ASSUME NEW r \in Runs, IngestTorn(r)
         PROVE  CompletedIsIndexed'
    BY <2>14 DEF IngestTorn, UpdateRun
  <2>15. ASSUME NEW r \in Runs, NoResultYet(r)
         PROVE  CompletedIsIndexed'
    BY <2>15 DEF NoResultYet, IsFirst
  <2>16. CASE IndexFails
    BY <2>16 DEF IndexFails, AfterIndex, Fault, Faults
  <2>17. CASE ChargeFails
    BY <2>17 DEF ChargeFails, RecordJobCost, Trips, Fault, Faults
  <2>18. CASE ScanBreaks
    BY <2>18 DEF ScanBreaks, Fault, Faults
  <2>19. CASE ReconcileBreaks
    BY <2>19 DEF ReconcileBreaks, MayTick, Fault, Faults
  <2> QED BY <1>3, <2>1, <2>2, <2>3, <2>4, <2>5, <2>6, <2>7, <2>8, <2>9, <2>10,
     <2>11, <2>12, <2>13, <2>14, <2>15, <2>16, <2>17, <2>18, <2>19 DEF ReconcileStep
<1>4. CASE RequestStep
  <2>1. CASE Request
    BY <2>1 DEF Request
  <2>2. CASE CancelAnswered
    BY <2>2 DEF CancelAnswered
  <2>3. CASE RevokeTokens
    BY <2>3 DEF RevokeTokens
  <2>4. CASE RemoveOutputs
    BY <2>4 DEF RemoveOutputs
  <2>5. CASE UnlinkConfigs
    BY <2>5 DEF UnlinkConfigs
  <2>6. CASE DeleteRows
    BY <2>6 DEF DeleteRows
  <2>7. CASE DeleteBreaks
    BY <2>7 DEF DeleteBreaks, Fault, Faults
  <2> QED BY <1>4, <2>1, <2>2, <2>3, <2>4, <2>5, <2>6, <2>7 DEF RequestStep
<1>5. CASE Restart
  BY <1>5 DEF Restart, TornConfigs
<1>6. ASSUME NEW c \in Callers, CancelStep(c)
      PROVE  CompletedIsIndexed'
  <2>1. CASE CancelBegin(c)
    BY <2>1 DEF CancelBegin
  <2>2. CASE CancelJobs(c)
    BY <2>2 DEF CancelJobs, InStatus, Fault, Faults
  <2>3. CASE CancelClose(c)
    BY <2>3 DEF CancelClose, UpdateExperiment
  <2>4. ASSUME NEW r \in Runs, CancelFlip(c, r)
         PROVE  CompletedIsIndexed'
    BY <2>4 DEF CancelFlip, UpdateRun
  <2>5. CASE CancelBreaks(c)
    BY <2>5 DEF CancelBreaks, Callers, Fault, Faults
  <2> QED BY <1>6, <2>1, <2>2, <2>3, <2>4, <2>5 DEF CancelStep
<1>7. ASSUME NEW r \in Runs, PodStep(r)
      PROVE  CompletedIsIndexed'
  <2>1. CASE PodStart(r)
    BY <2>1 DEF PodStart
  <2>2. CASE PodFails(r)
    BY <2>2 DEF PodFails, Fault, Faults
  <2>3. CASE PodLost(r)
    BY <2>3 DEF PodLost, Fault, Faults
  <2>4. CASE DeadlineExceeded(r)
    BY <2>4 DEF DeadlineExceeded, Fault, Faults
  <2>5. CASE PodWrite(r)
    BY <2>5 DEF PodWrite
  <2>6. CASE UploadBroken(r)
    BY <2>6 DEF UploadBroken, Fault, Faults
  <2>7. CASE PodExit(r)
    BY <2>7 DEF PodExit
  <2>8. CASE OrphanDies(r)
    BY <2>8 DEF OrphanDies
  <2>9. ASSUME NEW o \in Outcome, PodPublish(r, o)
         PROVE  CompletedIsIndexed'
    BY <2>9 DEF PodPublish
  <2>10. ASSUME NEW o \in Outcome, OrphanPublish(r, o)
         PROVE  CompletedIsIndexed'
    BY <2>10 DEF OrphanPublish
  <2> QED BY <1>7, <2>1, <2>2, <2>3, <2>4, <2>5, <2>6, <2>7, <2>8, <2>9, <2>10 DEF
     PodStep
<1>8. CASE UNCHANGED vars
  BY <1>8 DEF vars
<1> QED BY <1>1, <1>2, <1>3, <1>4, <1>5, <1>6, <1>7, <1>8 DEF Next

(* Without a restart every completed run is in the findings index, unless  *)
(* writing its findings failed or is going on.                             *)
THEOREM FindingsAreIndexed == Spec => []CompletedIsIndexed
<1>1. Init => CompletedIsIndexed
  BY DEF Init, CompletedIsIndexed
<1>2. TypeInv /\ CompletedIsIndexed /\ [Next]_vars => CompletedIsIndexed'
  BY IndexStep
<1> QED BY <1>1, <1>2, TypeInvariance, PTL DEF Spec

-----------------------------------------------------------------------------
(* Spend                                                                   *)

(* The rows of an experiment: none before its submission, each run created *)
(* once, in order; a run in hand lost its row only with the experiment.    *)
RowsInv ==
    /\ subPc = "idle" =>
          /\ expStatus = "absent" /\ recPc = "idle" /\ recTodo = {}
          /\ \A r \in Runs : runStatus[r] = "absent"
    /\ subPc = "rows" =>
          \A r \in Runs : r >= subNext => runStatus[r] = "absent" /\ r \notin recTodo
    /\ expStatus = "absent" => costed = {} /\ spent = 0
    /\ \A r \in recTodo : runStatus[r] = "absent" <=> expStatus = "absent"

(* The scan knows which of the runs before it carry a cost, and the run in *)
(* hand is the only one that may be missing from spent_usd.                *)
Unbooked == \/ recPc = "charge"
            \/ recPc = "index" /\ recRun \notin recPrior
Missing == IF Unbooked /\ expStatus # "absent" THEN 1 ELSE 0
PriorKnown ==
    expStatus # "absent" /\ recPc \in {"scan", "job", "index", "charge"} =>
        \A r \in recTodo : r \in costed <=> r \in recPrior
BookInv == /\ PriorKnown
           /\ spent + Missing <= Cardinality(costed)
           /\ Cardinality(costed) <= spent + Missing + unbilled + restarts

LEMMA CostedFinite ==
    ASSUME NEW S \in SUBSET Runs
    PROVE  IsFiniteSet(S) /\ Cardinality(S) \in Nat
<1>1. IsFiniteSet(Runs)
  BY LifecycleAssumption, FS_Interval DEF Runs
<1> QED BY <1>1, FS_Subset, FS_CardinalityType

LEMMA RowsStep ==
  ASSUME TypeInv, RowsInv, [Next]_vars
  PROVE  RowsInv'
<1> USE LifecycleAssumption DEF TypeInv, TypeOK, RunTerminal, ExpTerminal, Outcome,
       RowsInv, RunInHand, dbVars, diskVars, k8sVars, subVars, schVars, recVars,
       canVars, memVars, bounds, history, losses
<1>1. CASE SubmitStep
  <2>1. CASE Submit
    BY <2>1 DEF Submit
  <2>2. CASE CreateRunRow
    BY <2>2 DEF CreateRunRow, Runs
  <2>3. CASE WriteConfigs
    BY <2>3 DEF WriteConfigs, StartThread
  <2>4. CASE IssueTokenAndWriteConfig
    BY <2>4 DEF IssueTokenAndWriteConfig, StartThread
  <2> QED BY <1>1, <2>1, <2>2, <2>3, <2>4 DEF SubmitStep
<1>2. CASE ScheduleStep
  <2>1. ASSUME NEW r \in Runs, ScheduleRun(r)
         PROVE  RowsInv'
    BY <2>1 DEF ScheduleRun, CreateJob, IsFirst, Eligible
  <2>2. ASSUME NEW r \in Runs, ScheduleRunFails(r)
         PROVE  RowsInv'
    BY <2>2 DEF ScheduleRunFails, Fault, Faults, AttemptFailed, UpdateRun, IsFirst, Eligible
  <2>3. CASE MarkRunning
    BY <2>3 DEF MarkRunning, UpdateRun
  <2>4. CASE MarkRunningFails
    BY <2>4 DEF MarkRunningFails, Fault, Faults, AttemptFailed, UpdateRun
  <2>5. CASE NextRound
    BY <2>5 DEF NextRound
  <2> QED BY <1>2, <2>1, <2>2, <2>3, <2>4, <2>5 DEF ScheduleStep
<1>3. CASE ReconcileStep
  <2>1. CASE Tick
    BY <2>1 DEF Tick, InStatus, DispatchedIds
  <2>2. CASE CountAfterRedispatch
    BY <2>2 DEF CountAfterRedispatch
  <2>3. CASE Finalize
    BY <2>3 DEF Finalize, UpdateExperiment
  <2>4. CASE ListRunning
    BY <2>4 DEF ListRunning, InStatus, StillActive
  <2>5. CASE CheckJob
    BY <2>5 DEF CheckJob, UpdateRun, JobOutcome, Fault, Faults
  <2>6. CASE IndexFindings
    BY <2>6 DEF IndexFindings, AfterIndex
  <2>7. CASE Charge
    BY <2>7 DEF Charge, RecordJobCost, Trips
  <2>8. CASE RecheckStatus
    BY <2>8 DEF RecheckStatus, AfterScan, StillActive
  <2>9. CASE CountAfterScan
    BY <2>9 DEF CountAfterScan
  <2>10. ASSUME NEW r \in Runs, RedispatchFails(r)
         PROVE  RowsInv'
    BY <2>10 DEF RedispatchFails, UpdateRun
  <2>11. ASSUME NEW r \in Runs, RedispatchSkips(r)
         PROVE  RowsInv'
    BY <2>11 DEF RedispatchSkips
  <2>12. ASSUME NEW r \in Runs, Redispatch(r)
         PROVE  RowsInv'
    BY <2>12 DEF Redispatch, CreateJob, Fault, Faults
  <2>13. ASSUME NEW r \in Runs, IngestResult(r)
         PROVE  RowsInv'
    BY <2>13 DEF IngestResult, UpdateRun, AfterIndex, IsFirst
  <2>14. ASSUME NEW r \in Runs, IngestTorn(r)
         PROVE  RowsInv'
    BY <2>14 DEF IngestTorn, UpdateRun
  <2>15. ASSUME NEW r \in Runs, NoResultYet(r)
         PROVE  RowsInv'
    BY <2>15 DEF NoResultYet, IsFirst
  <2>16. CASE IndexFails
    BY <2>16 DEF IndexFails, AfterIndex, Fault, Faults
  <2>17. CASE ChargeFails
    BY <2>17 DEF ChargeFails, RecordJobCost, Trips, Fault, Faults
  <2>18. CASE ScanBreaks
    BY <2>18 DEF ScanBreaks, Fault, Faults
  <2>19. CASE ReconcileBreaks
    BY <2>19 DEF ReconcileBreaks, MayTick, Fault, Faults
  <2> QED BY <1>3, <2>1, <2>2, <2>3, <2>4, <2>5, <2>6, <2>7, <2>8, <2>9, <2>10,
     <2>11, <2>12, <2>13, <2>14, <2>15, <2>16, <2>17, <2>18, <2>19 DEF ReconcileStep
<1>4. CASE RequestStep
  <2>1. CASE Request
    BY <2>1 DEF Request
  <2>2. CASE CancelAnswered
    BY <2>2 DEF CancelAnswered
  <2>3. CASE RevokeTokens
    BY <2>3 DEF RevokeTokens
  <2>4. CASE RemoveOutputs
    BY <2>4 DEF RemoveOutputs
  <2>5. CASE UnlinkConfigs
    BY <2>5 DEF UnlinkConfigs
  <2>6. CASE DeleteRows
    BY <2>6 DEF DeleteRows
  <2>7. CASE DeleteBreaks
    BY <2>7 DEF DeleteBreaks, Fault, Faults
  <2> QED BY <1>4, <2>1, <2>2, <2>3, <2>4, <2>5, <2>6, <2>7 DEF RequestStep
<1>5. CASE Restart
  BY <1>5 DEF Restart, TornConfigs
<1>6. ASSUME NEW c \in Callers, CancelStep(c)
      PROVE  RowsInv'
  <2>1. CASE CancelBegin(c)
    BY <2>1 DEF CancelBegin
  <2>2. CASE CancelJobs(c)
    BY <2>2 DEF CancelJobs, InStatus, Fault, Faults
  <2>3. CASE CancelClose(c)
    BY <2>3 DEF CancelClose, UpdateExperiment
  <2>4. ASSUME NEW r \in Runs, CancelFlip(c, r)
         PROVE  RowsInv'
    BY <2>4 DEF CancelFlip, UpdateRun
  <2>5. CASE CancelBreaks(c)
    BY <2>5 DEF CancelBreaks, Callers, Fault, Faults
  <2> QED BY <1>6, <2>1, <2>2, <2>3, <2>4, <2>5 DEF CancelStep
<1>7. ASSUME NEW r \in Runs, PodStep(r)
      PROVE  RowsInv'
  <2>1. CASE PodStart(r)
    BY <2>1 DEF PodStart
  <2>2. CASE PodFails(r)
    BY <2>2 DEF PodFails, Fault, Faults
  <2>3. CASE PodLost(r)
    BY <2>3 DEF PodLost, Fault, Faults
  <2>4. CASE DeadlineExceeded(r)
    BY <2>4 DEF DeadlineExceeded, Fault, Faults
  <2>5. CASE PodWrite(r)
    BY <2>5 DEF PodWrite
  <2>6. CASE UploadBroken(r)
    BY <2>6 DEF UploadBroken, Fault, Faults
  <2>7. CASE PodExit(r)
    BY <2>7 DEF PodExit
  <2>8. CASE OrphanDies(r)
    BY <2>8 DEF OrphanDies
  <2>9. ASSUME NEW o \in Outcome, PodPublish(r, o)
         PROVE  RowsInv'
    BY <2>9 DEF PodPublish
  <2>10. ASSUME NEW o \in Outcome, OrphanPublish(r, o)
         PROVE  RowsInv'
    BY <2>10 DEF OrphanPublish
  <2> QED BY <1>7, <2>1, <2>2, <2>3, <2>4, <2>5, <2>6, <2>7, <2>8, <2>9, <2>10 DEF
     PodStep
<1>8. CASE UNCHANGED vars
  BY <1>8 DEF vars
<1> QED BY <1>1, <1>2, <1>3, <1>4, <1>5, <1>6, <1>7, <1>8 DEF Next

LEMMA BookStep ==
  ASSUME TypeInv, RowsInv, BookInv, [Next]_vars
  PROVE  BookInv'
<1> USE LifecycleAssumption DEF TypeInv, TypeOK, RunTerminal, ExpTerminal, Outcome,
       BookInv, PriorKnown, Missing, Unbooked, dbVars, diskVars, k8sVars, subVars,
       schVars, recVars, canVars, memVars, bounds, history, losses
<1>1. CASE SubmitStep
  <2>1. CASE Submit
    BY <2>1, FS_EmptySet DEF Submit, RowsInv
  <2>2. CASE CreateRunRow
    BY <2>2 DEF CreateRunRow
  <2>3. CASE WriteConfigs
    BY <2>3 DEF WriteConfigs, StartThread
  <2>4. CASE IssueTokenAndWriteConfig
    BY <2>4 DEF IssueTokenAndWriteConfig, StartThread
  <2> QED BY <1>1, <2>1, <2>2, <2>3, <2>4 DEF SubmitStep
<1>2. CASE ScheduleStep
  <2>1. ASSUME NEW r \in Runs, ScheduleRun(r)
         PROVE  BookInv'
    BY <2>1 DEF ScheduleRun, CreateJob, IsFirst, Eligible
  <2>2. ASSUME NEW r \in Runs, ScheduleRunFails(r)
         PROVE  BookInv'
    BY <2>2 DEF ScheduleRunFails, Fault, Faults, AttemptFailed, UpdateRun, IsFirst, Eligible
  <2>3. CASE MarkRunning
    BY <2>3 DEF MarkRunning, UpdateRun
  <2>4. CASE MarkRunningFails
    BY <2>4 DEF MarkRunningFails, Fault, Faults, AttemptFailed, UpdateRun
  <2>5. CASE NextRound
    BY <2>5 DEF NextRound
  <2> QED BY <1>2, <2>1, <2>2, <2>3, <2>4, <2>5 DEF ScheduleStep
<1>3. CASE ReconcileStep
  <2>1. CASE Tick
    BY <2>1 DEF Tick, InStatus, DispatchedIds
  <2>2. CASE CountAfterRedispatch
    BY <2>2 DEF CountAfterRedispatch
  <2>3. CASE Finalize
    BY <2>3 DEF Finalize, UpdateExperiment
  <2>4. CASE ListRunning
    BY <2>4 DEF ListRunning, InStatus, StillActive
  <2>5. CASE CheckJob
    BY <2>5 DEF CheckJob, UpdateRun, JobOutcome, Fault, Faults
  <2>6. CASE IndexFindings
    BY <2>6 DEF IndexFindings, AfterIndex
  <2>7. CASE Charge
    BY <2>7 DEF Charge, RecordJobCost, Trips
  <2>8. CASE RecheckStatus
    BY <2>8 DEF RecheckStatus, AfterScan, StillActive
  <2>9. CASE CountAfterScan
    BY <2>9 DEF CountAfterScan
  <2>10. ASSUME NEW r \in Runs, RedispatchFails(r)
         PROVE  BookInv'
    BY <2>10 DEF RedispatchFails, UpdateRun
  <2>11. ASSUME NEW r \in Runs, RedispatchSkips(r)
         PROVE  BookInv'
    BY <2>11 DEF RedispatchSkips
  <2>12. ASSUME NEW r \in Runs, Redispatch(r)
         PROVE  BookInv'
    BY <2>12 DEF Redispatch, CreateJob, Fault, Faults
  <2>13. ASSUME NEW r \in Runs, IngestResult(r)
         PROVE  BookInv'
    <3>1. r \in recTodo /\ recPc = "scan" /\ expStatus' = expStatus
      BY <2>13 DEF IngestResult, IsFirst
    <3>2. CASE expStatus = "absent"
      BY <2>13, <3>1, <3>2 DEF IngestResult, RowsInv
    <3>3. CASE expStatus # "absent"
      <4>1. costed' = costed \cup {r} /\ (r \in costed <=> r \in recPrior)
        BY <2>13, <3>1, <3>3 DEF IngestResult, RowsInv
      <4>2. Cardinality(costed') = IF r \in costed THEN Cardinality(costed)
                                   ELSE Cardinality(costed) + 1
        BY <4>1, CostedFinite, FS_AddElement
      <4>3. ~Unbooked /\ (Unbooked' <=> r \notin recPrior)
        BY <2>13, <3>1 DEF IngestResult, AfterIndex
      <4>4. PriorKnown'
        BY <2>13, <3>1, <3>3, <4>1 DEF IngestResult
      <4>5. spent' = spent /\ restarts' = restarts /\ unbilled' = unbilled
        BY <2>13 DEF IngestResult
      <4> QED BY <3>1, <3>3, <4>1, <4>2, <4>3, <4>4, <4>5, CostedFinite
    <3> QED BY <3>2, <3>3
  <2>14. ASSUME NEW r \in Runs, IngestTorn(r)
         PROVE  BookInv'
    BY <2>14 DEF IngestTorn, UpdateRun
  <2>15. ASSUME NEW r \in Runs, NoResultYet(r)
         PROVE  BookInv'
    BY <2>15 DEF NoResultYet, IsFirst
  <2>16. CASE IndexFails
    BY <2>16 DEF IndexFails, AfterIndex, Fault, Faults
  <2>17. CASE ChargeFails
    <3>1. /\ UNCHANGED <<expStatus, costed, spent, restarts>> /\ unbilled' = unbilled + 1
          /\ recPc' = "idle"
      BY <2>17 DEF ChargeFails
    <3>2. Missing' = 0 /\ Missing \in {0, 1} /\ PriorKnown'
      BY <3>1
    <3> QED BY <3>1, <3>2, CostedFinite
  <2>18. CASE ScanBreaks
    BY <2>18 DEF ScanBreaks, Fault, Faults
  <2>19. CASE ReconcileBreaks
    BY <2>19 DEF ReconcileBreaks, MayTick, Fault, Faults
  <2> QED BY <1>3, <2>1, <2>2, <2>3, <2>4, <2>5, <2>6, <2>7, <2>8, <2>9, <2>10,
     <2>11, <2>12, <2>13, <2>14, <2>15, <2>16, <2>17, <2>18, <2>19 DEF ReconcileStep
<1>4. CASE RequestStep
  <2>1. CASE Request
    BY <2>1 DEF Request
  <2>2. CASE CancelAnswered
    BY <2>2 DEF CancelAnswered
  <2>3. CASE RevokeTokens
    BY <2>3 DEF RevokeTokens
  <2>4. CASE RemoveOutputs
    BY <2>4 DEF RemoveOutputs
  <2>5. CASE UnlinkConfigs
    BY <2>5 DEF UnlinkConfigs
  <2>6. CASE DeleteRows
    BY <2>6, FS_EmptySet DEF DeleteRows
  <2>7. CASE DeleteBreaks
    BY <2>7 DEF DeleteBreaks, Fault, Faults
  <2> QED BY <1>4, <2>1, <2>2, <2>3, <2>4, <2>5, <2>6, <2>7 DEF RequestStep
<1>5. CASE Restart
  BY <1>5, CostedFinite DEF Restart
<1>6. ASSUME NEW c \in Callers, CancelStep(c)
      PROVE  BookInv'
  <2>1. CASE CancelBegin(c)
    BY <2>1 DEF CancelBegin
  <2>2. CASE CancelJobs(c)
    BY <2>2 DEF CancelJobs, InStatus, Fault, Faults
  <2>3. CASE CancelClose(c)
    BY <2>3 DEF CancelClose, UpdateExperiment
  <2>4. ASSUME NEW r \in Runs, CancelFlip(c, r)
         PROVE  BookInv'
    BY <2>4 DEF CancelFlip, UpdateRun
  <2>5. CASE CancelBreaks(c)
    BY <2>5 DEF CancelBreaks, Callers, Fault, Faults
  <2> QED BY <1>6, <2>1, <2>2, <2>3, <2>4, <2>5 DEF CancelStep
<1>7. ASSUME NEW r \in Runs, PodStep(r)
      PROVE  BookInv'
  <2>1. CASE PodStart(r)
    BY <2>1 DEF PodStart
  <2>2. CASE PodFails(r)
    BY <2>2 DEF PodFails, Fault, Faults
  <2>3. CASE PodLost(r)
    BY <2>3 DEF PodLost, Fault, Faults
  <2>4. CASE DeadlineExceeded(r)
    BY <2>4 DEF DeadlineExceeded, Fault, Faults
  <2>5. CASE PodWrite(r)
    BY <2>5 DEF PodWrite
  <2>6. CASE UploadBroken(r)
    BY <2>6 DEF UploadBroken, Fault, Faults
  <2>7. CASE PodExit(r)
    BY <2>7 DEF PodExit
  <2>8. CASE OrphanDies(r)
    BY <2>8 DEF OrphanDies
  <2>9. ASSUME NEW o \in Outcome, PodPublish(r, o)
         PROVE  BookInv'
    BY <2>9 DEF PodPublish
  <2>10. ASSUME NEW o \in Outcome, OrphanPublish(r, o)
         PROVE  BookInv'
    BY <2>10 DEF OrphanPublish
  <2> QED BY <1>7, <2>1, <2>2, <2>3, <2>4, <2>5, <2>6, <2>7, <2>8, <2>9, <2>10 DEF
     PodStep
<1>8. CASE UNCHANGED vars
  BY <1>8 DEF vars
<1> QED BY <1>1, <1>2, <1>3, <1>4, <1>5, <1>6, <1>7, <1>8 DEF Next

(* What a tick books is what the rows say, less a charge for each restart  *)
(* and each failed booking, whatever cancels or deletes between its steps. *)
THEOREM SpendIsBooked == Spec => []SpendAgrees
<1>1. Init => RowsInv /\ BookInv
  BY FS_EmptySet DEF Init, RowsInv, BookInv, PriorKnown, Missing, Unbooked
<1>2. TypeInv /\ RowsInv /\ BookInv /\ [Next]_vars => RowsInv' /\ BookInv'
  BY RowsStep, BookStep
<1>3. TypeInv /\ BookInv => SpendAgrees
  BY CostedFinite DEF BookInv, Missing, Unbooked, SpendAgrees, Booking, TypeInv, TypeOK
<1> QED BY <1>1, <1>2, <1>3, TypeInvariance, PTL DEF Spec

-----------------------------------------------------------------------------
(* The experiments page                                                    *)

(* Left alone, with a dispatch that fits between two ticks.                *)
Quiet == ~EarlyTicks /\ Requests = {} /\ MaxRestarts = 0

Alone == usrPc = "idle" /\ canPc["user"] = "off" /\ restarts = 0

(* The scheduler's rows are pending, and it is through before the first    *)
(* tick.                                                                   *)
DispatchFirst ==
    /\ recPc # "idle" \/ expStatus \in ExpTerminal => ~Dispatching
    /\ subPc = "idle" => subNext = 1
    /\ subPc # "idle" => expStatus # "absent"
    /\ subPc \in {"configs", "done"} => \A r \in Runs : runStatus[r] # "absent"
    /\ subPc = "rows" => \A r \in Runs : r < subNext => runStatus[r] = "pending"
    /\ subPc = "configs" => \A r \in Runs : runStatus[r] = "pending"
    /\ subPc = "done" /\ Dispatching => \A r \in schPending : runStatus[r] = "pending"

(* What the loop has in hand is still as it was read.                      *)
HandIsFresh ==
    /\ recPc \notin {"idle", "list", "cancel"} => expStatus = "pending"
    /\ recPc = "redispatch" => \A r \in recTodo : runStatus[r] = "pending"
    /\ recPc \in {"scan", "job", "index", "charge"} => \A r \in recTodo : runStatus[r] = "running"
    /\ recPc = "job" => runStatus[recRun] = "running" /\ recRun \notin recTodo
    /\ recPc \in {"finalize", "refinalize"} => \A r \in Runs : runStatus[r] \in RunTerminal
    /\ canPc["rec"] # "off" => recPc = "cancel" /\ expStatus = "pending"
    /\ canPc["rec"] = "flip" => canTodo["rec"] = InStatus({"pending", "running"})

CostedEnded == \A r \in costed : runStatus[r] \in RunTerminal

BoardInv == Alone /\ DispatchFirst /\ HandIsFresh /\ CostedEnded

LEMMA DispatchSame == UNCHANGED <<subVars, schVars>> => (Dispatching' <=> Dispatching)
  BY DEF Dispatching, Eligible, UnderCap, subVars, schVars

LEMMA ThroughFirst == BoardInv /\ recPc # "idle" => subPc = "done" /\ ~Dispatching
  BY DEF BoardInv, DispatchFirst, Dispatching

LEMMA BoardInvStep ==
  ASSUME Quiet, TypeInv, RowsInv, BoardInv, [Next]_vars
  PROVE  BoardInv'
<1> USE LifecycleAssumption DEF TypeInv, TypeOK, RunTerminal, ExpTerminal, Outcome, Callers,
       RunInHand, Quiet, BoardInv, Alone, DispatchFirst, HandIsFresh, CostedEnded,
       InStatus, dbVars, diskVars, k8sVars, subVars, schVars, recVars, canVars,
       memVars, bounds, history, losses
<1>1. CASE SubmitStep
  <2>1. CASE Submit
    BY <2>1 DEF Dispatching, Submit, RowsInv, Runs
  <2>2. CASE CreateRunRow
    <3>1. /\ recPc' = recPc /\ recTodo' = recTodo /\ recRun' = recRun /\ costed' = costed
          /\ canPc' = canPc /\ canTodo' = canTodo /\ expStatus' = expStatus /\ usrPc' = usrPc
          /\ schPc' = schPc /\ schPending' = schPending /\ restarts' = restarts
      BY <2>2 DEF CreateRunRow
    <3>2. recPc = "idle" /\ canPc["rec"] = "off"
      BY <2>2 DEF Dispatching, CreateRunRow
    <3>3. /\ subPc = "rows" /\ runStatus' = [runStatus EXCEPT ![subNext] = "pending"]
          /\ runStatus[subNext] = "absent"
      BY <2>2, RunNumbers DEF CreateRunRow, RowsInv, Runs
    <3>4. DispatchFirst'
      <4>1. \A r \in Runs : r < subNext => runStatus'[r] = "pending"
        BY <3>3 DEF Runs
      <4>2. runStatus'[subNext] = "pending" /\ expStatus \notin ExpTerminal /\ expStatus # "absent"
        BY <3>3 DEF Dispatching
      <4>3. CASE subNext < N
        <5>1. subPc' = "rows" /\ subNext' = subNext + 1
          BY <2>2, <4>3, <3>3 DEF CreateRunRow
        <5>2. \A r \in Runs : r < subNext + 1 => runStatus'[r] = "pending"
          BY <4>1, <4>2 DEF Runs
        <5> QED BY <3>1, <3>2, <4>2, <5>1, <5>2
      <4>4. CASE ~(subNext < N)
        <5>1. subPc' = "configs" /\ subNext = N
          BY <2>2, <4>4, <3>3 DEF CreateRunRow, Runs
        <5>2. \A r \in Runs : runStatus'[r] = "pending"
          BY <4>1, <4>2, <5>1 DEF Runs
        <5> QED BY <3>1, <3>2, <4>2, <5>1, <5>2
      <4> QED BY <4>3, <4>4
    <3>5. CostedEnded'
      BY <3>1, <3>3
    <3> QED BY <3>1, <3>2, <3>4, <3>5
  <2>3. CASE WriteConfigs
    BY <2>3 DEF Dispatching, WriteConfigs, StartThread
  <2>4. CASE IssueTokenAndWriteConfig
    BY <2>4 DEF Dispatching, IssueTokenAndWriteConfig, StartThread
  <2> QED BY <1>1, <2>1, <2>2, <2>3, <2>4 DEF SubmitStep
<1>2. CASE ScheduleStep
  <2>1. ASSUME NEW r \in Runs, ScheduleRun(r)
         PROVE  BoardInv'
    BY <2>1 DEF Dispatching, ScheduleRun, CreateJob, IsFirst, Eligible
  <2>2. ASSUME NEW r \in Runs, ScheduleRunFails(r)
         PROVE  BoardInv'
    BY <2>2 DEF Dispatching, ScheduleRunFails, Fault, Faults, AttemptFailed, UpdateRun, IsFirst, Eligible
  <2>3. CASE MarkRunning
    BY <2>3 DEF Dispatching, MarkRunning, UpdateRun
  <2>4. CASE MarkRunningFails
    BY <2>4 DEF Dispatching, MarkRunningFails, Fault, Faults, AttemptFailed, UpdateRun
  <2>5. CASE NextRound
    BY <2>5 DEF Dispatching, NextRound
  <2> QED BY <1>2, <2>1, <2>2, <2>3, <2>4, <2>5 DEF ScheduleStep
<1>3. CASE ReconcileStep
  <2>1. CASE Tick
    BY <2>1, DispatchSame DEF Tick, MayTick, DispatchedIds
  <2>2. CASE CountAfterRedispatch
    BY <2>2, DispatchSame, ThroughFirst DEF CountAfterRedispatch, Drained
  <2>3. CASE Finalize
    BY <2>3, DispatchSame DEF Finalize, UpdateExperiment
  <2>4. CASE ListRunning
    BY <2>4, DispatchSame DEF ListRunning, StillActive
  <2>5. CASE CheckJob
    BY <2>5, DispatchSame DEF CheckJob, UpdateRun, JobOutcome, Fault, Faults
  <2>6. CASE IndexFindings
    BY <2>6, DispatchSame DEF IndexFindings, AfterIndex
  <2>7. CASE Charge
    BY <2>7, DispatchSame DEF Charge, RecordJobCost, Trips
  <2>8. CASE RecheckStatus
    BY <2>8, DispatchSame DEF RecheckStatus, AfterScan, StillActive
  <2>9. CASE CountAfterScan
    BY <2>9, DispatchSame, ThroughFirst DEF CountAfterScan, Drained
  <2>10. ASSUME NEW r \in Runs, RedispatchFails(r)
         PROVE  BoardInv'
    BY <2>10, DispatchSame, ThroughFirst DEF RedispatchFails, UpdateRun, IsFirst
  <2>11. ASSUME NEW r \in Runs, RedispatchSkips(r)
         PROVE  BoardInv'
    BY <2>11, DispatchSame DEF RedispatchSkips
  <2>12. ASSUME NEW r \in Runs, Redispatch(r)
         PROVE  BoardInv'
    BY <2>12, DispatchSame DEF Redispatch, CreateJob, Fault, Faults
  <2>13. ASSUME NEW r \in Runs, IngestResult(r)
         PROVE  BoardInv'
    BY <2>13, DispatchSame DEF IngestResult, UpdateRun, AfterIndex, IsFirst
  <2>14. ASSUME NEW r \in Runs, IngestTorn(r)
         PROVE  BoardInv'
    BY <2>14, DispatchSame DEF IngestTorn, UpdateRun, IsFirst
  <2>15. ASSUME NEW r \in Runs, NoResultYet(r)
         PROVE  BoardInv'
    BY <2>15, DispatchSame DEF NoResultYet, IsFirst
  <2>16. CASE IndexFails
    BY <2>16, DispatchSame DEF IndexFails, AfterIndex, Fault, Faults
  <2>17. CASE ChargeFails
    BY <2>17, DispatchSame DEF ChargeFails, RecordJobCost, Trips, Fault, Faults
  <2>18. CASE ScanBreaks
    BY <2>18, DispatchSame DEF ScanBreaks, Fault, Faults
  <2>19. CASE ReconcileBreaks
    BY <2>19, DispatchSame DEF ReconcileBreaks, MayTick, Fault, Faults
  <2> QED BY <1>3, <2>1, <2>2, <2>3, <2>4, <2>5, <2>6, <2>7, <2>8, <2>9, <2>10,
     <2>11, <2>12, <2>13, <2>14, <2>15, <2>16, <2>17, <2>18, <2>19 DEF ReconcileStep
<1>4. CASE RequestStep
  <2>1. CASE Request
    BY <2>1, DispatchSame DEF Request
  <2>2. CASE CancelAnswered
    BY <2>2, DispatchSame DEF CancelAnswered
  <2>3. CASE RevokeTokens
    BY <2>3, DispatchSame DEF RevokeTokens
  <2>4. CASE RemoveOutputs
    BY <2>4, DispatchSame DEF RemoveOutputs
  <2>5. CASE UnlinkConfigs
    BY <2>5, DispatchSame DEF UnlinkConfigs
  <2>6. CASE DeleteRows
    BY <2>6, DispatchSame DEF DeleteRows
  <2>7. CASE DeleteBreaks
    BY <2>7, DispatchSame DEF DeleteBreaks, Fault, Faults
  <2> QED BY <1>4, <2>1, <2>2, <2>3, <2>4, <2>5, <2>6, <2>7 DEF RequestStep
<1>5. CASE Restart
  BY <1>5, DispatchSame DEF Restart, Quiet
<1>6. ASSUME NEW c \in Callers, CancelStep(c)
      PROVE  BoardInv'
  <2>1. CASE CancelBegin(c)
    BY <2>1, DispatchSame DEF CancelBegin
  <2>2. CASE CancelJobs(c)
    BY <2>2, DispatchSame DEF CancelJobs, Fault, Faults
  <2>3. CASE CancelClose(c)
    BY <2>3, DispatchSame DEF CancelClose, UpdateExperiment
  <2>4. ASSUME NEW r \in Runs, CancelFlip(c, r)
         PROVE  BoardInv'
    BY <2>4, DispatchSame, ThroughFirst DEF CancelFlip, UpdateRun, IsFirst
  <2>5. CASE CancelBreaks(c)
    BY <2>5, DispatchSame DEF CancelBreaks, Callers, Fault, Faults
  <2> QED BY <1>6, <2>1, <2>2, <2>3, <2>4, <2>5 DEF CancelStep
<1>7. ASSUME NEW r \in Runs, PodStep(r)
      PROVE  BoardInv'
  <2>1. CASE PodStart(r)
    BY <2>1, DispatchSame DEF PodStart
  <2>2. CASE PodFails(r)
    BY <2>2, DispatchSame DEF PodFails, Fault, Faults
  <2>3. CASE PodLost(r)
    BY <2>3, DispatchSame DEF PodLost, Fault, Faults
  <2>4. CASE DeadlineExceeded(r)
    BY <2>4, DispatchSame DEF DeadlineExceeded, Fault, Faults
  <2>5. CASE PodWrite(r)
    BY <2>5, DispatchSame DEF PodWrite
  <2>6. CASE UploadBroken(r)
    BY <2>6, DispatchSame DEF UploadBroken, Fault, Faults
  <2>7. CASE PodExit(r)
    BY <2>7, DispatchSame DEF PodExit
  <2>8. CASE OrphanDies(r)
    BY <2>8, DispatchSame DEF OrphanDies
  <2>9. ASSUME NEW o \in Outcome, PodPublish(r, o)
         PROVE  BoardInv'
    BY <2>9, DispatchSame DEF PodPublish
  <2>10. ASSUME NEW o \in Outcome, OrphanPublish(r, o)
         PROVE  BoardInv'
    BY <2>10, DispatchSame DEF OrphanPublish
  <2> QED BY <1>7, <2>1, <2>2, <2>3, <2>4, <2>5, <2>6, <2>7, <2>8, <2>9, <2>10 DEF
     PodStep
<1>8. CASE UNCHANGED vars
  BY <1>8, DispatchSame DEF vars
<1> QED BY <1>1, <1>2, <1>3, <1>4, <1>5, <1>6, <1>7, <1>8 DEF Next

(* A step keeps the promises of the page.                                  *)
Shown == [Board!BoardNext]_(Board!boardVars)
UpdateRow(r, s) == runStatus' = [runStatus EXCEPT ![r] = s]

LEMMA Stands == UNCHANGED <<runStatus, expStatus, spent>> => Shown
  BY DEF Shown, Board!boardVars

LEMMA RowMoves ==
    ASSUME expStatus = "pending", UNCHANGED <<expStatus, spent>>,
           NEW r \in Runs, NEW s \in Board!Step(runStatus[r]), UpdateRow(r, s)
    PROVE  Shown
  BY DEF UpdateRow, Shown, Board!BoardNext, Board!Move

LEMMA Moves ==
    /\ "pending" \in Board!Step("absent") /\ "running" \in Board!Step("pending")
    /\ \A s \in RunTerminal : s \in Board!Step("pending") /\ s \in Board!Step("running")
  BY DEF Board!Step, Board!Ended, RunTerminal

LEMMA Closes ==
    ASSUME expStatus = "pending", expStatus' \in {"completed", "cancelled"},
           \A r \in Runs : runStatus[r] \in RunTerminal, UNCHANGED <<runStatus, spent>>
    PROVE  Shown
  BY DEF Shown, Board!BoardNext, Board!Close, Board!Ended, RunTerminal

LEMMA InDispatch ==
    ASSUME TypeInv, BoardInv, Dispatching, subPc # "idle"
    PROVE  /\ expStatus = "pending"
           /\ subPc = "done" => \A r \in schPending : runStatus[r] = "pending"
  BY DEF TypeInv, TypeOK, BoardInv, DispatchFirst, ExpTerminal

\* ExperimentBoard counts with its own copy of the operator.
LEMMA SameCount == \A S : Board!Cardinality(S) = Cardinality(S)
  BY DEF Cardinality, Board!Cardinality, IsFiniteSet, Board!IsFiniteSet

LEMMA BoardStep ==
  ASSUME Quiet, TypeInv, RowsInv, BookInv, BoardInv, [Next]_vars
  PROVE  Shown
<1> USE LifecycleAssumption DEF TypeInv, TypeOK, RunTerminal, ExpTerminal, Outcome, RunInHand,
       BoardInv, dbVars, diskVars, k8sVars, subVars, schVars, recVars, canVars, memVars,
       bounds, history, losses
<1>1. CASE SubmitStep
  <2>1. CASE Submit
    BY <2>1 DEF Submit, RowsInv, Shown, Board!BoardNext, Board!Announce
  <2>2. CASE CreateRunRow
    <3>1. expStatus = "pending"
      BY <2>2, InDispatch DEF CreateRunRow, Dispatching
    <3>2. runStatus[subNext] = "absent"
      <4>1. subNext \in Runs /\ subNext >= subNext
        BY DEF Runs
      <4> QED BY <2>2, <4>1 DEF CreateRunRow, RowsInv
    <3>3. UpdateRow(subNext, "pending") /\ UNCHANGED <<expStatus, spent>>
      BY <2>2 DEF CreateRunRow, UpdateRow
    <3> QED BY <3>1, <3>2, <3>3, RowMoves, Moves
  <2>3. CASE WriteConfigs
    BY <2>3, Stands DEF WriteConfigs, StartThread
  <2>4. CASE IssueTokenAndWriteConfig
    BY <2>4, Stands DEF IssueTokenAndWriteConfig, StartThread
  <2> QED BY <1>1, <2>1, <2>2, <2>3, <2>4 DEF SubmitStep
<1>2. CASE ScheduleStep
  <2>1. ASSUME NEW r \in Runs, ScheduleRun(r)
         PROVE  Shown
    BY <2>1, Stands DEF ScheduleRun, CreateJob, IsFirst, Eligible
  <2>2. ASSUME NEW r \in Runs, ScheduleRunFails(r)
         PROVE  Shown
    <3>1. r \in schPending /\ Dispatching
      BY <2>2 DEF ScheduleRunFails, IsFirst, Eligible, Dispatching
    <3>2. expStatus = "pending" /\ runStatus[r] = "pending"
      BY <3>1, <2>2, InDispatch DEF ScheduleRunFails
    <3>3. UNCHANGED <<expStatus, spent>> /\ (runStatus' = runStatus \/ UpdateRow(r, "failed"))
      BY <2>2, <3>2 DEF ScheduleRunFails, AttemptFailed, UpdateRun, UpdateRow
    <3> QED BY <3>2, <3>3, RowMoves, Moves, Stands
  <2>3. CASE MarkRunning
    <3>1. schRun \in schPending /\ Dispatching
      BY <2>3 DEF MarkRunning, Dispatching
    <3>2. expStatus = "pending" /\ runStatus[schRun] = "pending"
      BY <3>1, <2>3, InDispatch DEF MarkRunning
    <3>3. UNCHANGED <<expStatus, spent>> /\ UpdateRow(schRun, "running")
      BY <2>3, <3>2 DEF MarkRunning, UpdateRun, UpdateRow
    <3> QED BY <3>1, <3>2, <3>3, RowMoves, Moves
  <2>4. CASE MarkRunningFails
    <3>1. schRun \in schPending /\ Dispatching
      BY <2>4 DEF MarkRunningFails, Dispatching
    <3>2. expStatus = "pending" /\ runStatus[schRun] = "pending"
      BY <3>1, <2>4, InDispatch DEF MarkRunningFails
    <3>3. UNCHANGED <<expStatus, spent>> /\ (runStatus' = runStatus \/ UpdateRow(schRun, "failed"))
      BY <2>4, <3>2 DEF MarkRunningFails, AttemptFailed, UpdateRun, UpdateRow
    <3> QED BY <3>1, <3>2, <3>3, RowMoves, Moves, Stands
  <2>5. CASE NextRound
    BY <2>5, Stands DEF NextRound
  <2> QED BY <1>2, <2>1, <2>2, <2>3, <2>4, <2>5 DEF ScheduleStep
<1>3. CASE ReconcileStep
  <2>1. CASE Tick
    BY <2>1, Stands DEF Tick, InStatus, DispatchedIds
  <2>2. CASE CountAfterRedispatch
    BY <2>2, Stands DEF CountAfterRedispatch
  <2>3. CASE Finalize
    BY <2>3, Closes DEF Finalize, UpdateExperiment, HandIsFresh
  <2>4. CASE ListRunning
    BY <2>4, Stands DEF ListRunning, InStatus, StillActive
  <2>5. CASE CheckJob
    <3>1. UNCHANGED <<expStatus, spent>>
          /\ (runStatus' = runStatus \/ UpdateRow(recRun, "failed"))
      BY <2>5 DEF CheckJob, UpdateRun, JobOutcome, UpdateRow, HandIsFresh
    <3>2. recRun \in Runs /\ runStatus[recRun] = "running" /\ expStatus = "pending"
      BY <2>5 DEF CheckJob, HandIsFresh
    <3> QED BY <3>1, <3>2, RowMoves, Moves, Stands
  <2>6. CASE IndexFindings
    BY <2>6, Stands DEF IndexFindings, AfterIndex
  <2>7. CASE Charge
    <3> DEFINE ended == {r \in Runs : runStatus[r] \in Board!Ended}
    <3>1. expStatus = "pending" /\ spent' = spent + 1 /\ UNCHANGED <<runStatus, expStatus>>
      BY <2>7 DEF Charge, RecordJobCost, HandIsFresh
    <3>2. spent < Cardinality(costed)
      BY <2>7, <3>1, CostedFinite DEF Charge, BookInv, Missing, Unbooked
    <3>3. costed \subseteq ended /\ ended \subseteq Runs
      BY DEF CostedEnded, Board!Ended
    <3>4. Cardinality(costed) <= Cardinality(ended) /\ Cardinality(ended) \in Nat
      BY <3>3, CostedFinite, FS_Subset
    <3>5. spent < Cardinality(ended)
      BY <3>2, <3>4, CostedFinite
    <3>6. Board!Bill
      BY <3>1, <3>5, SameCount, Zenon DEF Board!Bill
    <3> QED BY <3>6 DEF Shown, Board!BoardNext
  <2>8. CASE RecheckStatus
    BY <2>8, Stands DEF RecheckStatus, AfterScan, StillActive
  <2>9. CASE CountAfterScan
    BY <2>9, Stands DEF CountAfterScan
  <2>10. ASSUME NEW r \in Runs, RedispatchFails(r)
         PROVE  Shown
    <3>1. runStatus[r] = "pending" /\ expStatus = "pending"
      BY <2>10 DEF RedispatchFails, IsFirst, HandIsFresh
    <3>2. UNCHANGED <<expStatus, spent>> /\ UpdateRow(r, "failed")
      BY <2>10, <3>1 DEF RedispatchFails, UpdateRun, UpdateRow
    <3> QED BY <2>10, <3>1, <3>2, RowMoves, Moves
  <2>11. ASSUME NEW r \in Runs, RedispatchSkips(r)
         PROVE  Shown
    BY <2>11, Stands DEF RedispatchSkips
  <2>12. ASSUME NEW r \in Runs, Redispatch(r)
         PROVE  Shown
    BY <2>12, Stands DEF Redispatch, CreateJob, Fault, Faults
  <2>13. ASSUME NEW r \in Runs, IngestResult(r)
         PROVE  Shown
    <3>1. runStatus[r] = "running" /\ expStatus = "pending"
      BY <2>13 DEF IngestResult, IsFirst, HandIsFresh
    <3>2. UNCHANGED <<expStatus, spent>> /\ UpdateRow(r, result[r])
      BY <2>13, <3>1 DEF IngestResult, UpdateRun, UpdateRow
    <3> QED BY <2>13, <3>1, <3>2, RowMoves, Moves DEF IngestResult
  <2>14. ASSUME NEW r \in Runs, IngestTorn(r)
         PROVE  Shown
    <3>1. runStatus[r] = "running" /\ expStatus = "pending"
      BY <2>14 DEF IngestTorn, IsFirst, HandIsFresh
    <3>2. UNCHANGED <<expStatus, spent>> /\ UpdateRow(r, "failed")
      BY <2>14, <3>1 DEF IngestTorn, UpdateRun, UpdateRow
    <3> QED BY <2>14, <3>1, <3>2, RowMoves, Moves
  <2>15. ASSUME NEW r \in Runs, NoResultYet(r)
         PROVE  Shown
    BY <2>15, Stands DEF NoResultYet, IsFirst
  <2>16. CASE IndexFails
    BY <2>16, Stands DEF IndexFails, AfterIndex, Fault, Faults
  <2>17. CASE ChargeFails
    BY <2>17, Stands DEF ChargeFails, RecordJobCost, Trips, Fault, Faults
  <2>18. CASE ScanBreaks
    BY <2>18, Stands DEF ScanBreaks, Fault, Faults
  <2>19. CASE ReconcileBreaks
    BY <2>19, Stands DEF ReconcileBreaks, MayTick, Fault, Faults
  <2> QED BY <1>3, <2>1, <2>2, <2>3, <2>4, <2>5, <2>6, <2>7, <2>8, <2>9, <2>10,
     <2>11, <2>12, <2>13, <2>14, <2>15, <2>16, <2>17, <2>18, <2>19 DEF ReconcileStep
<1>4. CASE RequestStep
  BY <1>4 DEF RequestStep, Request, CancelAnswered, RevokeTokens, RemoveOutputs, UnlinkConfigs,
     DeleteRows, DeleteBreaks, Quiet, Alone
<1>5. CASE Restart
  BY <1>5 DEF Restart, Quiet, Alone
<1>6. ASSUME NEW c \in Callers, CancelStep(c)
      PROVE  Shown
  <2>1. CASE CancelBegin(c)
    BY <2>1, Stands DEF CancelBegin
  <2>2. CASE CancelJobs(c)
    BY <2>2, Stands DEF CancelJobs, InStatus, Fault, Faults
  <2>3. CASE CancelClose(c)
    <3>1. c = "rec" /\ expStatus = "pending" /\ subPc = "done"
      BY <2>3, ThroughFirst DEF CancelClose, Alone, HandIsFresh, Callers
    <3>2. \A r \in Runs : runStatus[r] \in RunTerminal
      BY <2>3, <3>1 DEF CancelClose, HandIsFresh, InStatus, DispatchFirst
    <3> QED BY <2>3, <3>1, <3>2, Closes DEF CancelClose, UpdateExperiment
  <2>4. ASSUME NEW r \in Runs, CancelFlip(c, r)
         PROVE  Shown
    <3>1. c = "rec" /\ expStatus = "pending" /\ runStatus[r] \in {"pending", "running"}
      BY <2>4 DEF CancelFlip, IsFirst, Alone, HandIsFresh, InStatus, Callers
    <3>2. UNCHANGED <<expStatus, spent>> /\ UpdateRow(r, "cancelled")
      BY <2>4, <3>1 DEF CancelFlip, UpdateRun, UpdateRow
    <3> QED BY <3>1, <3>2, RowMoves, Moves
  <2>5. CASE CancelBreaks(c)
    BY <2>5, Stands DEF CancelBreaks, Callers, Fault, Faults
  <2> QED BY <1>6, <2>1, <2>2, <2>3, <2>4, <2>5 DEF CancelStep
<1>7. ASSUME NEW r \in Runs, PodStep(r)
      PROVE  Shown
  <2>1. CASE PodStart(r)
    BY <2>1, Stands DEF PodStart
  <2>2. CASE PodFails(r)
    BY <2>2, Stands DEF PodFails, Fault, Faults
  <2>3. CASE PodLost(r)
    BY <2>3, Stands DEF PodLost, Fault, Faults
  <2>4. CASE DeadlineExceeded(r)
    BY <2>4, Stands DEF DeadlineExceeded, Fault, Faults
  <2>5. CASE PodWrite(r)
    BY <2>5, Stands DEF PodWrite
  <2>6. CASE UploadBroken(r)
    BY <2>6, Stands DEF UploadBroken, Fault, Faults
  <2>7. CASE PodExit(r)
    BY <2>7, Stands DEF PodExit
  <2>8. CASE OrphanDies(r)
    BY <2>8, Stands DEF OrphanDies
  <2>9. ASSUME NEW o \in Outcome, PodPublish(r, o)
         PROVE  Shown
    BY <2>9, Stands DEF PodPublish
  <2>10. ASSUME NEW o \in Outcome, OrphanPublish(r, o)
         PROVE  Shown
    BY <2>10, Stands DEF OrphanPublish
  <2> QED BY <1>7, <2>1, <2>2, <2>3, <2>4, <2>5, <2>6, <2>7, <2>8, <2>9, <2>10 DEF
     PodStep
<1>8. CASE UNCHANGED vars
  BY <1>8, Stands DEF vars
<1> QED BY <1>1, <1>2, <1>3, <1>4, <1>5, <1>6, <1>7, <1>8 DEF Next

(* Left alone, with a dispatch that fits between two ticks, the coordinator *)
(* takes only the steps that the experiments page promises, whatever the    *)
(* caps and faults.                                                         *)
THEOREM BoardIsKept ==
    ASSUME Quiet
    PROVE  Spec => Board!Open /\ [][Board!BoardNext]_(Board!boardVars)
<1>1. Init => RowsInv /\ BookInv /\ BoardInv /\ Board!Open
  <2>1. Init => RowsInv /\ BookInv
    BY FS_EmptySet DEF Init, RowsInv, BookInv, PriorKnown, Missing, Unbooked
  <2>2. Init => BoardInv /\ Board!Open
    BY DEF Init, BoardInv, Alone, DispatchFirst, HandIsFresh, CostedEnded, Callers, ExpTerminal,
       Dispatching, Board!Open
  <2> QED BY <2>1, <2>2
<1>2. TypeInv /\ RowsInv /\ BookInv /\ BoardInv /\ [Next]_vars
      => RowsInv' /\ BookInv' /\ BoardInv' /\ [Board!BoardNext]_(Board!boardVars)
  BY RowsStep, BookStep, BoardInvStep, BoardStep DEF Shown
<1> QED BY <1>1, <1>2, TypeInvariance, PTL DEF Spec
=============================================================================
