---------------------------- MODULE OutputsProofs ----------------------------
(***************************************************************************)
(* What becomes of results: the safety properties of UploadCommit, the     *)
(* upload of one run, for any number of replicas, attempts and restarts,   *)
(* and those of BundleImport, imports, exports and deletions over the same *)
(* outputs/ directory, for any experiments, runs, datasets and requests.   *)
(***************************************************************************)
EXTENDS UploadCommit, BundleImport, FiniteSetTheorems, TLAPS

(***************************************************************************)
(* UploadCommit                                                            *)
(***************************************************************************)

(* A request handler that holds the token's permission.                    *)
Admitted(q) == handler[q] \in {"lookup", "stage", "stream"}

(* Until the token is spent nobody was let in, and nobody was turned away  *)
(* or served.                                                              *)
Unspent == token = "issued" => authorised = {}
SpentBehind ==
    \A q \in Requests : Admitted(q) \/ reply[q] \in {"ok", "refused"} => token # "issued"

(* A winner is past consume_upload_token for good.                         *)
PastConsume == \A q \in authorised : handler[q] \notin {"none", "select", "update"}
OneWinner == \A p, q \in authorised : p = q

(* Attempts a worker has not made have no handler; an answered one is over. *)
FreshAhead ==
    \A w \in Replicas : \A k \in 1..MaxAttempts :
        \/ worker[w] \in {"review", "send"} /\ k >= attempt[w]
        \/ worker[w] = "wait" /\ k > attempt[w]
        => handler[<<w, k>>] = "none"
Replied == \A q \in Requests : reply[q] # "none" => handler[q] = "done"

(* Only a deletion takes a directory from under an upload, and it has      *)
(* revoked the token by then.                                              *)
RevokedByDeleter == deleter # "idle" => token = "none"
Streaming == token = "consumed" =>
                \A q \in Requests : handler[q] = "stream" => q \in staging

IInv ==
    /\ TypeOK
    /\ Unspent /\ SpentBehind /\ OneWinner /\ PastConsume
    /\ FreshAhead /\ Replied
    /\ RevokedByDeleter /\ Streaming
    /\ NoLeakedStaging /\ ExitZeroMeansSpent /\ ResultLostOnlyByFault

-----------------------------------------------------------------------------
LEMMA RequestOfWorker ==
    ASSUME TypeOK, NEW w \in Replicas
    PROVE  <<w, attempt[w]>> \in Requests
  BY UploadAssumption DEF TypeOK, Requests

LEMMA InitHolds == Init => IInv
  BY UploadAssumption
  DEF Init, IInv, TypeOK, Unspent, SpentBehind, OneWinner, PastConsume, FreshAhead, Replied,
      RevokedByDeleter, Streaming, NoLeakedStaging, ExitZeroMeansSpent,
      ResultLostOnlyByFault, Admitted, Requests, HandlerPc, ReplyCode, WorkerPc, DeleterPc

(* Every action keeps the type.                                            *)
LEMMA TypeStep == TypeOK /\ [Next]_vars => TypeOK'
<1> SUFFICES ASSUME TypeOK, [Next]_vars PROVE TypeOK'
  OBVIOUS
<1> USE UploadAssumption DEF TypeOK, HandlerPc, ReplyCode, WorkerPc, DeleterPc,
        dbVars, diskVars, serverVars, clientVars
<1>1. ASSUME NEW w \in Replicas, WorkerStep(w) PROVE TypeOK'
  <2>1. CASE FinishReview(w) \/ PodLost(w)
    BY <2>1 DEF FinishReview, PodLost
  <2>2. CASE Post(w)
    BY <2>2, RequestOfWorker DEF Post
  <2>3. CASE ReceiveReply(w)
    BY <2>3 DEF ReceiveReply, RetryOrGiveUp
  <2>4. CASE TransportError(w)
    BY <2>4 DEF TransportError, RetryOrGiveUp
  <2> QED BY <1>1, <2>1, <2>2, <2>3, <2>4 DEF WorkerStep
<1>2. ASSUME NEW q \in Requests, HandlerStep(q) PROVE TypeOK'
  <2>1. CASE ConsumeSelect(q) \/ LookupRun(q)
    BY <2>1 DEF ConsumeSelect, LookupRun, Answer
  <2>2. CASE ConsumeUpdate(q)
    BY <2>2 DEF ConsumeUpdate, Answer
  <2>3. CASE OpenStaging(q)
    BY <2>3 DEF OpenStaging
  <2>4. CASE RejectBody(q)
    BY <2>4 DEF RejectBody, StagingWithout, Answer
  <2>5. CASE CommitResult(q)
    BY <2>5 DEF CommitResult, StagingWithout, Answer
  <2> QED BY <1>2, <2>1, <2>2, <2>3, <2>4, <2>5 DEF HandlerStep
<1>3. CASE DeleteStep
  BY <1>3 DEF DeleteStep, RevokeTokens, RemoveOutputs, DeleteRows
<1>4. CASE ScrubStaging
  BY <1>4 DEF ScrubStaging
<1>5. CASE Restart
  BY <1>5 DEF Restart
<1>6. CASE UNCHANGED vars
  BY <1>6 DEF vars
<1> QED BY <1>1, <1>2, <1>3, <1>4, <1>5, <1>6 DEF Next

(* The token's part: permission is given once, while it is unspent.        *)
LEMMA TokenStep ==
  ASSUME IInv, TypeOK', [Next]_vars
  PROVE  Unspent' /\ SpentBehind' /\ OneWinner' /\ RevokedByDeleter'
<1> USE UploadAssumption
    DEF IInv, Unspent, SpentBehind, OneWinner, RevokedByDeleter, Admitted,
        dbVars, diskVars, serverVars, clientVars
<1>1. ASSUME NEW w \in Replicas, WorkerStep(w)
      PROVE  Unspent' /\ SpentBehind' /\ OneWinner' /\ RevokedByDeleter'
  <2> <<w, attempt[w]>> \in Requests
    BY RequestOfWorker
  <2>1. CASE FinishReview(w)
    BY <2>1 DEF FinishReview, TypeOK, Requests
  <2>2. CASE Post(w)
    BY <2>2 DEF Post, TypeOK, Requests
  <2>3. CASE ReceiveReply(w)
    BY <2>3 DEF ReceiveReply, RetryOrGiveUp, TypeOK, Requests
  <2>4. CASE TransportError(w)
    BY <2>4 DEF TransportError, RetryOrGiveUp, TypeOK, Requests
  <2>5. CASE PodLost(w)
    BY <2>5 DEF PodLost, TypeOK, Requests
  <2> QED BY <1>1, <2>1, <2>2, <2>3, <2>4, <2>5 DEF WorkerStep
<1>2. ASSUME NEW q \in Requests, HandlerStep(q)
      PROVE  Unspent' /\ SpentBehind' /\ OneWinner' /\ RevokedByDeleter'
  <2>1. CASE ConsumeSelect(q)
    BY <2>1 DEF ConsumeSelect, Answer, TypeOK
  <2>2. CASE ConsumeUpdate(q)
    BY <2>2 DEF ConsumeUpdate, Answer, UpdateMatches, TypeOK
  <2>3. CASE LookupRun(q)
    BY <2>3 DEF LookupRun, Answer, TypeOK
  <2>4. CASE OpenStaging(q)
    BY <2>4 DEF OpenStaging, TypeOK
  <2>5. CASE RejectBody(q)
    BY <2>5 DEF RejectBody, Answer, StagingWithout, TypeOK
  <2>6. CASE CommitResult(q)
    BY <2>6 DEF CommitResult, Answer, StagingWithout, TypeOK
  <2> QED BY <1>2, <2>1, <2>2, <2>3, <2>4, <2>5, <2>6 DEF HandlerStep
<1>3. CASE RevokeTokens
  BY <1>3 DEF RevokeTokens, TypeOK
<1>4. CASE RemoveOutputs
  BY <1>4 DEF RemoveOutputs, TypeOK
<1>5. CASE DeleteRows
  BY <1>5 DEF DeleteRows, TypeOK
<1>6. CASE ScrubStaging
  BY <1>6 DEF ScrubStaging, Stale, TypeOK
<1>7. CASE Restart
  BY <1>7 DEF Restart, InProgress, TypeOK
<1>8. CASE UNCHANGED vars
  BY <1>8 DEF vars
<1> QED BY <1>1, <1>2, <1>3, <1>4, <1>5, <1>6, <1>7, <1>8 DEF Next, DeleteStep

(* Requests and their directories.                                         *)
LEMMA HandlerStepKeeps ==
  ASSUME IInv, TypeOK', [Next]_vars
  PROVE  FreshAhead' /\ PastConsume' /\ Replied' /\ Streaming' /\ NoLeakedStaging'
<1> USE UploadAssumption
    DEF IInv, FreshAhead, PastConsume, Replied, Streaming, NoLeakedStaging, SpentBehind,
        RevokedByDeleter, Admitted, dbVars, diskVars, serverVars, clientVars
<1> \A w \in Replicas, k \in 1..MaxAttempts : <<w, k>> \in Requests
  BY DEF Requests
<1>1. ASSUME NEW w \in Replicas, WorkerStep(w)
      PROVE  FreshAhead' /\ PastConsume' /\ Replied' /\ Streaming' /\ NoLeakedStaging'
  <2> <<w, attempt[w]>> \in Requests
    BY RequestOfWorker
  <2>1. CASE FinishReview(w)
    BY <2>1 DEF FinishReview, TypeOK, Requests
  <2>2. CASE Post(w)
    BY <2>2 DEF Post, TypeOK, Requests
  <2>3. CASE ReceiveReply(w)
    BY <2>3 DEF ReceiveReply, RetryOrGiveUp, TypeOK, Requests
  <2>4. CASE TransportError(w)
    BY <2>4 DEF TransportError, RetryOrGiveUp, TypeOK, Requests
  <2>5. CASE PodLost(w)
    BY <2>5 DEF PodLost, TypeOK, Requests
  <2> QED BY <1>1, <2>1, <2>2, <2>3, <2>4, <2>5 DEF WorkerStep
<1>2. ASSUME NEW q \in Requests, HandlerStep(q)
      PROVE  FreshAhead' /\ PastConsume' /\ Replied' /\ Streaming' /\ NoLeakedStaging'
  <2>1. CASE ConsumeSelect(q)
    BY <2>1 DEF ConsumeSelect, Answer, TypeOK
  <2>2. CASE ConsumeUpdate(q)
    BY <2>2 DEF ConsumeUpdate, Answer, UpdateMatches, TypeOK
  <2>3. CASE LookupRun(q)
    BY <2>3 DEF LookupRun, Answer, TypeOK
  <2>4. CASE OpenStaging(q)
    BY <2>4 DEF OpenStaging, TypeOK
  <2>5. CASE RejectBody(q)
    BY <2>5 DEF RejectBody, Answer, StagingWithout, TypeOK
  <2>6. CASE CommitResult(q)
    BY <2>6 DEF CommitResult, Answer, StagingWithout, TypeOK
  <2> QED BY <1>2, <2>1, <2>2, <2>3, <2>4, <2>5, <2>6 DEF HandlerStep
<1>3. CASE RevokeTokens
  BY <1>3 DEF RevokeTokens, TypeOK
<1>4. CASE RemoveOutputs
  BY <1>4 DEF RemoveOutputs, TypeOK
<1>5. CASE DeleteRows
  BY <1>5 DEF DeleteRows, TypeOK
<1>6. CASE ScrubStaging
  BY <1>6 DEF ScrubStaging, Stale, TypeOK
<1>7. CASE Restart
  BY <1>7 DEF Restart, InProgress, TypeOK
<1>8. CASE UNCHANGED vars
  BY <1>8 DEF vars
<1> QED BY <1>1, <1>2, <1>3, <1>4, <1>5, <1>6, <1>7, <1>8 DEF Next, DeleteStep

(* What the worker and the disk may conclude.                              *)
LEMMA OutcomeStep ==
  ASSUME IInv, TypeOK', [Next]_vars
  PROVE  ExitZeroMeansSpent' /\ ResultLostOnlyByFault'
<1> USE UploadAssumption
    DEF IInv, ExitZeroMeansSpent, ResultLostOnlyByFault, InProgress, Faulted, SpentBehind,
        Admitted, PastConsume, Streaming, Replied, RevokedByDeleter,
        dbVars, diskVars, serverVars, clientVars
<1>1. ASSUME NEW w \in Replicas, WorkerStep(w)
      PROVE  ExitZeroMeansSpent' /\ ResultLostOnlyByFault'
  <2> <<w, attempt[w]>> \in Requests
    BY RequestOfWorker
  <2>1. CASE FinishReview(w)
    BY <2>1 DEF FinishReview, TypeOK, Requests
  <2>2. CASE Post(w)
    BY <2>2 DEF Post, TypeOK, Requests
  <2>3. CASE ReceiveReply(w)
    BY <2>3 DEF ReceiveReply, RetryOrGiveUp, TypeOK, Requests
  <2>4. CASE TransportError(w)
    BY <2>4 DEF TransportError, RetryOrGiveUp, TypeOK, Requests
  <2>5. CASE PodLost(w)
    BY <2>5 DEF PodLost, TypeOK, Requests
  <2> QED BY <1>1, <2>1, <2>2, <2>3, <2>4, <2>5 DEF WorkerStep
<1>2. ASSUME NEW q \in Requests, HandlerStep(q)
      PROVE  ExitZeroMeansSpent' /\ ResultLostOnlyByFault'
  <2>1. CASE ConsumeSelect(q)
    BY <2>1 DEF ConsumeSelect, Answer, TypeOK
  <2>2. CASE ConsumeUpdate(q)
    BY <2>2 DEF ConsumeUpdate, Answer, UpdateMatches, TypeOK
  <2>3. CASE LookupRun(q)
    BY <2>3 DEF LookupRun, Answer, TypeOK
  <2>4. CASE OpenStaging(q)
    BY <2>4 DEF OpenStaging, TypeOK
  <2>5. CASE RejectBody(q)
    BY <2>5 DEF RejectBody, Answer, StagingWithout, TypeOK
  <2>6. CASE CommitResult(q)
    BY <2>6 DEF CommitResult, Answer, StagingWithout, TypeOK
  <2> QED BY <1>2, <2>1, <2>2, <2>3, <2>4, <2>5, <2>6 DEF HandlerStep
<1>3. CASE RevokeTokens
  BY <1>3 DEF RevokeTokens, TypeOK
<1>4. CASE RemoveOutputs
  BY <1>4 DEF RemoveOutputs, TypeOK
<1>5. CASE DeleteRows
  BY <1>5 DEF DeleteRows, TypeOK
<1>6. CASE ScrubStaging
  BY <1>6 DEF ScrubStaging, Stale, TypeOK
<1>7. CASE Restart
  BY <1>7 DEF Restart, InProgress, TypeOK
<1>8. CASE UNCHANGED vars
  BY <1>8 DEF vars
<1> QED BY <1>1, <1>2, <1>3, <1>4, <1>5, <1>6, <1>7, <1>8 DEF Next, DeleteStep

-----------------------------------------------------------------------------
LEMMA IInvStep == IInv /\ [Next]_vars => IInv'
<1> SUFFICES ASSUME IInv, [Next]_vars PROVE IInv'
  OBVIOUS
<1>1. TypeOK'
  BY TypeStep DEF IInv
<1> QED BY <1>1, TokenStep, HandlerStepKeeps, OutcomeStep DEF IInv

THEOREM Invariance == Spec => []IInv
<1> QED BY InitHolds, IInvStep, PTL DEF Spec

(* Every variable keeps its type.                                          *)
THEOREM TypeCorrect == Spec => []TypeOK
<1>1. IInv => TypeOK
  BY DEF IInv
<1> QED BY Invariance, <1>1, PTL

(* However many replicas and retries race between the SELECT and the       *)
(* UPDATE of consume_upload_token, the token lets one request in.          *)
THEOREM TokenIsSingleUse == Spec => []SingleUse
<1>1. IInv => SingleUse
  <2> SUFFICES ASSUME OneWinner PROVE SingleUse
    BY DEF IInv
  <2>1. CASE authorised = {}
    BY <2>1, FS_EmptySet DEF SingleUse
  <2>2. ASSUME NEW q \in authorised PROVE SingleUse
    <3>1. authorised = {q}
      BY DEF OneWinner
    <3>2. Cardinality({q}) = 1
      BY FS_Singleton
    <3> QED BY <3>1, <3>2 DEF SingleUse
  <2> QED BY <2>1, <2>2
<1> QED BY Invariance, <1>1, PTL

(* No path out of the upload handler leaves its staging directory behind.  *)
THEOREM StagingIsCleaned == Spec => []NoLeakedStaging
<1>1. IInv => NoLeakedStaging
  BY DEF IInv
<1> QED BY Invariance, <1>1, PTL

(* A worker exits 0 only when its run's token is no longer to be had.      *)
THEOREM ExitZeroIsEarned == Spec => []ExitZeroMeansSpent
<1>1. IInv => ExitZeroMeansSpent
  BY DEF IInv
<1> QED BY Invariance, <1>1, PTL

(* A run whose token is spent and which has no result met a fault: neither *)
(* the staging sweep nor a second upload takes a result away.              *)
THEOREM ResultsAreKept == Spec => []ResultLostOnlyByFault
<1>1. IInv => ResultLostOnlyByFault
  BY DEF IInv
<1> QED BY Invariance, <1>1, PTL

-----------------------------------------------------------------------------
(***************************************************************************)
(* BundleImport                                                            *)
(***************************************************************************)

\* NULL is no id and no name.
LEMMA NoRowIsNoId == NoRow \notin ExpIds /\ NoRow \notin Names
  BY ConstantsAssumption

\* The record of a request that has not arrived is well formed.
LEMMA EveryIdleIsARequest == Idle \in Request /\ Nothing \in Bundle
<1>1. Nothing \in Bundle
  <2>1. (CHOOSE e \in Exps : TRUE) \in Exps
    BY ConstantsAssumption
  <2> QED BY <2>1 DEF Nothing, Bundle
<1> QED BY <1>1 DEF Idle, Request, Over, Policies

\* The first state has its shape.
LEMMA InitTyped == BundleInit => BundleTypeOK
<1> SUFFICES ASSUME BundleInit PROVE BundleTypeOK
  OBVIOUS
<1>1. runs \in [Runs -> ExpIds \cup {NoRow}]
  <2>1. \A x \in Runs : (\E e \in Exps : x \in Local[e])
                        => (CHOOSE e \in Exps : x \in Local[e]) \in Exps
    OBVIOUS
  <2> QED BY <2>1 DEF BundleInit, ExpIds
<1>2. req \in [Transfers -> Request]
  BY EveryIdleIsARequest DEF BundleInit
<1>3. labels \in [Datasets -> Names \cup {NoRow}]
  BY DEF BundleInit, Names
<1>4. zips \subseteq Bundle
  BY ConstantsAssumption DEF BundleInit
<1>5. exps \subseteq ExpIds /\ outputs \in [ExpIds -> SUBSET Runs] /\ datasets \subseteq Names
      /\ trees \subseteq Names /\ findings \in [Runs -> ExpIds \cup {NoRow}] /\ tmp \subseteq Transfers
      /\ dirs \subseteq ExpIds /\ configs \in [Runs -> {"none", "token", "bare"}] /\ kills \in Nat
  BY DEF BundleInit, ExpIds, Names
<1> QED BY <1>1, <1>2, <1>3, <1>4, <1>5 DEF BundleTypeOK

\* r is s, but for the memory of a rival.
SameBut(r, s) ==
    /\ r.pc = s.pc /\ r.op = s.op /\ r.policy = s.policy /\ r.zip = s.zip
    /\ r.target = s.target /\ r.renamed = s.renamed /\ r.left = s.left

\* To remember a rival changes nothing else of a request.
LEMMA RivalTyped ==
    ASSUME NEW r \in Request, NEW b \in BOOLEAN, NEW s, s = [r EXCEPT !.rival = b]
    PROVE  s \in Request /\ SameBut(s, r) /\ (s.rival <=> b)
  BY DEF Request, SameBut

\* A request that arrives takes a request's shape, and may make others rivals.
LEMMA ArriveTyped ==
    ASSUME BundleTypeOK, NEW q \in Transfers, NEW r \in Request, Arrive(q, r)
    PROVE  /\ req' \in [Transfers -> Request]
           /\ req[q].pc = "idle"
           /\ SameBut(req'[q], r)
           /\ \A p \in Transfers \ {q} :
                 /\ SameBut(req'[p], req[p])
                 /\ req[p].rival => req'[p].rival
                 /\ Active(p) /\ req[p].zip.exp = r.zip.exp => req'[p].rival /\ req'[q].rival
<1> DEFINE others == {p \in Transfers : Active(p) /\ req[p].zip.exp = r.zip.exp}
           shared(p) == req[p].rival \/ p \in others
<1>1. req' = [p \in Transfers |-> IF p = q THEN [r EXCEPT !.rival = others # {}]
                                  ELSE [req[p] EXCEPT !.rival = shared(p)]]
  BY DEF Arrive
<1>2. req[q].pc = "idle"
  BY DEF Arrive
<1>3. (others # {}) \in BOOLEAN
  OBVIOUS
<1>4. \A p \in Transfers : shared(p) \in BOOLEAN /\ req[p] \in Request
  BY DEF BundleTypeOK
<1> HIDE DEF others, shared
<1>5. /\ req'[q] = [r EXCEPT !.rival = others # {}]
      /\ \A p \in Transfers \ {q} : req'[p] = [req[p] EXCEPT !.rival = shared(p)]
  BY <1>1, Zenon
<1>6. req'[q] \in Request /\ SameBut(req'[q], r) /\ (req'[q].rival <=> others # {})
  BY <1>3, <1>5, RivalTyped
<1>7. ASSUME NEW p \in Transfers \ {q}
      PROVE  /\ req'[p] \in Request /\ SameBut(req'[p], req[p])
             /\ req'[p].rival <=> shared(p)
  <2>1. req[p] \in Request /\ shared(p) \in BOOLEAN
    BY <1>4
  <2>2. req'[p] = [req[p] EXCEPT !.rival = shared(p)]
    BY <1>5
  <2>3. req'[p] \in Request /\ SameBut(req'[p], req[p]) /\ (req'[p].rival <=> shared(p))
    BY <2>1, <2>2, RivalTyped, Zenon
  <2> QED BY <2>3
<1>8. req' \in [Transfers -> Request]
  BY <1>1, <1>6, <1>7
<1> QED BY <1>2, <1>6, <1>7, <1>8 DEF others, shared

\* In a step of its own, a request keeps what it is, and so do all others.
Keeps(q) ==
    /\ req' \in [Transfers -> Request]
    /\ \A p \in Transfers \ {q} : req'[p] = req[p]
    /\ req'[q].op = req[q].op /\ req'[q].policy = req[q].policy
    /\ req'[q].rival = req[q].rival /\ req'[q].zip.exp = req[q].zip.exp

\* It moves to another program counter, and keeps its bundle and target.
Shifts(q, pcs) ==
    /\ Keeps(q) /\ req'[q].pc \in pcs
    /\ req'[q].target = req[q].target /\ req'[q].zip = req[q].zip

Outcomes == {"ok", "failed", "extract", "datasets", "labels", "rows", "runs", "write", "erase"}

\* A step that only goes on.
LEMMA GotoMoves ==
    ASSUME BundleTypeOK, NEW q \in Transfers, NEW pc \in Outcomes, Goto(q, pc)
    PROVE  Shifts(q, {pc})
  BY DEF BundleTypeOK, Goto, Request, Over, Keeps, Shifts, Outcomes

\* A step that puts s in the place of a request.
LEMMA EditMoves ==
    ASSUME BundleTypeOK, NEW q \in Transfers, NEW s \in Request,
           req' = [req EXCEPT ![q] = s],
           s.op = req[q].op, s.policy = req[q].policy, s.rival = req[q].rival,
           s.zip.exp = req[q].zip.exp
    PROVE  Keeps(q) /\ req'[q] = s
  BY DEF BundleTypeOK, Keeps

\* The same, where the bundle and the target stay.
LEMMA ShiftMoves ==
    ASSUME BundleTypeOK, NEW q \in Transfers, NEW s \in Request,
           req' = [req EXCEPT ![q] = s],
           s.op = req[q].op, s.policy = req[q].policy, s.rival = req[q].rival,
           s.zip = req[q].zip, s.target = req[q].target
    PROVE  Shifts(q, {s.pc})
  BY EditMoves DEF Shifts

\* What the conflict policy comes to.
Decides(q) ==
    /\ Keeps(q) /\ req'[q].zip = req[q].zip
    /\ \/ req'[q].pc = "failed" /\ req'[q].target = req[q].target
       \/ /\ req'[q].pc = "compare" /\ req[q].policy = "merge"
          /\ req'[q].target = req[q].zip.exp /\ req[q].zip.exp \in exps
       \/ /\ req'[q].pc = "extract" /\ req[q].policy # "merge"
          /\ \/ req'[q].target = <<req[q].zip.exp, q>> /\ req[q].policy = "rename"
             \/ req'[q].target = req[q].zip.exp /\ req[q].zip.exp \notin exps

\* Each action of an import, an export or a deletion, as a step of its request that
\* keeps the shape of every variable.
LEMMA CheckConflictMoves ==
    ASSUME BundleTypeOK, NEW q \in Transfers, CheckConflict(q)
    PROVE  Decides(q) /\ BundleTypeOK'
<1> USE DEF tables, artifacts
<1>1. ASSUME NEW t \in ExpIds, NEW pc \in {"compare", "extract"},
             req' = [req EXCEPT ![q].target = t, ![q].pc = pc]
      PROVE  Keeps(q) /\ req'[q].zip = req[q].zip /\ req'[q].target = t /\ req'[q].pc = pc
  <2> DEFINE s == [req[q] EXCEPT !.target = t, !.pc = pc]
  <2>1. req' = [req EXCEPT ![q] = s]
    BY <1>1 DEF BundleTypeOK
  <2>2. s \in Request /\ s.op = req[q].op /\ s.policy = req[q].policy
        /\ s.rival = req[q].rival /\ s.zip = req[q].zip /\ s.target = t /\ s.pc = pc
    BY DEF BundleTypeOK, Request
  <2> HIDE DEF s
  <2> QED BY <2>1, <2>2, EditMoves
<1>2. req[q].zip.exp \in ExpIds /\ <<req[q].zip.exp, q>> \in ExpIds /\ req[q].policy \in Policies
  BY DEF BundleTypeOK, Request, Bundle, ExpIds
<1>3. Decides(q) /\ tmp' \subseteq Transfers
  <2>1. CASE EndImport(q, "failed")
    BY <2>1, GotoMoves DEF EndImport, Outcomes, BundleTypeOK, Decides, Shifts
  <2>2. CASE ~EndImport(q, "failed")
    BY <1>1, <1>2, <2>2 DEF CheckConflict, BundleTypeOK, Decides, Policies
  <2> QED BY <2>1, <2>2
<1> QED BY <1>3 DEF CheckConflict, BundleTypeOK, Decides, Keeps

LEMMA CompareRunsMoves ==
    ASSUME BundleTypeOK, NEW q \in Transfers, CompareRuns(q)
    PROVE  Shifts(q, {"failed", "extract"}) /\ BundleTypeOK'
<1>1. Shifts(q, {"failed", "extract"}) /\ tmp' \subseteq Transfers
  BY GotoMoves DEF CompareRuns, EndImport, Outcomes, BundleTypeOK, Shifts
<1> QED BY <1>1 DEF CompareRuns, BundleTypeOK, Shifts, Keeps, tables, artifacts

\* What a bundle brings and what a clean-up takes keep their shape.
LEMMA DirectoryTyped ==
    ASSUME BundleTypeOK, NEW q \in Transfers
    PROVE  /\ CleanUp(q) => outputs' \in [ExpIds -> SUBSET Runs] /\ dirs' \subseteq ExpIds
           /\ \A files \in SUBSET req[q].zip.files, cs \in SUBSET req[q].zip.configs :
                 Bring(q, files, cs) /\ req[q].target \in ExpIds
                 => /\ outputs' \in [ExpIds -> SUBSET Runs] /\ dirs' \subseteq ExpIds
                    /\ configs' \in [Runs -> {"none", "token", "bare"}]
<1>1. req[q].zip.files \subseteq Runs
  BY DEF BundleTypeOK, Request, Bundle
<1> QED BY <1>1 DEF CleanUp, Bring, BundleTypeOK

LEMMA ExtractMoves ==
    ASSUME BundleTypeOK, NEW q \in Transfers, Extract(q), req[q].target \in ExpIds
    PROVE  /\ \/ /\ Shifts(q, {"datasets", "labels"})
                 /\ Bring(q, req[q].zip.files, req[q].zip.configs)
              \/ Shifts(q, {"failed"}) /\ CleanUp(q)
           /\ BundleTypeOK'
<1>1. Shifts(q, {"failed", "datasets", "labels"}) /\ tmp' \subseteq Transfers
  BY GotoMoves DEF Extract, EndImport, Outcomes, BundleTypeOK, Shifts
<1>2. outputs' \in [ExpIds -> SUBSET Runs] /\ dirs' \subseteq ExpIds
      /\ configs' \in [Runs -> {"none", "token", "bare"}]
  BY DirectoryTyped DEF Extract, BundleTypeOK
<1>3. \/ /\ Shifts(q, {"datasets", "labels"})
         /\ Bring(q, req[q].zip.files, req[q].zip.configs)
      \/ Shifts(q, {"failed"}) /\ CleanUp(q)
  BY GotoMoves DEF Extract, EndImport, Outcomes, Shifts
<1> QED BY <1>1, <1>2, <1>3 DEF Extract, BundleTypeOK, Shifts, Keeps, tables

LEMMA ImportDatasetsMoves ==
    ASSUME BundleTypeOK, NEW q \in Transfers, ImportDatasets(q)
    PROVE  /\ \/ Shifts(q, {"materialize", "labels"})
              \/ Shifts(q, {"failed"}) /\ req[q].policy = "reject"
           /\ BundleTypeOK'
<1> DEFINE collide == req[q].zip.datasets \cap datasets
           renamed == IF req[q].policy = "rename" THEN collide ELSE {}
           named(d) == IF d \in renamed THEN <<d, q>> ELSE d
           names == {named(d) : d \in req[q].zip.datasets}
<1>1. req[q].zip.datasets \subseteq Datasets
  BY DEF BundleTypeOK, Request, Bundle
<1>2. renamed \subseteq Datasets /\ names \subseteq Names
  BY <1>1 DEF Names
<1> HIDE DEF renamed, names
<1>3. ASSUME req' = [req EXCEPT ![q].pc = "materialize", ![q].renamed = renamed, ![q].left = names]
      PROVE  Shifts(q, {"materialize"})
  <2> DEFINE s == [req[q] EXCEPT !.pc = "materialize", !.renamed = renamed, !.left = names]
  <2>1. req' = [req EXCEPT ![q] = s]
    BY <1>3 DEF BundleTypeOK
  <2>2. s \in Request /\ s.op = req[q].op /\ s.policy = req[q].policy /\ s.rival = req[q].rival
        /\ s.zip = req[q].zip /\ s.target = req[q].target /\ s.pc = "materialize"
    BY <1>2 DEF BundleTypeOK, Request
  <2> HIDE DEF s
  <2> QED BY <2>1, <2>2, ShiftMoves
<1>4. \/ EndImport(q, "failed") /\ UNCHANGED datasets /\ req[q].policy = "reject"
      \/ /\ datasets' = datasets \cup names /\ UNCHANGED tmp
         /\ req' = [req EXCEPT ![q].pc = "materialize", ![q].renamed = renamed, ![q].left = names]
      \/ Goto(q, "labels") /\ UNCHANGED <<datasets, tmp>>
  BY DEF ImportDatasets, renamed, names
<1>5. /\ \/ Shifts(q, {"materialize", "labels"})
         \/ Shifts(q, {"failed"}) /\ req[q].policy = "reject"
      /\ tmp' \subseteq Transfers /\ datasets' \subseteq Names
  BY <1>2, <1>3, <1>4, GotoMoves DEF EndImport, Outcomes, BundleTypeOK, Shifts
<1> QED BY <1>5 DEF ImportDatasets, BundleTypeOK, Shifts, Keeps, artifacts

LEMMA RehydrateMoves ==
    ASSUME BundleTypeOK, NEW q \in Transfers, Rehydrate(q)
    PROVE  Shifts(q, {"materialize", "labels"}) /\ BundleTypeOK'
<1> DEFINE done == [req[q] EXCEPT !.pc = "labels", !.left = {}]
           skip(n) == [req[q] EXCEPT !.left = @ \ {n}]
<1>1. Shifts(q, {"materialize", "labels"})
  <2>1. req' = [req EXCEPT ![q] = done] \/ \E n : req' = [req EXCEPT ![q] = skip(n)]
    BY DEF Rehydrate, BundleTypeOK
  <2>2. done \in Request /\ done.op = req[q].op /\ done.policy = req[q].policy
        /\ done.rival = req[q].rival /\ done.zip = req[q].zip
        /\ done.target = req[q].target /\ done.pc = "labels"
    BY DEF BundleTypeOK, Request
  <2>3. ASSUME NEW n
        PROVE  skip(n) \in Request /\ skip(n).op = req[q].op /\ skip(n).policy = req[q].policy
               /\ skip(n).rival = req[q].rival /\ skip(n).zip = req[q].zip
               /\ skip(n).target = req[q].target /\ skip(n).pc = "materialize"
    BY DEF BundleTypeOK, Request, Rehydrate
  <2> HIDE DEF done, skip
  <2>4. \E s \in Request :
            /\ req' = [req EXCEPT ![q] = s] /\ s.pc \in {"materialize", "labels"}
            /\ s.op = req[q].op /\ s.policy = req[q].policy /\ s.rival = req[q].rival
            /\ s.zip = req[q].zip /\ s.target = req[q].target
    BY <2>1, <2>2, <2>3
  <2> QED BY <2>4, ShiftMoves DEF Shifts
<1>2. trees' \subseteq Names
  BY DEF Rehydrate, BundleTypeOK
<1> QED BY <1>1, <1>2 DEF Rehydrate, BundleTypeOK, Shifts, Keeps, tables, artifacts

LEMMA AppendLabelsMoves ==
    ASSUME BundleTypeOK, NEW q \in Transfers, AppendLabels(q)
    PROVE  Shifts(q, {"rows"}) /\ BundleTypeOK'
<1>1. Shifts(q, {"rows"})
  BY GotoMoves DEF AppendLabels, Outcomes
<1>2. \A d \in Datasets : Final(q, d) \in Names
  BY DEF Final, Names
<1>3. labels' \in [Datasets -> Names \cup {NoRow}]
  BY <1>2 DEF AppendLabels, BundleTypeOK
<1> QED BY <1>1, <1>3 DEF AppendLabels, BundleTypeOK, Shifts, Keeps, disk, artifacts

\* The rows go in at once, or nothing does and the directory is emptied.
LEMMA ImportRowsMoves ==
    ASSUME BundleTypeOK, NEW q \in Transfers, ImportRows(q), req[q].target \in ExpIds
    PROVE  /\ \/ /\ Shifts(q, {"index"}) /\ UNCHANGED <<outputs, dirs>>
                 /\ \/ req[q].policy = "merge" /\ exps' = exps
                    \/ req[q].policy # "merge" /\ exps' = exps \cup {req[q].target}
                 /\ \A x \in req[q].zip.runs : runs[x] = NoRow
                 /\ runs' = [x \in Runs |-> IF x \in req[q].zip.runs THEN req[q].target ELSE runs[x]]
              \/ Shifts(q, {"failed"}) /\ CleanUp(q) /\ UNCHANGED <<exps, runs>>
           /\ BundleTypeOK'
<1>1. outputs[req[q].target] \subseteq Runs
  BY DEF BundleTypeOK
<1>2. ASSUME req' = [req EXCEPT ![q].pc = "index", ![q].left = outputs[req[q].target]]
      PROVE  Shifts(q, {"index"})
  <2> DEFINE s == [req[q] EXCEPT !.pc = "index", !.left = outputs[req[q].target]]
  <2>1. req' = [req EXCEPT ![q] = s]
    BY <1>2 DEF BundleTypeOK
  <2>2. s \in Request /\ s.op = req[q].op /\ s.policy = req[q].policy /\ s.rival = req[q].rival
        /\ s.zip = req[q].zip /\ s.target = req[q].target /\ s.pc = "index"
    BY <1>1 DEF BundleTypeOK, Request
  <2> HIDE DEF s
  <2> QED BY <2>1, <2>2, ShiftMoves
<1>3. \/ /\ Shifts(q, {"index"}) /\ UNCHANGED <<outputs, dirs>>
         /\ \/ req[q].policy = "merge" /\ exps' = exps
            \/ req[q].policy # "merge" /\ exps' = exps \cup {req[q].target}
         /\ \A x \in req[q].zip.runs : runs[x] = NoRow
         /\ runs' = [x \in Runs |-> IF x \in req[q].zip.runs THEN req[q].target ELSE runs[x]]
      \/ Shifts(q, {"failed"}) /\ CleanUp(q) /\ UNCHANGED <<exps, runs>>
  BY <1>2, GotoMoves DEF ImportRows, EndImport, Outcomes
<1>4. exps' \subseteq ExpIds /\ runs' \in [Runs -> ExpIds \cup {NoRow}]
      /\ outputs' \in [ExpIds -> SUBSET Runs] /\ dirs' \subseteq ExpIds /\ tmp' \subseteq Transfers
  BY DirectoryTyped DEF ImportRows, BundleTypeOK, EndImport
<1> QED BY <1>3, <1>4 DEF ImportRows, BundleTypeOK, Shifts, Keeps

LEMMA IndexRunMoves ==
    ASSUME BundleTypeOK, NEW q \in Transfers, IndexRun(q), req[q].target \in ExpIds
    PROVE  Shifts(q, {"index", "ok"}) /\ BundleTypeOK'
<1>1. ASSUME NEW x, req[q].pc = "index", req' = [req EXCEPT ![q].left = @ \ {x}]
      PROVE  Shifts(q, {"index"})
  <2> DEFINE rest == req[q].left \ {x}
             s == [req[q] EXCEPT !.left = rest]
  <2>1. rest \in SUBSET (Names \cup Runs) /\ req[q] \in Request
    BY DEF BundleTypeOK, Request
  <2>2. req' = [req EXCEPT ![q] = s]
    BY <1>1 DEF BundleTypeOK
  <2> HIDE DEF rest
  <2>3. s \in Request /\ s.op = req[q].op /\ s.policy = req[q].policy /\ s.rival = req[q].rival
        /\ s.zip = req[q].zip /\ s.target = req[q].target /\ s.pc = "index"
    BY <1>1, <2>1 DEF Request
  <2> HIDE DEF s
  <2> QED BY <2>2, <2>3, ShiftMoves
<1>2. Shifts(q, {"index", "ok"}) /\ tmp' \subseteq Transfers
  BY <1>1, GotoMoves DEF IndexRun, EndImport, Outcomes, BundleTypeOK, Shifts
<1>3. findings' \in [Runs -> ExpIds \cup {NoRow}]
  BY DEF IndexRun, BundleTypeOK
<1> QED BY <1>2, <1>3 DEF IndexRun, BundleTypeOK, Shifts, Keeps, artifacts

LEMMA ExportRowMoves ==
    ASSUME BundleTypeOK, NEW q \in Transfers, ExportRow(q)
    PROVE  /\ Shifts(q, {"runs", "failed"}) /\ BundleTypeOK'
           /\ req'[q].pc = "runs" => req[q].zip.exp \in exps
<1>1. Shifts(q, IF req[q].zip.exp \in exps THEN {"runs"} ELSE {"failed"})
  BY GotoMoves DEF ExportRow, Outcomes
<1> QED BY <1>1 DEF ExportRow, BundleTypeOK, Shifts, Keeps, tables, disk, artifacts

\* An export fills its bundle: the step that makes b of it.
Fills(q, b, left, pc) ==
    req' = [req EXCEPT ![q] = [req[q] EXCEPT !.zip = b, !.left = left, !.pc = pc]]

LEMMA FillMoves ==
    ASSUME BundleTypeOK, NEW q \in Transfers, NEW b \in Bundle, b.exp = req[q].zip.exp,
           NEW left \in SUBSET (Names \cup Runs), NEW pc \in {"collect", "read", "write"},
           Fills(q, b, left, pc)
    PROVE  /\ Keeps(q) /\ req'[q].zip = b /\ req'[q].left = left /\ req'[q].pc = pc
           /\ req'[q].target = req[q].target
<1> DEFINE s == [req[q] EXCEPT !.zip = b, !.left = left, !.pc = pc]
<1>1. req[q] \in Request
  BY DEF BundleTypeOK
<1>2. s \in Request /\ s.op = req[q].op /\ s.policy = req[q].policy /\ s.rival = req[q].rival
      /\ s.zip = b /\ s.left = left /\ s.pc = pc /\ s.target = req[q].target
  BY <1>1 DEF Request
<1>3. req' = [req EXCEPT ![q] = s]
  BY DEF Fills
<1> HIDE DEF s
<1> QED BY <1>2, <1>3, EditMoves

LEMMA ExportRunsMoves ==
    ASSUME BundleTypeOK, NEW q \in Transfers, ExportRuns(q)
    PROVE  /\ Keeps(q) /\ BundleTypeOK' /\ req'[q].target = req[q].target
           /\ req'[q].zip.datasets = req[q].zip.datasets /\ req'[q].zip.labels = req[q].zip.labels
           /\ req'[q].pc \in {"collect", "write"} /\ req'[q].left \subseteq Datasets
<1> DEFINE e == req[q].zip.exp
           has == {x \in Runs : runs[x] = e}
           b == [req[q].zip EXCEPT !.runs = has]
<1>1. req[q] \in Request /\ req[q].zip \in Bundle /\ e \in Exps /\ DatasetOf[e] \in Datasets
  BY ConstantsAssumption DEF BundleTypeOK, Request, Bundle
<1>2. b \in Bundle /\ b.exp = e /\ b.datasets = req[q].zip.datasets /\ b.labels = req[q].zip.labels
  <2>1. has \in SUBSET Runs
    OBVIOUS
  <2> QED BY <1>1, <2>1 DEF Bundle
<1>3. PICK left \in SUBSET Datasets, pc \in {"collect", "write"} :
            req' = [req EXCEPT ![q].zip.runs = has, ![q].left = left, ![q].pc = pc]
  BY <1>1 DEF ExportRuns
<1> HIDE DEF has
<1>4. Fills(q, b, left, pc)
  BY <1>1, <1>3 DEF BundleTypeOK, Fills
<1> HIDE DEF b
<1>5. /\ Keeps(q) /\ req'[q].zip = b /\ req'[q].left = left /\ req'[q].pc = pc
      /\ req'[q].target = req[q].target
  <2>1. left \in SUBSET (Names \cup Runs) /\ pc \in {"collect", "read", "write"}
    BY DEF Names
  <2> QED BY <1>2, <1>4, <2>1, FillMoves
<1> QED BY <1>2, <1>5 DEF ExportRuns, BundleTypeOK, Keeps, tables, disk, artifacts

\* The walk goes on from what is left of it, or ends.
LEMMA CollectDatasetMoves ==
    ASSUME BundleTypeOK, NEW q \in Transfers, CollectDataset(q), req[q].left \subseteq Datasets
    PROVE  /\ Keeps(q) /\ BundleTypeOK' /\ req'[q].target = req[q].target
           /\ req'[q].zip.labels = req[q].zip.labels /\ req'[q].left \subseteq Datasets
           /\ \/ /\ req[q].left = {} /\ req'[q].pc = "read"
                 /\ req'[q].zip = req[q].zip /\ req'[q].left = req[q].zip.datasets
              \/ \E d \in req[q].left \cap datasets :
                    /\ req'[q].pc = "collect" /\ req'[q].left = (req[q].left \ {d}) \cup BaseToo(q, d)
                    /\ req'[q].zip.datasets = req[q].zip.datasets \cup {d}
              \/ \E d \in req[q].left \ datasets :
                    /\ req'[q].pc = "collect" /\ req'[q].left = req[q].left \ {d}
                    /\ req'[q].zip = req[q].zip
<1> DEFINE z == req[q].zip
<1>1. req[q] \in Request /\ z \in Bundle /\ z.datasets \subseteq Datasets /\ req[q].pc = "collect"
  BY DEF BundleTypeOK, Request, Bundle, CollectDataset
<1>2. ASSUME NEW b \in Bundle, b.exp = z.exp, NEW left \in SUBSET Datasets,
             NEW pc \in {"collect", "read", "write"}, Fills(q, b, left, pc)
      PROVE  /\ Keeps(q) /\ req'[q].zip = b /\ req'[q].left = left /\ req'[q].pc = pc
             /\ req'[q].target = req[q].target
  <2>1. left \in SUBSET (Names \cup Runs)
    BY DEF Names
  <2> QED BY <1>2, <2>1, FillMoves
<1>3. ASSUME req[q].left = {}, req' = [req EXCEPT ![q].left = z.datasets, ![q].pc = "read"]
      PROVE  /\ Keeps(q) /\ req'[q].zip = z /\ req'[q].left = z.datasets /\ req'[q].pc = "read"
             /\ req'[q].target = req[q].target
  <2>1. Fills(q, z, z.datasets, "read")
    BY <1>1, <1>3 DEF BundleTypeOK, Request, Fills
  <2> QED BY <1>1, <1>2, <2>1
<1>4. ASSUME NEW d \in req[q].left \cap datasets,
             req' = [req EXCEPT ![q].left = (@ \ {d}) \cup BaseToo(q, d),
                                ![q].zip.datasets = @ \cup {d}]
      PROVE  /\ Keeps(q) /\ req'[q].zip.datasets = z.datasets \cup {d}
             /\ req'[q].left = (req[q].left \ {d}) \cup BaseToo(q, d) /\ req'[q].pc = "collect"
             /\ req'[q].target = req[q].target /\ req'[q].zip.labels = z.labels
             /\ req'[q].left \subseteq Datasets
  <2> DEFINE more == z.datasets \cup {d}
             b == [z EXCEPT !.datasets = more]
             left == (req[q].left \ {d}) \cup BaseToo(q, d)
  <2>1. more \in SUBSET Datasets /\ left \in SUBSET Datasets
    BY <1>1, <1>4, ConstantsAssumption DEF BaseToo
  <2> HIDE DEF more, left
  <2>2. b \in Bundle /\ b.exp = z.exp /\ b.datasets = more /\ b.labels = z.labels
    BY <1>1, <2>1 DEF Bundle
  <2>3. Fills(q, b, left, "collect")
    <3>1. req' = [req EXCEPT ![q].left = left, ![q].zip.datasets = more]
      BY <1>4 DEF left, more, BundleTypeOK, Request
    <3> QED BY <1>1, <3>1 DEF BundleTypeOK, Request, Fills
  <2> HIDE DEF b
  <2>4. /\ Keeps(q) /\ req'[q].zip = b /\ req'[q].left = left /\ req'[q].pc = "collect"
        /\ req'[q].target = req[q].target
    BY <1>2, <2>1, <2>2, <2>3
  <2> QED BY <2>1, <2>2, <2>4 DEF more, left
<1>5. ASSUME NEW d \in req[q].left, req' = [req EXCEPT ![q].left = @ \ {d}]
      PROVE  /\ Keeps(q) /\ req'[q].zip = z /\ req'[q].left = req[q].left \ {d}
             /\ req'[q].pc = "collect" /\ req'[q].target = req[q].target
  <2> DEFINE left == req[q].left \ {d}
  <2>1. left \in SUBSET Datasets
    OBVIOUS
  <2>2. req' = [req EXCEPT ![q].left = left]
    BY <1>5 DEF BundleTypeOK
  <2> HIDE DEF left
  <2>3. Fills(q, z, left, "collect")
    BY <1>1, <2>2 DEF BundleTypeOK, Request, Fills
  <2> QED BY <1>1, <1>2, <2>1, <2>3 DEF left
<1>6. UNCHANGED <<tables, disk, kills>>
      /\ \/ req[q].left = {} /\ req' = [req EXCEPT ![q].left = z.datasets, ![q].pc = "read"]
         \/ \E d \in req[q].left \cap datasets :
               req' = [req EXCEPT ![q].left = (@ \ {d}) \cup BaseToo(q, d),
                                  ![q].zip.datasets = @ \cup {d}]
         \/ \E d \in req[q].left \ datasets : req' = [req EXCEPT ![q].left = @ \ {d}]
  BY DEF CollectDataset
<1>7. CASE req[q].left = {} /\ req' = [req EXCEPT ![q].left = z.datasets, ![q].pc = "read"]
  BY <1>1, <1>3, <1>6, <1>7 DEF BundleTypeOK, Keeps, tables, disk, artifacts
<1>8. CASE \E d \in req[q].left \cap datasets :
              req' = [req EXCEPT ![q].left = (@ \ {d}) \cup BaseToo(q, d),
                                 ![q].zip.datasets = @ \cup {d}]
  BY <1>4, <1>6, <1>8 DEF BundleTypeOK, Keeps, tables, disk, artifacts
<1>9. CASE \E d \in req[q].left \ datasets : req' = [req EXCEPT ![q].left = @ \ {d}]
  BY <1>5, <1>6, <1>9 DEF BundleTypeOK, Keeps, tables, disk, artifacts
<1> QED BY <1>6, <1>7, <1>8, <1>9

LEMMA ReadLabelsMoves ==
    ASSUME BundleTypeOK, NEW q \in Transfers, ReadLabels(q), req[q].left \subseteq Datasets
    PROVE  /\ Keeps(q) /\ BundleTypeOK' /\ req'[q].target = req[q].target
           /\ req'[q].zip.datasets = req[q].zip.datasets /\ req'[q].left \subseteq req[q].left
           /\ req'[q].zip.labels \subseteq req[q].zip.labels \cup req[q].left
           /\ req'[q].pc \in {"read", "write"}
<1> DEFINE z == req[q].zip
<1>1. req[q] \in Request /\ z \in Bundle /\ z.labels \subseteq Datasets /\ req[q].pc = "read"
  BY DEF BundleTypeOK, Request, Bundle, ReadLabels
<1>2. CASE req[q].left = {} /\ Goto(q, "write")
  <2>1. Shifts(q, {"write"})
    BY <1>2, GotoMoves DEF Outcomes
  <2>2. req'[q].left = req[q].left
    BY <1>2 DEF Goto, BundleTypeOK
  <2> QED BY <2>1, <2>2 DEF ReadLabels, BundleTypeOK, Shifts, Keeps, tables, disk, artifacts
<1>3. CASE \E d \in req[q].left :
              req' = [req EXCEPT ![q].left = @ \ {d},
                                 ![q].zip.labels = @ \cup {x \in {d} : labels[x] = x}]
  <2>1. PICK d \in req[q].left :
              req' = [req EXCEPT ![q].left = @ \ {d},
                                 ![q].zip.labels = @ \cup {x \in {d} : labels[x] = x}]
    BY <1>3
  <2> DEFINE more == z.labels \cup {x \in {d} : labels[x] = x}
             b == [z EXCEPT !.labels = more]
             left == req[q].left \ {d}
  <2>2. more \in SUBSET Datasets /\ left \in SUBSET (Names \cup Runs)
        /\ left \subseteq req[q].left /\ more \subseteq z.labels \cup req[q].left
    BY <1>1 DEF Names
  <2>3. req' = [req EXCEPT ![q].left = left, ![q].zip.labels = more]
    BY <2>1 DEF BundleTypeOK, Request
  <2> HIDE DEF more, left
  <2>4. b \in Bundle /\ b.exp = z.exp /\ b.datasets = z.datasets /\ b.labels = more
    BY <1>1, <2>2 DEF Bundle
  <2>5. Fills(q, b, left, "read")
    BY <1>1, <2>3 DEF BundleTypeOK, Request, Fills
  <2> HIDE DEF b
  <2>6. /\ Keeps(q) /\ req'[q].zip = b /\ req'[q].left = left /\ req'[q].pc = "read"
        /\ req'[q].target = req[q].target
    BY <2>2, <2>4, <2>5, FillMoves
  <2> QED BY <2>2, <2>4, <2>6 DEF ReadLabels, BundleTypeOK, Keeps, tables, disk, artifacts
<1> QED BY <1>2, <1>3 DEF ReadLabels

LEMMA WriteBundleMoves ==
    ASSUME BundleTypeOK, NEW q \in Transfers, WriteBundle(q)
    PROVE  /\ Shifts(q, {"ok"}) /\ BundleTypeOK'
           /\ \E b \in Bundle : /\ zips' = zips \cup {b} /\ b.datasets = req[q].zip.datasets
                               /\ b.labels = req[q].zip.labels
<1> DEFINE z == req[q].zip
           files == z.runs \cap outputs[z.exp]
           cs == {x \in z.runs : configs[x] # "none"}
           b == [z EXCEPT !.files = files, !.configs = cs]
<1>1. z \in Bundle /\ z.exp \in ExpIds
  BY DEF BundleTypeOK, Request, Bundle, ExpIds
<1>2. files \in SUBSET Runs /\ cs \in SUBSET Runs
  BY <1>1 DEF Bundle
<1>3. zips' = zips \cup {b}
  BY DEF WriteBundle
<1> HIDE DEF files, cs
<1>4. b \in Bundle /\ b.datasets = z.datasets /\ b.labels = z.labels
  BY <1>1, <1>2 DEF Bundle
<1> HIDE DEF b
<1>5. Shifts(q, {"ok"})
  BY GotoMoves DEF WriteBundle, Outcomes
<1> QED BY <1>1, <1>3, <1>4, <1>5 DEF WriteBundle, BundleTypeOK, Shifts, Keeps, tables

LEMMA PurgeConfigsMoves ==
    ASSUME BundleTypeOK, NEW q \in Transfers, PurgeConfigs(q)
    PROVE  Shifts(q, {"erase"}) /\ BundleTypeOK'
<1>1. Shifts(q, {"erase"})
  BY GotoMoves DEF PurgeConfigs, Outcomes
<1>2. configs' \in [Runs -> {"none", "token", "bare"}]
  BY DEF PurgeConfigs, BundleTypeOK
<1> QED BY <1>1, <1>2 DEF PurgeConfigs, BundleTypeOK, Shifts, Keeps, tables

LEMMA PurgeRowsMoves ==
    ASSUME BundleTypeOK, NEW q \in Transfers, PurgeRows(q)
    PROVE  Shifts(q, {"ok"}) /\ BundleTypeOK'
<1>1. Shifts(q, {"ok"})
  BY GotoMoves DEF PurgeRows, Outcomes
<1>2. exps' \subseteq ExpIds /\ runs' \in [Runs -> ExpIds \cup {NoRow}]
      /\ findings' \in [Runs -> ExpIds \cup {NoRow}]
  BY DEF PurgeRows, BundleTypeOK
<1> QED BY <1>1, <1>2 DEF PurgeRows, BundleTypeOK, Shifts, Keeps, disk, artifacts

\* What a user starts is one of three requests.
Importing(b, policy) ==
    [Idle EXCEPT !.pc = "check", !.op = "import", !.policy = policy, !.zip = b]
Exporting(e) == [Idle EXCEPT !.pc = "row", !.op = "export", !.zip.exp = e]
Deleting(e) == [Idle EXCEPT !.pc = "purge", !.op = "delete", !.target = e, !.zip.exp = e]

\* Their records are well formed.
LEMMA StartsTyped ==
    /\ \A b \in Bundle, policy \in Policies :
          LET r == Importing(b, policy)
          IN r \in Request /\ r.zip = b /\ r.pc = "check" /\ r.op = "import" /\ r.target = NoRow
    /\ \A e \in Exps :
          /\ LET r == Exporting(e)
             IN /\ r \in Request /\ r.zip.exp = e /\ r.zip.datasets = {} /\ r.pc = "row"
                /\ r.op = "export" /\ r.target = NoRow /\ r.zip.labels = {}
          /\ LET r == Deleting(e)
             IN /\ r \in Request /\ r.zip.exp = e /\ r.zip.datasets = {} /\ r.pc = "purge"
                /\ r.op = "delete" /\ r.target = e
<1>1. ASSUME NEW b \in Bundle, NEW policy \in Policies
      PROVE  LET r == Importing(b, policy)
             IN r \in Request /\ r.zip = b /\ r.pc = "check" /\ r.op = "import" /\ r.target = NoRow
  BY DEF Importing, Idle, Request
<1>2. ASSUME NEW e \in Exps
      PROVE  /\ LET r == Exporting(e)
                IN /\ r \in Request /\ r.zip.exp = e /\ r.zip.datasets = {} /\ r.pc = "row"
                   /\ r.op = "export" /\ r.target = NoRow /\ r.zip.labels = {}
             /\ LET r == Deleting(e)
                IN /\ r \in Request /\ r.zip.exp = e /\ r.zip.datasets = {} /\ r.pc = "purge"
                   /\ r.op = "delete" /\ r.target = e
  <2> DEFINE z == [exp |-> e, runs |-> {}, files |-> {}, configs |-> {}, datasets |-> {}, labels |-> {}]
  <2>1. z \in Bundle /\ z.exp = e /\ z.datasets = {} /\ z.labels = {}
    BY DEF Bundle
  <2>2. z = [Nothing EXCEPT !.exp = e]
    BY DEF Nothing
  <2> HIDE DEF z
  <2>3. /\ Exporting(e) = [Idle EXCEPT !.pc = "row", !.op = "export",
                                      !.zip = [Nothing EXCEPT !.exp = e]]
        /\ Deleting(e) = [Idle EXCEPT !.pc = "purge", !.op = "delete", !.target = e,
                                     !.zip = [Nothing EXCEPT !.exp = e]]
    BY DEF Exporting, Deleting, Idle
  <2>4. /\ Exporting(e) = [Idle EXCEPT !.pc = "row", !.op = "export", !.zip = z]
        /\ Deleting(e) = [Idle EXCEPT !.pc = "purge", !.op = "delete", !.target = e, !.zip = z]
    BY <2>2, <2>3, Zenon
  <2>5. Exporting(e) \in Request /\ Deleting(e) \in Request
    BY <2>1, <2>4 DEF Request, Idle, Policies, ExpIds
  <2> QED BY <2>1, <2>4, <2>5 DEF Idle
<1> QED BY <1>1, <1>2

\* An arrival keeps the shape of every variable.
LEMMA UserMoves ==
    ASSUME BundleTypeOK, NEW q \in Transfers, User(q)
    PROVE  BundleTypeOK'
<1>1. ASSUME NEW b \in zips, NEW policy \in Policies, Receive(q, b, policy)
      PROVE  BundleTypeOK'
  <2>1. Importing(b, policy) \in Request /\ Arrive(q, Importing(b, policy))
    BY <1>1, StartsTyped DEF Receive, Importing, BundleTypeOK
  <2>2. req' \in [Transfers -> Request]
    BY <2>1, ArriveTyped
  <2> QED BY <1>1, <2>2 DEF Receive, BundleTypeOK, tables, artifacts
<1>2. ASSUME NEW e \in Exps, ExportStart(q, e)
      PROVE  BundleTypeOK'
  <2>1. Exporting(e) \in Request /\ Arrive(q, Exporting(e))
    BY <1>2, StartsTyped DEF ExportStart, Exporting
  <2>2. req' \in [Transfers -> Request]
    BY <2>1, ArriveTyped
  <2> QED BY <1>2, <2>2 DEF ExportStart, BundleTypeOK, tables, ExpIds
<1>3. ASSUME NEW e \in Exps, Delete(q, e)
      PROVE  BundleTypeOK'
  <2>1. Deleting(e) \in Request /\ Arrive(q, Deleting(e))
    BY <1>3, StartsTyped DEF Delete, Deleting
  <2>2. req' \in [Transfers -> Request]
    BY <2>1, ArriveTyped
  <2> QED BY <1>3, <2>2 DEF Delete, BundleTypeOK, tables, ExpIds
<1> QED BY <1>1, <1>2, <1>3 DEF User

-----------------------------------------------------------------------------
(* The inductive invariant of imports *)

Past == {"extract", "datasets", "materialize", "labels", "rows", "index"}
Extracted == {"datasets", "materialize", "labels", "rows"}
Reads == {"row", "runs", "collect", "read", "write"}

\* A request works on the experiment of its bundle or on the id it drew for it.
TargetInv ==
    \A q \in Transfers :
        /\ req[q].target \in {NoRow, req[q].zip.exp, <<req[q].zip.exp, q>>}
        /\ req[q].pc \in {"idle", "check"} \cup Reads => req[q].target = NoRow
        /\ req[q].pc \in Past \cup {"compare"} => req[q].target # NoRow
        /\ req[q].pc \in Past \cup {"compare", "check"} => req[q].op = "import"
        /\ req[q].pc = "compare" => req[q].policy = "merge"
        /\ req[q].pc \in {"purge", "erase"} => req[q].op = "delete"
        /\ req[q].pc \in Reads => req[q].op = "export"
        /\ req[q].op = "delete" => req[q].target = req[q].zip.exp
        /\ req[q].policy # "rename" /\ req[q].target # NoRow => req[q].target = req[q].zip.exp

\* Two requests that are at work on one experiment know of each other.
RivalInv ==
    \A p, q \in Transfers :
        p # q /\ Active(p) /\ Active(q) /\ req[p].zip.exp = req[q].zip.exp => req[p].rival

Deleted(e) == \E p \in Transfers : req[p].op = "delete" /\ req[p].target = e

\* A row of a run outlives the row of its experiment only beside a deletion.
RowInv == \A x \in Runs : runs[x] # NoRow => runs[x] \in exps \/ Deleted(runs[x])

DrawnIds == \A e \in Exps, q \in Transfers : <<e, q>> \in exps => req[q].target = <<e, q>>

\* Without a rival, what the conflict policy found stays true until the rows are in.
FreshTarget ==
    \A q \in Transfers :
        req[q].pc \in Past \ {"index"} /\ req[q].policy # "merge" /\ ~req[q].rival
        => req[q].target \notin exps
MergeTarget ==
    \A q \in Transfers :
        req[q].pc \in Past \cup {"compare"} /\ req[q].policy = "merge"
        => req[q].target \in exps \/ (req[q].rival /\ Deleted(req[q].target))

\* Without a rival, nobody takes away what an import has brought.
FilesInv ==
    \A q \in Transfers :
        req[q].pc \in Extracted \cup {"index"} /\ ~req[q].rival
        => req[q].zip.files \subseteq outputs[req[q].target]
RowsInv ==
    \A q \in Transfers :
        req[q].pc = "index" /\ ~req[q].rival
        => /\ req[q].target \in exps
           /\ \A x \in req[q].zip.runs : runs[x] = req[q].target

\* Without a rival, an export past its first look still has its experiment, and
\* it walks over datasets.
ExportTarget ==
    \A q \in Transfers :
        /\ req[q].pc \in Reads \ {"row"} /\ ~req[q].rival => req[q].zip.exp \in exps
        /\ req[q].pc \in {"collect", "read"} => req[q].left \subseteq Datasets

\* Without a rival, a deletion finds its directory again only with a late result.
PurgeInv ==
    \A q \in Transfers :
        req[q].pc \in {"purge", "erase"} /\ ~req[q].rival /\ req[q].target \in dirs
        => Local[req[q].target] \cap outputs[req[q].target] # {}

ImportInv ==
    /\ BundleTypeOK /\ TargetInv /\ RivalInv /\ RowInv /\ DrawnIds /\ FreshTarget
    /\ MergeTarget /\ FilesInv /\ RowsInv /\ ExportTarget /\ PurgeInv

\* The fields of a request that proofs look at.
LEMMA RequestFields ==
    ASSUME BundleTypeOK, NEW q \in Transfers
    PROVE  /\ req[q] \in Request /\ req[q].zip \in Bundle /\ req[q].zip.exp \in Exps
           /\ <<req[q].zip.exp, q>> \in ExpIds /\ req[q].zip.exp \in ExpIds
           /\ req[q].zip.runs \subseteq Runs
  BY DEF BundleTypeOK, Request, Bundle, ExpIds

\* Ids that requests draw are their own: who shares a target shares an experiment.
LEMMA SharedTarget ==
    ASSUME BundleTypeOK, TargetInv, NEW p \in Transfers, NEW q \in Transfers,
           req[p].target = req[q].target, req[p].target # NoRow
    PROVE  p = q \/ req[p].zip.exp = req[q].zip.exp
<1>1. req[p].zip.exp \in Exps /\ req[q].zip.exp \in Exps
  BY RequestFields
<1>2. <<req[p].zip.exp, p>> \notin Exps /\ <<req[q].zip.exp, q>> \notin Exps
  BY <1>1, ConstantsAssumption
<1> QED BY <1>1, <1>2 DEF TargetInv

\* Steps of a request that leave the experiments and the runs alone.
Quiet(q) ==
    /\ Keeps(q) /\ UNCHANGED <<exps, runs>> /\ req'[q].target = req[q].target
    /\ \/ /\ req'[q].zip = req[q].zip
          /\ \/ req[q].pc = "compare" /\ req'[q].pc \in {"failed", "extract"}
             \/ req[q].pc \in Past /\ req'[q].pc = "failed"
             \/ req[q].pc = "extract" /\ req'[q].pc \in {"datasets", "labels"}
             \/ /\ req[q].pc \in {"datasets", "materialize", "labels"}
                /\ req'[q].pc \in {"materialize", "labels", "rows"}
             \/ req[q].pc = "index" /\ req'[q].pc \in {"index", "ok"}
             \/ req[q].pc = "purge" /\ req'[q].pc = "erase"
             \/ /\ req[q].pc = "row" /\ req'[q].pc \in {"runs", "failed"}
                /\ req'[q].pc = "runs" => req[q].zip.exp \in exps
       \/ req[q].pc \in Reads \ {"row"} /\ req'[q].pc \in {"collect", "read", "write", "ok"}
    /\ req'[q].pc \in {"collect", "read"} => req'[q].left \subseteq Datasets

\* An import past its conflict check has a target.
LEMMA TargetOfImport ==
    ASSUME ImportInv, NEW q \in Transfers, req[q].pc \in Past
    PROVE  req[q].target \in ExpIds
  BY RequestFields DEF ImportInv, TargetInv

\* Such a step that takes no file, and makes no directory but an export's.
Placid(q) ==
    /\ Quiet(q) /\ UNCHANGED outputs /\ req[q].pc # "extract"
    /\ dirs' = dirs \/ (req[q].pc = "write" /\ dirs' = dirs \cup {req[q].zip.exp})

\* Such steps are:
LEMMA PlacidSteps ==
    ASSUME ImportInv, NEW q \in Transfers,
           \/ CompareRuns(q) \/ ImportDatasets(q) \/ Rehydrate(q) \/ AppendLabels(q)
           \/ IndexRun(q) \/ Export(q) \/ PurgeConfigs(q)
    PROVE  Placid(q) /\ BundleTypeOK'
<1> USE DEF tables, disk, artifacts, Past, Extracted, Reads, Placid, Quiet
<1>1. BundleTypeOK
  BY DEF ImportInv
<1>2. req[q].pc \in {"collect", "read"} => req[q].left \subseteq Datasets
  BY DEF ImportInv, ExportTarget
<1>3. CASE CompareRuns(q)
  BY <1>1, <1>3, CompareRunsMoves DEF CompareRuns, Shifts
<1>4. CASE ImportDatasets(q)
  BY <1>1, <1>4, ImportDatasetsMoves DEF ImportDatasets, Shifts
<1>5. CASE Rehydrate(q)
  BY <1>1, <1>5, RehydrateMoves DEF Rehydrate, Shifts
<1>6. CASE AppendLabels(q)
  BY <1>1, <1>6, AppendLabelsMoves DEF AppendLabels, Shifts
<1>7. CASE IndexRun(q)
  <2>1. req[q].target \in ExpIds
    BY <1>7, TargetOfImport DEF IndexRun
  <2> QED BY <1>1, <1>7, <2>1, IndexRunMoves DEF IndexRun, Shifts
<1>8. CASE ExportRow(q)
  BY <1>1, <1>8, ExportRowMoves DEF ExportRow, Shifts
<1>9. CASE ExportRuns(q)
  BY <1>1, <1>9, ExportRunsMoves DEF ExportRuns
<1>10. CASE CollectDataset(q)
  <2>1. req[q].pc = "collect" /\ UNCHANGED <<exps, runs, outputs, dirs>>
    BY <1>10 DEF CollectDataset
  <2>2. req[q].left \subseteq Datasets
    BY <1>2, <2>1
  <2>3. /\ Keeps(q) /\ BundleTypeOK' /\ req'[q].target = req[q].target
        /\ req'[q].left \subseteq Datasets /\ req'[q].pc \in {"collect", "read"}
    BY <1>1, <1>10, <2>2, CollectDatasetMoves
  <2> QED BY <2>1, <2>3
<1>11. CASE ReadLabels(q)
  <2>1. req[q].pc = "read" /\ UNCHANGED <<exps, runs, outputs, dirs>>
    BY <1>11 DEF ReadLabels
  <2>2. req[q].left \subseteq Datasets
    BY <1>2, <2>1
  <2>3. /\ Keeps(q) /\ BundleTypeOK' /\ req'[q].target = req[q].target
        /\ req'[q].left \subseteq req[q].left /\ req'[q].pc \in {"read", "write"}
    BY <1>1, <1>11, <2>2, ReadLabelsMoves
  <2> QED BY <2>1, <2>2, <2>3
<1>12. CASE WriteBundle(q)
  BY <1>1, <1>12, WriteBundleMoves DEF WriteBundle, Shifts
<1>13. CASE PurgeConfigs(q)
  BY <1>1, <1>13, PurgeConfigsMoves DEF PurgeConfigs, Shifts
<1> QED BY <1>3, <1>4, <1>5, <1>6, <1>7, <1>8, <1>9, <1>10, <1>11, <1>12, <1>13 DEF Export

\* The parts of the invariant that speak of neither output directories.
RowsSide ==
    /\ TargetInv /\ RivalInv /\ RowInv /\ DrawnIds /\ FreshTarget /\ MergeTarget /\ RowsInv
    /\ ExportTarget

\* A quiet step keeps that part.
LEMMA QuietKeeps ==
    ASSUME ImportInv, NEW q \in Transfers, Quiet(q)
    PROVE  RowsSide'
<1> USE DEF ImportInv, Quiet, Keeps, Past, Extracted, Reads
<1>1. TargetInv'
  BY DEF TargetInv
<1>2. RivalInv'
  BY DEF RivalInv, Active, Over
<1>3. \A e : Deleted(e)' <=> Deleted(e)
  BY DEF Deleted
<1>4. RowInv' /\ DrawnIds'
  BY <1>3 DEF RowInv, DrawnIds
<1>5. \A p \in Transfers : /\ req'[p].target = req[p].target /\ req'[p].policy = req[p].policy
                            /\ req'[p].rival = req[p].rival /\ req'[p].op = req[p].op
  OBVIOUS
<1>6. \A p \in Transfers : p # q => req'[p] = req[p]
  OBVIOUS
<1>7. FreshTarget'
  <2> SUFFICES ASSUME NEW p \in Transfers, req'[p].pc \in Past \ {"index"},
                      req'[p].policy # "merge", ~req'[p].rival
               PROVE  req'[p].target \notin exps'
    BY DEF FreshTarget
  <2>1. ~req[p].rival
    BY <1>5
  <2>2. req[p].pc \in Past \ {"index"}
    BY <1>5, <1>6 DEF TargetInv
  <2> QED BY <1>5, <2>1, <2>2 DEF FreshTarget
<1>8. MergeTarget'
  <2> SUFFICES ASSUME NEW p \in Transfers, req'[p].pc \in Past \cup {"compare"},
                      req'[p].policy = "merge"
               PROVE  \/ req'[p].target \in exps'
                      \/ /\ req'[p].rival
                         /\ \E r \in Transfers : req'[r].op = "delete" /\ req'[r].target = req'[p].target
    BY DEF MergeTarget, Deleted
  <2>1. req[p].pc \in Past \cup {"compare"}
    BY <1>6
  <2>2. req[p].target \in exps \/ (req[p].rival /\ Deleted(req[p].target))
    BY <1>5, <2>1 DEF MergeTarget
  <2> QED BY <1>5, <2>2 DEF Deleted
<1>9. RowsInv'
  BY DEF RowsInv
<1>10. ExportTarget'
  <2> SUFFICES ASSUME NEW p \in Transfers
               PROVE  /\ req'[p].pc \in Reads \ {"row"} /\ ~req'[p].rival => req'[p].zip.exp \in exps'
                      /\ req'[p].pc \in {"collect", "read"} => req'[p].left \subseteq Datasets
    BY DEF ExportTarget
  <2>1. CASE p # q
    BY <1>6, <2>1 DEF ExportTarget
  <2>2. CASE p = q
    <3>1. /\ req'[q].zip.exp = req[q].zip.exp /\ req'[q].rival = req[q].rival
          /\ req'[q].pc \in {"collect", "read"} => req'[q].left \subseteq Datasets
      OBVIOUS
    <3>2. req'[q].pc \in Reads \ {"row"}
          => req[q].pc \in Reads \ {"row"} \/ req[q].zip.exp \in exps
      OBVIOUS
    <3>3. req[q].pc \in Reads \ {"row"} /\ ~req[q].rival => req[q].zip.exp \in exps
      BY DEF ExportTarget
    <3> QED BY <2>2, <3>1, <3>2, <3>3
  <2> QED BY <2>1, <2>2
<1> QED BY <1>1, <1>2, <1>4, <1>7, <1>8, <1>9, <1>10 DEF RowsSide

\* Somebody else with the same experiment is a rival.
LEMMA SharedIsRival ==
    ASSUME BundleTypeOK, TargetInv, RivalInv, NEW p \in Transfers, NEW q \in Transfers,
           p # q, req[p].target = req[q].target, req[p].target # NoRow, Active(p), Active(q)
    PROVE  req[p].rival
<1>1. req[p].zip.exp = req[q].zip.exp
  BY SharedTarget
<1> QED BY <1>1 DEF RivalInv

\* A placid step keeps all of it.
LEMMA PlacidKeeps ==
    ASSUME ImportInv, BundleTypeOK', NEW q \in Transfers, Placid(q)
    PROVE  ImportInv'
<1> USE DEF ImportInv, Placid
<1>1. RowsSide'
  BY QuietKeeps
<1>2. FilesInv'
  <2> SUFFICES ASSUME NEW p \in Transfers, req'[p].pc \in Extracted \cup {"index"}, ~req'[p].rival
               PROVE  req'[p].zip.files \subseteq outputs'[req'[p].target]
    BY DEF FilesInv
  <2>1. CASE p = q
    <3>1. req[q].pc \in Extracted \cup {"index"} /\ req'[q].zip = req[q].zip
      <4>1. req'[q].pc \in {"datasets", "materialize", "labels", "rows", "index"}
        BY <2>1 DEF Extracted
      <4>2. req'[q].zip = req[q].zip
        BY <4>1 DEF Quiet
      <4>3. req[q].pc \in {"extract", "datasets", "materialize", "labels", "index"}
        BY <4>1 DEF Quiet
      <4> QED BY <4>1, <4>2, <4>3 DEF Extracted
    <3>2. req'[q].target = req[q].target /\ req'[q].rival = req[q].rival
      BY DEF Quiet, Keeps
    <3>3. ~req[q].rival
      BY <2>1, <3>2
    <3> QED BY <2>1, <3>1, <3>2, <3>3 DEF FilesInv
  <2>2. CASE p # q
    BY <2>2 DEF FilesInv, Quiet, Keeps
  <2> QED BY <2>1, <2>2
<1>3. PurgeInv'
  <2> SUFFICES ASSUME NEW p \in Transfers, req'[p].pc \in {"purge", "erase"}, ~req'[p].rival,
                      req'[p].target \in dirs'
               PROVE  Local[req'[p].target] \cap outputs'[req'[p].target] # {}
    BY DEF PurgeInv
  <2>1. /\ req[p].pc \in {"purge", "erase"} /\ req'[p].target = req[p].target
        /\ req'[p].rival = req[p].rival
    BY DEF Quiet, Keeps, Past, Extracted, Reads
  <2>2. req[p].target \in dirs
    <3>1. CASE dirs' = dirs
      BY <2>1, <3>1
    <3>2. CASE req[q].pc = "write" /\ dirs' = dirs \cup {req[q].zip.exp}
      <4>1. p # q /\ Active(p) /\ Active(q)
        BY <2>1, <3>2 DEF Active, Over
      <4>2. req[p].target = req[p].zip.exp
        BY <2>1 DEF TargetInv
      <4>3. req[p].zip.exp # req[q].zip.exp
        BY <2>1, <4>1 DEF RivalInv
      <4> QED BY <2>1, <3>2, <4>2, <4>3
    <3> QED BY <3>1, <3>2
  <2> QED BY <2>1, <2>2 DEF PurgeInv
<1> QED BY <1>1, <1>2, <1>3 DEF RowsSide

\* One import puts its files into its directory, or empties it and gives up.
LEMMA DirectoryKeeps ==
    ASSUME ImportInv, BundleTypeOK', NEW q \in Transfers, Quiet(q), req[q].pc \in Past,
           \/ /\ req'[q].pc \in Extracted
              /\ outputs' = [outputs EXCEPT ![req[q].target] = @ \cup req[q].zip.files]
              /\ dirs' \in {dirs, dirs \cup {req[q].target}}
           \/ req'[q].pc = "failed" /\ CleanUp(q)
    PROVE  ImportInv'
<1> USE DEF ImportInv
<1>1. RowsSide'
  BY QuietKeeps
<1> DEFINE t == req[q].target
<1>2. t \in ExpIds /\ t # NoRow /\ req'[q].target = t /\ Active(q)
  BY NoRowIsNoId, RequestFields DEF TargetInv, Quiet, Active, Past, Over
<1>3. \A e \in ExpIds \ {t} : outputs'[e] = outputs[e] /\ (e \in dirs' <=> e \in dirs)
  BY <1>2 DEF CleanUp, BundleTypeOK
<1>4. FilesInv'
  <2> SUFFICES ASSUME NEW p \in Transfers, req'[p].pc \in Extracted \cup {"index"}, ~req'[p].rival
               PROVE  req'[p].zip.files \subseteq outputs'[req'[p].target]
    BY DEF FilesInv
  <2>1. CASE p = q
    BY <1>2, <2>1 DEF Quiet, BundleTypeOK, Extracted, Past, Keeps
  <2>2. CASE p # q
    <3>1. req[p] = req'[p] /\ Active(p) /\ req[p].target # NoRow
      BY <2>2 DEF Quiet, Keeps, Active, Extracted, Over, TargetInv, Past
    <3>2. req[p].target # t
      BY <1>2, <2>2, <3>1, SharedIsRival
    <3>3. req[p].target \in ExpIds
      BY <3>1, RequestFields DEF TargetInv
    <3> QED BY <1>3, <3>1, <3>2, <3>3 DEF FilesInv
  <2> QED BY <2>1, <2>2
<1>5. PurgeInv'
  <2> SUFFICES ASSUME NEW p \in Transfers, req'[p].pc \in {"purge", "erase"}, ~req'[p].rival,
                      req'[p].target \in dirs'
               PROVE  Local[req'[p].target] \cap outputs'[req'[p].target] # {}
    BY DEF PurgeInv
  <2>1. p # q
    BY DEF Extracted
  <2>2. req[p] = req'[p] /\ Active(p)
    BY <2>1 DEF Quiet, Keeps, Active, Over
  <2>3. req[p].target = req[p].zip.exp /\ req[p].target \in ExpIds /\ req[p].target # NoRow
    BY <2>2, RequestFields, NoRowIsNoId DEF TargetInv
  <2>4. req[p].target # t
    BY <1>2, <2>1, <2>2, <2>3, SharedIsRival
  <2> QED BY <1>3, <2>2, <2>3, <2>4 DEF PurgeInv
<1> QED BY <1>1, <1>4, <1>5 DEF RowsSide

\* What the conflict policy finds is what FreshTarget and MergeTarget say.
LEMMA CheckConflictKeeps ==
    ASSUME ImportInv, BundleTypeOK', NEW q \in Transfers, CheckConflict(q)
    PROVE  ImportInv'
<1> USE DEF ImportInv, Past, Extracted, Reads
<1>1. /\ Decides(q) /\ UNCHANGED <<exps, runs, outputs, dirs>> /\ req[q].pc = "check"
      /\ req[q].target = NoRow /\ req[q].op # "delete"
  BY CheckConflictMoves, RequestFields, NoRowIsNoId DEF CheckConflict, tables, artifacts, TargetInv
<1>2. \A p \in Transfers \ {q} : req'[p] = req[p]
  BY <1>1 DEF Decides, Keeps
<1>3. TargetInv'
  <2>1. req[q].op = "import" /\ req'[q].op = "import" /\ req'[q].policy = req[q].policy
    BY <1>1 DEF TargetInv, Decides, Keeps
  <2>2. req'[q].zip.exp = req[q].zip.exp
    BY <1>1 DEF Decides, Keeps
  <2>3. req'[q].pc \in {"failed", "compare", "extract"}
        /\ (req'[q].pc = "compare" => req[q].policy = "merge")
    BY <1>1 DEF Decides
  <2>4. /\ req'[q].target \in {NoRow, req[q].zip.exp, <<req[q].zip.exp, q>>}
        /\ req'[q].pc # "failed" => req'[q].target # NoRow
        /\ req'[q].policy # "rename" /\ req'[q].target # NoRow => req'[q].target = req'[q].zip.exp
    BY <1>1, <2>1, <2>2, RequestFields, NoRowIsNoId DEF Decides
  <2> QED BY <1>2, <2>1, <2>2, <2>3, <2>4 DEF TargetInv
<1>4. RivalInv'
  BY <1>1 DEF Decides, Keeps, RivalInv, Active, Over
<1>5. \A e : Deleted(e)' <=> Deleted(e)
  BY <1>1 DEF Decides, Keeps, Deleted
<1>6. RowInv'
  BY <1>1, <1>5 DEF RowInv
<1>7. \A e \in Exps : <<e, q>> \notin exps
  BY <1>1, NoRowIsNoId DEF DrawnIds, ExpIds
<1>8. DrawnIds'
  BY <1>1, <1>2, <1>7 DEF DrawnIds
<1>9. FreshTarget'
  BY <1>1, <1>2, <1>7, RequestFields DEF FreshTarget, Decides, Keeps
<1>10. MergeTarget'
  <2> SUFFICES ASSUME NEW p \in Transfers, req'[p].pc \in Past \cup {"compare"},
                      req'[p].policy = "merge"
               PROVE  \/ req'[p].target \in exps'
                      \/ /\ req'[p].rival
                         /\ \E r \in Transfers : req'[r].op = "delete" /\ req'[r].target = req'[p].target
    BY DEF MergeTarget, Deleted
  <2>1. CASE p = q
    BY <1>1, <2>1 DEF Decides, Keeps
  <2>2. CASE p # q
    BY <1>1, <1>2, <2>2 DEF MergeTarget, Deleted
  <2> QED BY <2>1, <2>2
<1>11. FilesInv' /\ RowsInv'
  BY <1>1, <1>2 DEF Decides, FilesInv, RowsInv
<1>12. ExportTarget' /\ PurgeInv'
  BY <1>1, <1>2 DEF Decides, ExportTarget, PurgeInv
<1> QED BY <1>3, <1>4, <1>6, <1>8, <1>9, <1>10, <1>11, <1>12

\* The transaction over the rows: what it adds belongs to the experiment it made
\* or found.
LEMMA RowsGoInKeeps ==
    ASSUME ImportInv, BundleTypeOK', NEW q \in Transfers, Shifts(q, {"index"}), req[q].pc = "rows",
           UNCHANGED <<outputs, dirs>>,
           \/ req[q].policy = "merge" /\ exps' = exps
           \/ req[q].policy # "merge" /\ exps' = exps \cup {req[q].target},
           \A x \in req[q].zip.runs : runs[x] = NoRow,
           runs' = [x \in Runs |-> IF x \in req[q].zip.runs THEN req[q].target ELSE runs[x]]
    PROVE  ImportInv'
<1> USE DEF ImportInv, Past, Extracted, Reads
<1> DEFINE t == req[q].target
<1>1. /\ t \in ExpIds /\ t # NoRow /\ Active(q) /\ req[q].op = "import"
      /\ t \in {req[q].zip.exp, <<req[q].zip.exp, q>>} /\ req[q].zip.exp \in Exps
  BY NoRowIsNoId, RequestFields DEF TargetInv, Active, Over
<1>2. \A p \in Transfers \ {q} : req'[p] = req[p]
  BY DEF Shifts, Keeps
<1>3. /\ req'[q].pc = "index" /\ req'[q].target = t /\ req'[q].zip = req[q].zip
      /\ req'[q].op = req[q].op /\ req'[q].policy = req[q].policy /\ req'[q].rival = req[q].rival
  BY DEF Shifts, Keeps
<1>4. TargetInv'
  BY <1>1, <1>2, <1>3 DEF TargetInv
<1>5. RivalInv'
  BY <1>1, <1>2, <1>3 DEF RivalInv, Active, Over
<1>6. \A e : Deleted(e)' <=> Deleted(e)
  BY <1>2, <1>3 DEF Deleted
<1>7. exps \subseteq exps'
  OBVIOUS
<1>8. t \in exps' \/ (req[q].rival /\ Deleted(t))
  BY DEF MergeTarget
<1>9. RowInv'
  BY <1>6, <1>7, <1>8 DEF RowInv, BundleTypeOK
<1>10. DrawnIds'
  <2>1. ASSUME NEW e \in Exps, NEW p \in Transfers, <<e, p>> = t
        PROVE  p = q
    <3>1. <<e, p>> \notin Exps
      BY ConstantsAssumption
    <3> QED BY <1>1, <2>1, <3>1
  <2> QED BY <1>2, <1>3, <2>1 DEF DrawnIds
<1>11. FreshTarget'
  <2> SUFFICES ASSUME NEW p \in Transfers, p # q, req[p].pc \in Past \ {"index"},
                      req[p].policy # "merge", ~req[p].rival
               PROVE  req[p].target \notin exps'
    BY <1>2, <1>3 DEF FreshTarget
  <2>1. Active(p) /\ req[p].target # NoRow
    BY DEF Active, Over, TargetInv
  <2>2. req[p].target # t
    BY <1>1, <2>1, SharedIsRival
  <2> QED BY <2>2 DEF FreshTarget
<1>12. MergeTarget'
  <2> SUFFICES ASSUME NEW p \in Transfers, req'[p].pc \in Past \cup {"compare"},
                      req'[p].policy = "merge"
               PROVE  \/ req'[p].target \in exps'
                      \/ /\ req'[p].rival
                         /\ \E r \in Transfers : req'[r].op = "delete" /\ req'[r].target = req'[p].target
    BY DEF MergeTarget, Deleted
  <2>1. \E r \in Transfers : req[r].op = "delete" /\ req[r].target = req[p].target
        => \E s \in Transfers : req'[s].op = "delete" /\ req'[s].target = req'[p].target
    BY <1>2, <1>3
  <2>2. req[p].target \in exps \/ (req[p].rival /\ Deleted(req[p].target))
    BY <1>2, <1>3 DEF MergeTarget
  <2>3. req'[p].target = req[p].target /\ req'[p].rival = req[p].rival
    BY <1>2, <1>3
  <2> QED BY <1>2, <1>3, <1>7, <2>2, <2>3 DEF Deleted
<1>13. FilesInv'
  BY <1>2, <1>3 DEF FilesInv
<1>14. RowsInv'
  <2> SUFFICES ASSUME NEW p \in Transfers, req'[p].pc = "index", ~req'[p].rival
               PROVE  /\ req'[p].target \in exps'
                      /\ \A x \in req'[p].zip.runs : runs'[x] = req'[p].target
    BY DEF RowsInv
  <2>1. CASE p = q
    BY <1>3, <1>8, <2>1, RequestFields
  <2>2. CASE p # q
    <3>1. req'[p] = req[p] /\ req[p].target # NoRow /\ req[p].zip.runs \subseteq Runs
      BY <1>2, <2>2, RequestFields DEF TargetInv
    <3>2. req[p].target \in exps /\ \A x \in req[p].zip.runs : runs[x] = req[p].target
      BY <3>1 DEF RowsInv
    <3> QED BY <1>7, <3>1, <3>2
  <2> QED BY <2>1, <2>2
<1>15. ExportTarget' /\ PurgeInv'
  BY <1>2, <1>3, <1>7 DEF ExportTarget, PurgeInv
<1> QED BY <1>4, <1>5, <1>9, <1>10, <1>11, <1>12, <1>13, <1>14, <1>15

\* The deletion's second half: the rows go, and who still works on them is a rival.
LEMMA PurgeRowsKeeps ==
    ASSUME ImportInv, BundleTypeOK', NEW q \in Transfers, PurgeRows(q)
    PROVE  ImportInv'
<1> USE DEF ImportInv, Past, Extracted, Reads
<1> DEFINE t == req[q].target
<1>1. /\ t \in ExpIds /\ t # NoRow /\ Active(q) /\ req[q].op = "delete" /\ req[q].pc = "erase"
      /\ t = req[q].zip.exp
  BY NoRowIsNoId, RequestFields DEF TargetInv, Active, Over, PurgeRows
<1>2. Shifts(q, {"ok"})
  BY PurgeRowsMoves
<1>3. \A p \in Transfers \ {q} : req'[p] = req[p]
  BY <1>2 DEF Shifts, Keeps
<1>4. /\ req'[q].pc = "ok" /\ req'[q].target = t /\ req'[q].zip = req[q].zip
      /\ req'[q].op = req[q].op /\ req'[q].policy = req[q].policy /\ req'[q].rival = req[q].rival
  BY <1>2 DEF Shifts, Keeps
<1>5. /\ exps' = exps \ {t} /\ outputs' = outputs /\ dirs' = dirs
      /\ runs' = [x \in Runs |-> IF runs[x] = t THEN NoRow ELSE runs[x]]
  BY DEF PurgeRows, disk, artifacts
<1>6. TargetInv'
  BY <1>1, <1>3, <1>4 DEF TargetInv
<1>7. RivalInv'
  BY <1>1, <1>3, <1>4 DEF RivalInv, Active, Over
<1>8. \A e : Deleted(e)' <=> Deleted(e)
  BY <1>3, <1>4 DEF Deleted
<1>9. RowInv'
  BY <1>5, <1>8 DEF RowInv, BundleTypeOK
<1>10. DrawnIds' /\ FreshTarget'
  BY <1>3, <1>4, <1>5 DEF DrawnIds, FreshTarget
<1>11. \A p \in Transfers : p # q /\ Active(p) /\ req[p].target = t => req[p].rival
  BY <1>1, SharedIsRival
<1>12. MergeTarget'
  <2> SUFFICES ASSUME NEW p \in Transfers, req'[p].pc \in Past \cup {"compare"},
                      req'[p].policy = "merge"
               PROVE  \/ req'[p].target \in exps'
                      \/ /\ req'[p].rival
                         /\ \E r \in Transfers : req'[r].op = "delete" /\ req'[r].target = req'[p].target
    BY DEF MergeTarget, Deleted
  <2>1. p # q /\ req'[p] = req[p] /\ Active(p)
    BY <1>3, <1>4 DEF Active, Over
  <2>2. CASE req[p].target = t
    BY <1>1, <1>4, <1>11, <2>1, <2>2
  <2>3. CASE req[p].target # t
    <3>1. req[p].target \in exps \/ (req[p].rival /\ Deleted(req[p].target))
      BY <2>1 DEF MergeTarget
    <3> QED BY <1>3, <1>4, <1>5, <2>1, <2>3, <3>1 DEF Deleted
  <2> QED BY <2>2, <2>3
<1>13. FilesInv'
  BY <1>3, <1>4, <1>5 DEF FilesInv
<1>14. RowsInv'
  <2> SUFFICES ASSUME NEW p \in Transfers, req'[p].pc = "index", ~req'[p].rival
               PROVE  /\ req'[p].target \in exps'
                      /\ \A x \in req'[p].zip.runs : runs'[x] = req'[p].target
    BY DEF RowsInv
  <2>1. p # q /\ req'[p] = req[p] /\ Active(p) /\ req[p].zip.runs \subseteq Runs
    BY <1>3, <1>4, RequestFields DEF Active, Over
  <2>2. req[p].target # t
    BY <1>11, <2>1
  <2>3. req[p].target \in exps /\ \A x \in req[p].zip.runs : runs[x] = req[p].target
    BY <2>1 DEF RowsInv
  <2> QED BY <1>5, <2>1, <2>2, <2>3
<1>15. ExportTarget'
  <2> SUFFICES ASSUME NEW p \in Transfers
               PROVE  /\ req'[p].pc \in Reads \ {"row"} /\ ~req'[p].rival => req'[p].zip.exp \in exps'
                      /\ req'[p].pc \in {"collect", "read"} => req'[p].left \subseteq Datasets
    BY DEF ExportTarget
  <2>1. CASE p = q
    BY <1>4, <2>1
  <2>2. CASE p # q
    <3>1. req'[p] = req[p]
      BY <1>3, <2>2
    <3>2. ASSUME req[p].pc \in Reads \ {"row"}, ~req[p].rival
          PROVE  req[p].zip.exp \in exps'
      <4>1. Active(p)
        BY <3>2 DEF Active, Over
      <4>2. req[p].zip.exp # t
        BY <1>1, <2>2, <3>2, <4>1 DEF RivalInv
      <4> QED BY <1>5, <3>2, <4>2 DEF ExportTarget
    <3> QED BY <3>1, <3>2 DEF ExportTarget
  <2> QED BY <2>1, <2>2
<1>16. PurgeInv'
  BY <1>3, <1>4, <1>5 DEF PurgeInv
<1> QED BY <1>6, <1>7, <1>9, <1>10, <1>12, <1>13, <1>14, <1>15, <1>16

\* A result that arrives only adds a file to an experiment that has a run.
LEMMA PublishKeeps ==
    ASSUME ImportInv, NEW x \in Runs, Publish(x)
    PROVE  ImportInv'
<1> USE DEF ImportInv
<1>1. /\ UNCHANGED <<exps, runs, datasets, labels, findings, configs, trees, zips, tmp, req, kills>>
      /\ runs[x] \in ExpIds /\ outputs' = [outputs EXCEPT ![runs[x]] = @ \cup {x}]
      /\ runs[x] # NoRow /\ dirs' = dirs \cup {runs[x]} /\ x \in Local[runs[x]]
  BY NoRowIsNoId DEF Publish, tables, ExpIds
<1>2. BundleTypeOK'
  BY <1>1 DEF BundleTypeOK
<1>3. TargetInv' /\ RivalInv' /\ RowInv' /\ DrawnIds' /\ FreshTarget' /\ MergeTarget' /\ RowsInv'
      /\ ExportTarget'
  BY <1>1 DEF TargetInv, RivalInv, Active, RowInv, DrawnIds, FreshTarget, MergeTarget, RowsInv, Deleted,
     ExportTarget
<1>4. \A e \in ExpIds : outputs[e] \subseteq outputs'[e] /\ (e # runs[x] => outputs'[e] = outputs[e])
  BY <1>1 DEF BundleTypeOK
<1>5. FilesInv'
  <2> SUFFICES ASSUME NEW p \in Transfers, req[p].pc \in Extracted \cup {"index"}, ~req[p].rival
               PROVE  req[p].zip.files \subseteq outputs'[req[p].target]
    BY <1>1 DEF FilesInv
  <2>1. req[p].target \in ExpIds
    BY RequestFields DEF TargetInv, Extracted, Past
  <2> QED BY <1>4, <2>1 DEF FilesInv
<1>6. PurgeInv'
  <2> SUFFICES ASSUME NEW p \in Transfers, req[p].pc \in {"purge", "erase"}, ~req[p].rival,
                      req[p].target \in dirs'
               PROVE  Local[req[p].target] \cap outputs'[req[p].target] # {}
    BY <1>1 DEF PurgeInv
  <2>1. req[p].target \in ExpIds
    BY RequestFields DEF TargetInv
  <2>2. CASE req[p].target = runs[x]
    <3>1. x \in outputs'[runs[x]]
      BY <1>1 DEF BundleTypeOK
    <3> QED BY <1>1, <2>2, <3>1
  <2>3. CASE req[p].target # runs[x]
    BY <1>1, <1>4, <2>1, <2>3 DEF PurgeInv
  <2> QED BY <2>2, <2>3
<1> QED BY <1>2, <1>3, <1>5, <1>6

\* A request arrives; only a deletion touches a directory, and empties it.
LEMMA ArrivalKeeps ==
    ASSUME ImportInv, BundleTypeOK', NEW q \in Transfers, NEW r \in Request, Arrive(q, r),
           UNCHANGED <<exps, runs>>,
           \/ /\ r.pc \in {"check", "row"} /\ r.op \in {"import", "export"} /\ r.target = NoRow
              /\ r.pc = "check" <=> r.op = "import"
              /\ UNCHANGED outputs /\ dirs' \in {dirs, dirs \cup {r.zip.exp}}
           \/ /\ r.pc = "purge" /\ r.op = "delete" /\ r.target = r.zip.exp
              /\ outputs' = [outputs EXCEPT ![r.target] = {}] /\ dirs' = dirs \ {r.target}
    PROVE  ImportInv'
<1> USE DEF ImportInv
<1>1. /\ req[q].pc = "idle" /\ req[q].target = NoRow /\ ~Active(q) /\ SameBut(req'[q], r)
      /\ req[q].op # "delete"
  <2>1. req[q].pc = "idle" /\ SameBut(req'[q], r)
    BY ArriveTyped
  <2>2. req[q].target = NoRow /\ req[q].zip.exp # NoRow
    BY <2>1, RequestFields, NoRowIsNoId DEF TargetInv
  <2> QED BY <2>1, <2>2 DEF TargetInv, Active, Over
<1>2. \A p \in Transfers \ {q} :
         /\ SameBut(req'[p], req[p])
         /\ req[p].rival => req'[p].rival
         /\ Active(p) /\ req[p].zip.exp = r.zip.exp => req'[p].rival /\ req'[q].rival
  BY ArriveTyped
<1>3. r.zip.exp \in Exps /\ r.zip.exp \in ExpIds
  BY DEF Request, Bundle, ExpIds
<1>4. TargetInv'
  <2>1. \A p \in Transfers \ {q} : SameBut(req'[p], req[p])
    BY <1>2
  <2> QED BY <1>1, <1>3, <2>1 DEF TargetInv, SameBut, Past, Reads
<1>5. RivalInv'
  <2> SUFFICES ASSUME NEW p1 \in Transfers, NEW p2 \in Transfers, p1 # p2, Active(p1)', Active(p2)',
                      req'[p1].zip.exp = req'[p2].zip.exp
               PROVE  req'[p1].rival
    BY DEF RivalInv
  <2>1. CASE p1 = q
    <3>1. Active(p2) /\ req[p2].zip.exp = r.zip.exp
      BY <1>1, <1>2, <2>1 DEF SameBut, Active
    <3> QED BY <1>2, <2>1, <3>1
  <2>2. CASE p2 = q
    <3>1. Active(p1) /\ req[p1].zip.exp = r.zip.exp
      BY <1>1, <1>2, <2>2 DEF SameBut, Active
    <3> QED BY <1>2, <2>2, <3>1
  <2>3. CASE p1 # q /\ p2 # q
    <3>1. Active(p1) /\ Active(p2) /\ req[p1].zip.exp = req[p2].zip.exp
      BY <1>2, <2>3 DEF SameBut, Active
    <3>2. req[p1].rival
      BY <3>1 DEF RivalInv
    <3> QED BY <1>2, <2>3, <3>2
  <2> QED BY <2>1, <2>2, <2>3
<1>6. \A p \in Transfers : req[p].op = "delete"
                            => req'[p].op = "delete" /\ req'[p].target = req[p].target
  BY <1>1, <1>2 DEF SameBut
<1>7. RowInv'
  BY <1>6 DEF RowInv, Deleted
<1>8. DrawnIds'
  <2> SUFFICES ASSUME NEW e \in Exps, NEW p \in Transfers, <<e, p>> \in exps
               PROVE  req'[p].target = <<e, p>>
    BY DEF DrawnIds
  <2>1. req[p].target = <<e, p>> /\ <<e, p>> # NoRow
    BY NoRowIsNoId DEF DrawnIds, ExpIds
  <2> QED BY <1>1, <1>2, <2>1 DEF SameBut
<1>9. \A p \in Transfers : req'[p].pc \in Past \cup {"compare"}
         => /\ p # q /\ SameBut(req'[p], req[p]) /\ (req[p].rival => req'[p].rival)
            /\ Active(p)
  BY <1>1, <1>2 DEF SameBut, Past, Active, Over
<1>10. FreshTarget'
  BY <1>9 DEF FreshTarget, SameBut
<1>11. RowsInv'
  BY <1>9 DEF RowsInv, SameBut, Past
<1>12. MergeTarget'
  <2> SUFFICES ASSUME NEW p \in Transfers, req'[p].pc \in Past \cup {"compare"},
                      req'[p].policy = "merge"
               PROVE  \/ req'[p].target \in exps'
                      \/ /\ req'[p].rival
                         /\ \E s \in Transfers : req'[s].op = "delete" /\ req'[s].target = req'[p].target
    BY DEF MergeTarget, Deleted
  <2>1. req[p].target \in exps \/ (req[p].rival /\ Deleted(req[p].target))
    BY <1>9 DEF MergeTarget, SameBut
  <2> QED BY <1>6, <1>9, <2>1 DEF SameBut, Deleted
<1>13. FilesInv'
  <2> SUFFICES ASSUME NEW p \in Transfers, req'[p].pc \in Extracted \cup {"index"}, ~req'[p].rival
               PROVE  req'[p].zip.files \subseteq outputs'[req'[p].target]
    BY DEF FilesInv
  <2>1. /\ p # q /\ SameBut(req'[p], req[p]) /\ ~req[p].rival /\ Active(p)
        /\ req[p].pc \in Extracted \cup {"index"}
    BY <1>9 DEF Extracted, Past, SameBut
  <2>2. req[p].zip.files \subseteq outputs[req[p].target]
    BY <2>1 DEF FilesInv
  <2>3. req[p].target \in ExpIds /\ req[p].target \in {req[p].zip.exp, <<req[p].zip.exp, p>>}
        /\ req[p].zip.exp \in Exps
    BY <2>1, RequestFields DEF TargetInv, Extracted, Past
  <2>4. req[p].zip.exp # r.zip.exp
    BY <1>2, <2>1
  <2>5. <<req[p].zip.exp, p>> # r.zip.exp
    <3>1. <<req[p].zip.exp, p>> \in Exps \X Transfers
      BY <2>3
    <3> QED BY <1>3, <3>1, ConstantsAssumption
  <2>6. outputs'[req[p].target] = outputs[req[p].target]
    BY <2>3, <2>4, <2>5 DEF BundleTypeOK
  <2> QED BY <2>1, <2>2, <2>6 DEF SameBut
<1>14. ExportTarget'
  <2> SUFFICES ASSUME NEW p \in Transfers
               PROVE  /\ req'[p].pc \in Reads \ {"row"} /\ ~req'[p].rival => req'[p].zip.exp \in exps'
                      /\ req'[p].pc \in {"collect", "read"} => req'[p].left \subseteq Datasets
    BY DEF ExportTarget
  <2>1. CASE p = q
    BY <1>1, <2>1 DEF SameBut, Reads
  <2>2. CASE p # q
    BY <1>2, <2>2 DEF ExportTarget, SameBut
  <2> QED BY <2>1, <2>2
<1>15. PurgeInv'
  <2> SUFFICES ASSUME NEW p \in Transfers, req'[p].pc \in {"purge", "erase"}, ~req'[p].rival,
                      req'[p].target \in dirs'
               PROVE  Local[req'[p].target] \cap outputs'[req'[p].target] # {}
    BY DEF PurgeInv
  <2>1. CASE p = q
    BY <1>1, <2>1 DEF SameBut
  <2>2. CASE p # q
    <3>1. /\ SameBut(req'[p], req[p]) /\ ~req[p].rival /\ Active(p)
          /\ req[p].pc \in {"purge", "erase"}
      BY <1>2, <2>2 DEF SameBut, Active, Over
    <3>2. req[p].target = req[p].zip.exp /\ req[p].zip.exp \in ExpIds
      BY <3>1, RequestFields DEF TargetInv
    <3>3. req[p].target # r.zip.exp
      BY <1>2, <2>2, <3>1, <3>2
    <3>4. /\ outputs'[req[p].target] = outputs[req[p].target]
          /\ req[p].target \in dirs' <=> req[p].target \in dirs
      BY <3>2, <3>3 DEF BundleTypeOK
    <3>5. req'[p].target = req[p].target
      BY <3>1 DEF SameBut
    <3> QED BY <3>1, <3>4, <3>5 DEF PurgeInv
  <2> QED BY <2>1, <2>2
<1> QED BY <1>4, <1>5, <1>7, <1>8, <1>10, <1>11, <1>12, <1>13, <1>14, <1>15

\* The coordinator is killed: what is on disk keeps its shape,
LEMMA KillMoves ==
    ASSUME ImportInv, Kill
    PROVE  /\ BundleTypeOK' /\ UNCHANGED <<exps, runs, datasets, labels, zips>>
           /\ \A p \in Transfers : /\ req'[p].pc \in Over
                                   /\ req'[p].op = req[p].op /\ req'[p].target = req[p].target
                                   /\ req'[p].policy = req[p].policy /\ req'[p].zip = req[p].zip
                                   /\ req'[p].pc = "idle" => req[p].pc = "idle"
<1> USE DEF ImportInv
<1>1. \A p \in Transfers : req[p] \in Request
  BY DEF BundleTypeOK
<1>2. ASSUME NEW p \in Transfers
      PROVE  /\ req'[p] \in Request
             /\ req'[p].pc \in Over
             /\ req'[p].op = req[p].op /\ req'[p].target = req[p].target
             /\ req'[p].policy = req[p].policy /\ req'[p].zip = req[p].zip
             /\ req'[p].pc = "idle" => req[p].pc = "idle"
  <2>1. req'[p] = IF Active(p) THEN [req[p] EXCEPT !.pc = "failed"] ELSE req[p]
    BY DEF Kill
  <2>2. CASE Active(p)
    BY <1>1, <2>1, <2>2 DEF Request, Active, Over
  <2>3. CASE ~Active(p)
    BY <1>1, <2>1, <2>3 DEF Active, Over
  <2> QED BY <2>2, <2>3
<1>3. req' \in [Transfers -> Request]
  <2>1. req' = [p \in Transfers |-> req'[p]]
    BY DEF Kill
  <2> QED BY <1>2, <2>1
<1>4. /\ outputs' \in [ExpIds -> SUBSET Runs] /\ dirs' \subseteq ExpIds
      /\ configs' \in [Runs -> {"none", "token", "bare"}]
  <2>1. CASE UNCHANGED artifacts
    BY <2>1 DEF artifacts, BundleTypeOK
  <2>2. ASSUME NEW q \in Transfers, req[q].pc = "extract", NEW files \in SUBSET req[q].zip.files,
               NEW cs \in SUBSET req[q].zip.configs, Bring(q, files, cs)
        PROVE  <1>4!:
    <3>1. req[q].target \in ExpIds
      BY <2>2, TargetOfImport DEF Past
    <3>2. files \subseteq Runs
      BY <1>1 DEF Request, Bundle
    <3> QED BY <2>2, <3>1, <3>2 DEF Bring, BundleTypeOK
  <2> QED BY <2>1, <2>2 DEF Kill
<1>5. /\ UNCHANGED <<exps, runs, datasets, labels, findings, trees, zips, tmp>> /\ kills' = kills + 1
  BY DEF Kill, tables
<1>6. BundleTypeOK'
  BY <1>3, <1>4, <1>5 DEF BundleTypeOK
<1> QED BY <1>2, <1>5, <1>6

\* and no request is at work, so nothing is left to be kept.
LEMMA KillKeeps ==
    ASSUME ImportInv, Kill
    PROVE  ImportInv'
<1> USE DEF ImportInv
<1>1. BundleTypeOK' /\ UNCHANGED <<exps, runs>>
  BY KillMoves
<1>2. \A p \in Transfers : /\ req'[p].pc \in Over
                           /\ req'[p].op = req[p].op /\ req'[p].target = req[p].target
                           /\ req'[p].policy = req[p].policy /\ req'[p].zip = req[p].zip
                           /\ req'[p].pc = "idle" => req[p].pc = "idle"
  BY KillMoves
<1>3. TargetInv'
  BY <1>2 DEF TargetInv, Over, Past, Reads
<1>4. RivalInv' /\ FreshTarget' /\ MergeTarget' /\ FilesInv' /\ RowsInv' /\ ExportTarget' /\ PurgeInv'
  BY <1>2 DEF RivalInv, FreshTarget, MergeTarget, FilesInv, RowsInv, ExportTarget, PurgeInv, Active,
     Over, Past, Extracted, Reads
<1>5. \A e : Deleted(e)' <=> Deleted(e)
  BY <1>2 DEF Deleted
<1>6. RowInv' /\ DrawnIds'
  BY <1>1, <1>2, <1>5 DEF RowInv, DrawnIds
<1> QED BY <1>1, <1>3, <1>4, <1>6

\* The invariant holds at first.
LEMMA ImportInvInit == BundleInit => ImportInv
<1> SUFFICES ASSUME BundleInit PROVE ImportInv
  OBVIOUS
<1>1. BundleTypeOK
  BY InitTyped
<1>2. \A q \in Transfers : req[q] = Idle
  BY DEF BundleInit
<1>3. Idle.pc = "idle" /\ Idle.op = "none" /\ Idle.target = NoRow
  BY DEF Idle
<1>4. TargetInv /\ RivalInv /\ FreshTarget /\ MergeTarget /\ FilesInv /\ RowsInv /\ ExportTarget
      /\ PurgeInv
  BY <1>2, <1>3 DEF TargetInv, RivalInv, FreshTarget, MergeTarget, FilesInv, RowsInv, ExportTarget,
     PurgeInv, Active, Over, Past, Extracted, Reads
<1>5. RowInv
  <2>1. \A x \in Runs : (\E e \in Exps : x \in Local[e])
                        => LET o == CHOOSE e \in Exps : x \in Local[e] IN o \in Exps /\ x \in Local[o]
    OBVIOUS
  <2>2. \A x \in Runs : runs[x] # NoRow => runs[x] \in exps
    BY <2>1 DEF BundleInit
  <2> QED BY <2>2 DEF RowInv
<1>6. DrawnIds
  <2>1. exps \subseteq Exps /\ \A e \in Exps, q \in Transfers : <<e, q>> \notin Exps
    BY ConstantsAssumption DEF BundleInit
  <2> QED BY <2>1 DEF DrawnIds
<1> QED BY <1>1, <1>4, <1>5, <1>6 DEF ImportInv

\* It is kept by every arrival,
LEMMA UserKeeps ==
    ASSUME ImportInv, NEW q \in Transfers, User(q)
    PROVE  ImportInv'
<1>1. BundleTypeOK'
  BY UserMoves DEF ImportInv
<1>2. ASSUME NEW b \in zips, NEW policy \in Policies, Receive(q, b, policy)
      PROVE  ImportInv'
  <2>1. /\ Importing(b, policy) \in Request /\ Importing(b, policy).pc = "check"
        /\ Importing(b, policy).op = "import" /\ Importing(b, policy).target = NoRow
    BY StartsTyped DEF ImportInv, BundleTypeOK
  <2>2. Arrive(q, Importing(b, policy)) /\ UNCHANGED <<exps, runs, outputs, dirs>>
    BY <1>2 DEF Receive, Importing, tables, artifacts
  <2> HIDE DEF Importing
  <2> QED BY <1>1, <2>1, <2>2, ArrivalKeeps
<1>3. ASSUME NEW e \in Exps, ExportStart(q, e)
      PROVE  ImportInv'
  <2>1. /\ Exporting(e) \in Request /\ Exporting(e).pc = "row" /\ Exporting(e).zip.exp = e
        /\ Exporting(e).op = "export" /\ Exporting(e).target = NoRow
    BY StartsTyped
  <2>2. Arrive(q, Exporting(e)) /\ UNCHANGED <<exps, runs, outputs>> /\ dirs' = dirs \cup {e}
    BY <1>3 DEF ExportStart, Exporting, tables
  <2> HIDE DEF Exporting
  <2> QED BY <1>1, <2>1, <2>2, ArrivalKeeps
<1>4. ASSUME NEW e \in Exps, Delete(q, e)
      PROVE  ImportInv'
  <2>1. /\ Deleting(e) \in Request /\ Deleting(e).pc = "purge"
        /\ Deleting(e).op = "delete" /\ Deleting(e).target = e /\ Deleting(e).zip.exp = e
    BY StartsTyped
  <2>2. /\ Arrive(q, Deleting(e)) /\ UNCHANGED <<exps, runs>>
        /\ outputs' = [outputs EXCEPT ![e] = {}] /\ dirs' = dirs \ {e}
    BY <1>4 DEF Delete, Deleting, tables
  <2> HIDE DEF Deleting
  <2> QED BY <1>1, <2>1, <2>2, ArrivalKeeps
<1> QED BY <1>2, <1>3, <1>4 DEF User

\* by every step of an import,
LEMMA ImportKeepsInv ==
    ASSUME ImportInv, NEW q \in Transfers, Import(q)
    PROVE  ImportInv'
<1> USE DEF ImportInv
<1>1. CASE CheckConflict(q)
  BY <1>1, CheckConflictMoves, CheckConflictKeeps
<1>2. CASE CompareRuns(q)
  BY <1>2, PlacidSteps, PlacidKeeps
<1>3. CASE Extract(q)
  <2>1. req[q].pc = "extract" /\ UNCHANGED <<exps, runs>>
    BY <1>3 DEF Extract, tables
  <2>4. req[q].target \in ExpIds
    BY <2>1, TargetOfImport DEF Past
  <2>2. BundleTypeOK'
    BY <1>3, <2>4, ExtractMoves
  <2>3. Quiet(q) /\ \/ /\ req'[q].pc \in Extracted
                       /\ outputs' = [outputs EXCEPT ![req[q].target] = @ \cup req[q].zip.files]
                       /\ dirs' \in {dirs, dirs \cup {req[q].target}}
                    \/ req'[q].pc = "failed" /\ CleanUp(q)
    BY <1>3, <2>1, <2>4, ExtractMoves DEF Quiet, Shifts, Past, Extracted, Bring
  <2> QED BY <2>1, <2>2, <2>3, DirectoryKeeps DEF Past
<1>4. CASE ImportDatasets(q)
  BY <1>4, PlacidSteps, PlacidKeeps
<1>5. CASE Rehydrate(q)
  BY <1>5, PlacidSteps, PlacidKeeps
<1>6. CASE AppendLabels(q)
  BY <1>6, PlacidSteps, PlacidKeeps
<1>7. CASE ImportRows(q)
  <2>1. req[q].pc = "rows" /\ req[q].pc \in Past
    BY <1>7 DEF ImportRows, Past
  <2>2. req[q].target \in ExpIds
    BY <2>1, TargetOfImport
  <2>3. BundleTypeOK'
    BY <1>7, <2>2, ImportRowsMoves
  <2>4. CASE Shifts(q, {"failed"}) /\ CleanUp(q) /\ UNCHANGED <<exps, runs>>
    <3>1. Quiet(q) /\ req'[q].pc = "failed"
      BY <2>1, <2>4 DEF Quiet, Shifts
    <3> QED BY <2>1, <2>3, <2>4, <3>1, DirectoryKeeps
  <2>5. CASE ~(Shifts(q, {"failed"}) /\ CleanUp(q) /\ UNCHANGED <<exps, runs>>)
    <3>1. /\ Shifts(q, {"index"}) /\ UNCHANGED <<outputs, dirs>>
          /\ \/ req[q].policy = "merge" /\ exps' = exps
             \/ req[q].policy # "merge" /\ exps' = exps \cup {req[q].target}
          /\ \A x \in req[q].zip.runs : runs[x] = NoRow
          /\ runs' = [x \in Runs |-> IF x \in req[q].zip.runs THEN req[q].target ELSE runs[x]]
      BY <1>7, <2>2, <2>5, ImportRowsMoves, Zenon
    <3> QED BY <2>1, <2>3, <3>1, RowsGoInKeeps
  <2> QED BY <2>4, <2>5
<1>8. CASE IndexRun(q)
  BY <1>8, PlacidSteps, PlacidKeeps
<1> QED BY <1>1, <1>2, <1>3, <1>4, <1>5, <1>6, <1>7, <1>8 DEF Import

\* and so by every step.
LEMMA ImportInvStep == ImportInv /\ [BundleNext]_bundleVars => ImportInv'
<1> SUFFICES ASSUME ImportInv, [BundleNext]_bundleVars PROVE ImportInv'
  OBVIOUS
<1>1. ASSUME NEW q \in Transfers, User(q) \/ Import(q) \/ Export(q) \/ Purge(q)
      PROVE  ImportInv'
  <2>1. CASE Export(q) \/ PurgeConfigs(q)
    BY <2>1, PlacidSteps, PlacidKeeps
  <2>2. CASE PurgeRows(q)
    BY <2>2, PurgeRowsMoves, PurgeRowsKeeps DEF ImportInv
  <2> QED BY <1>1, <2>1, <2>2, UserKeeps, ImportKeepsInv DEF Purge
<1>2. ASSUME NEW x \in Runs, Publish(x) PROVE ImportInv'
  BY <1>2, PublishKeeps
<1>3. CASE Kill
  BY <1>3, KillKeeps
<1>4. CASE UNCHANGED bundleVars
  BY <1>4 DEF bundleVars, disk, artifacts, tables, ImportInv, BundleTypeOK, TargetInv, RivalInv, Active,
     RowInv, DrawnIds, FreshTarget, MergeTarget, FilesInv, RowsInv, ExportTarget, PurgeInv, Deleted
<1> QED BY <1>1, <1>2, <1>3, <1>4 DEF BundleNext

\* The inductive invariant of bundle.py's imports and the deletion beside them.
THEOREM ImportInvariance == BundleSpec => []ImportInv
<1> QED BY ImportInvInit, ImportInvStep, PTL DEF BundleSpec

\* Every variable keeps the shape the tables, directories and requests have.
THEOREM BundleTypeCorrect == BundleSpec => []BundleTypeOK
<1>1. ImportInv => BundleTypeOK
  BY DEF ImportInv
<1> QED BY <1>1, ImportInvariance, PTL

\* What LeftoversExplained asks of a step.
Excused(e) ==
    \/ kills' # kills
    \/ e \notin exps /\ \E x \in outputs'[e] \ outputs[e] : runs[x] = e
    \/ \E q \in Transfers :
          /\ req'[q].pc # req[q].pc /\ req'[q].zip.exp = e
          /\ \/ /\ req[q].pc = "datasets" /\ req'[q].pc = "failed"
                /\ req[q].policy = "reject"
             \/ req[q].pc = "idle" /\ req'[q].op = "export" /\ e \notin exps
             \/ req[q].pc = "rows" /\ req[q].policy = "merge" /\ req[q].rival
             \/ req[q].pc \in {"write", "erase"} /\ req[q].rival
             \/ req[q].pc = "erase" /\ Local[e] \cap outputs[e] # {}

\* A directory that loses who spoke for it: by a new directory, a lost row or an
\* import that leaves.
LEMMA BecomesUnclaimed ==
    ASSUME NEW e, Unclaimed(e)', ~Unclaimed(e)
    PROVE  /\ e \in dirs' \ exps'
           /\ \A q \in Transfers : req'[q].target = e => req'[q].pc \notin Extracted
           /\ \/ e \notin dirs \/ e \in exps
              \/ \E q \in Transfers : req[q].target = e /\ req[q].pc \in Extracted
  BY DEF Unclaimed, Extracted

\* No arrival leaves one but an export of an experiment that is not there.
LEMMA UserLeaves ==
    ASSUME ImportInv, NEW q \in Transfers, User(q), NEW e \in ExpIds, Unclaimed(e)', ~Unclaimed(e)
    PROVE  Excused(e)
<1> USE DEF ImportInv
<1>1. ASSUME NEW r \in Request, Arrive(q, r), UNCHANGED exps
      PROVE  /\ e \in dirs' \ dirs /\ e \notin exps
             /\ SameBut(req'[q], r) /\ req[q].pc = "idle"
  <2>1. /\ req[q].pc = "idle" /\ SameBut(req'[q], r)
        /\ \A p \in Transfers \ {q} : SameBut(req'[p], req[p])
    BY <1>1, ArriveTyped
  <2>2. ~\E p \in Transfers : req[p].target = e /\ req[p].pc \in Extracted
    BY <2>1, BecomesUnclaimed DEF SameBut, Extracted
  <2> QED BY <1>1, <2>1, <2>2, BecomesUnclaimed
<1>2. ASSUME NEW b \in zips, NEW policy \in Policies, Receive(q, b, policy)
      PROVE  FALSE
  <2>1. Importing(b, policy) \in Request
    BY StartsTyped DEF BundleTypeOK
  <2>2. Arrive(q, Importing(b, policy)) /\ UNCHANGED <<exps, dirs>>
    BY <1>2 DEF Receive, Importing, tables, artifacts
  <2> QED BY <1>1, <2>1, <2>2
<1>3. ASSUME NEW d \in Exps, ExportStart(q, d)
      PROVE  Excused(e)
  <2>1. /\ Exporting(d) \in Request /\ Exporting(d).zip.exp = d /\ Exporting(d).pc = "row"
        /\ Exporting(d).op = "export"
    BY StartsTyped
  <2>2. Arrive(q, Exporting(d)) /\ UNCHANGED exps /\ dirs' = dirs \cup {d}
    BY <1>3 DEF ExportStart, Exporting, tables
  <2> HIDE DEF Exporting
  <2>3. e = d /\ e \notin exps /\ SameBut(req'[q], Exporting(d)) /\ req[q].pc = "idle"
    BY <1>1, <2>1, <2>2
  <2> QED BY <2>1, <2>3 DEF SameBut, Excused
<1>4. ASSUME NEW d \in Exps, Delete(q, d)
      PROVE  FALSE
  <2>1. Deleting(d) \in Request
    BY StartsTyped
  <2>2. Arrive(q, Deleting(d)) /\ UNCHANGED exps /\ dirs' = dirs \ {d}
    BY <1>4 DEF Delete, Deleting, tables
  <2> QED BY <1>1, <2>1, <2>2
<1> QED BY <1>2, <1>3, <1>4 DEF User

\* Of the steps of an import two do: the rejection over datasets, and the rows of a
\* merge beside a deletion.
LEMMA ImportLeaves ==
    ASSUME ImportInv, NEW q \in Transfers, Import(q), NEW e \in ExpIds, Unclaimed(e)', ~Unclaimed(e)
    PROVE  Excused(e)
<1> USE DEF ImportInv, Extracted, Past
<1> DEFINE t == req[q].target
<1>1. ASSUME Keeps(q), t \in ExpIds => req'[q].target = t
      PROVE  \/ e \notin dirs /\ e \in dirs'
             \/ e \in exps /\ e \notin exps'
             \/ t = e /\ req[q].pc \in Extracted /\ req'[q].pc \notin Extracted
  <2>1. \A p \in Transfers \ {q} : req'[p] = req[p]
    BY <1>1 DEF Keeps
  <2> QED BY <1>1, <2>1, BecomesUnclaimed
<1>2. ASSUME t = e, req[q].policy # "rename"
      PROVE  req[q].zip.exp = e
  BY <1>2, NoRowIsNoId DEF TargetInv
<1>3. CASE CheckConflict(q)
  <2>1. Decides(q) /\ req[q].pc = "check" /\ UNCHANGED <<exps, dirs>>
    BY <1>3, CheckConflictMoves DEF CheckConflict, tables, artifacts
  <2>2. t = NoRow /\ t \notin ExpIds
    BY <2>1, NoRowIsNoId DEF TargetInv
  <2> QED BY <1>1, <2>1, <2>2 DEF Decides
<1>4. CASE CompareRuns(q) \/ Rehydrate(q) \/ AppendLabels(q) \/ IndexRun(q)
  <2>1. Quiet(q) /\ UNCHANGED <<exps, dirs>>
    BY <1>4, PlacidSteps DEF Placid, Quiet, CompareRuns, Rehydrate, AppendLabels, IndexRun
  <2>2. req[q].pc \in Extracted => req'[q].pc \in Extracted
    BY <1>4, CompareRunsMoves, RehydrateMoves, AppendLabelsMoves
       DEF CompareRuns, Rehydrate, AppendLabels, IndexRun, Shifts
  <2> QED BY <1>1, <2>1, <2>2 DEF Quiet
<1>5. CASE Extract(q)
  <2>1. t \in ExpIds /\ req[q].pc = "extract" /\ exps' = exps
    BY <1>5, TargetOfImport DEF Extract, tables
  <2>2. Keeps(q) /\ req'[q].target = t /\ (req'[q].pc \in Extracted \/ CleanUp(q))
    BY <1>5, <2>1, ExtractMoves DEF Shifts
  <2>3. dirs' \subseteq dirs \cup {t}
    BY <1>5 DEF Extract, Bring, CleanUp
  <2>4. e \notin dirs /\ e \in dirs'
    BY <1>1, <2>1, <2>2
  <2>5. e = t /\ ~CleanUp(q)
    BY <2>3, <2>4 DEF CleanUp
  <2> QED BY <2>2, <2>5, BecomesUnclaimed
<1>6. CASE ImportDatasets(q)
  <2>1. /\ Shifts(q, {"failed", "materialize", "labels"}) /\ req[q].pc = "datasets"
        /\ UNCHANGED <<exps, dirs>>
        /\ req'[q].pc = "failed" => req[q].policy = "reject"
    BY <1>6, ImportDatasetsMoves DEF ImportDatasets, Shifts, artifacts
  <2>2. t = e /\ req'[q].pc = "failed"
    BY <1>1, <2>1 DEF Shifts
  <2>3. req'[q].zip.exp = e
    BY <1>2, <2>1, <2>2 DEF Shifts
  <2> QED BY <2>1, <2>2, <2>3 DEF Excused
<1>7. CASE ImportRows(q)
  <2>1. t \in ExpIds /\ req[q].pc = "rows"
    BY <1>7, TargetOfImport DEF ImportRows
  <2>2. CASE Shifts(q, {"failed"}) /\ CleanUp(q) /\ UNCHANGED <<exps, runs>>
    <3>1. dirs' = dirs \ {t}
      BY <2>2 DEF CleanUp
    <3> QED BY <1>1, <2>2, <3>1, BecomesUnclaimed DEF Shifts
  <2>3. CASE ~(Shifts(q, {"failed"}) /\ CleanUp(q) /\ UNCHANGED <<exps, runs>>)
    <3>1. /\ Shifts(q, {"index"}) /\ UNCHANGED dirs
          /\ \/ req[q].policy = "merge" /\ exps' = exps
             \/ req[q].policy # "merge" /\ exps' = exps \cup {t}
      BY <1>7, <2>1, <2>3, ImportRowsMoves, Zenon
    <3>2. t = e
      BY <1>1, <3>1 DEF Shifts
    <3>3. req[q].policy = "merge" /\ e \notin exps
      BY <3>1, <3>2, BecomesUnclaimed
    <3>4. req[q].rival
      BY <2>1, <3>2, <3>3 DEF MergeTarget
    <3>5. req'[q].zip.exp = e /\ req'[q].pc = "index"
      BY <1>2, <3>1, <3>2, <3>3 DEF Shifts
    <3> QED BY <2>1, <3>3, <3>4, <3>5 DEF Excused
  <2> QED BY <2>2, <2>3
<1> QED BY <1>3, <1>4, <1>5, <1>6, <1>7 DEF Import

\* An export leaves one only beside a deletion,
LEMMA ExportLeaves ==
    ASSUME ImportInv, NEW q \in Transfers, Export(q), NEW e \in ExpIds, Unclaimed(e)', ~Unclaimed(e)
    PROVE  Excused(e)
<1> USE DEF ImportInv
<1>1. Placid(q)
  BY PlacidSteps
<1>2. req[q].pc \in Reads
  BY DEF Export, ExportRow, ExportRuns, CollectDataset, ReadLabels, WriteBundle, Reads
<1>3. req'[q].target = req[q].target /\ req[q].target = NoRow /\ exps' = exps
      /\ \A p \in Transfers \ {q} : req'[p] = req[p]
  BY <1>1, <1>2 DEF Placid, Quiet, Keeps, TargetInv
<1>4. e \notin dirs /\ e \in dirs' /\ e \notin exps
  BY <1>3, BecomesUnclaimed, NoRowIsNoId
<1>5. req[q].pc = "write" /\ e = req[q].zip.exp
  BY <1>1, <1>4 DEF Placid
<1>6. req[q].rival
  BY <1>4, <1>5 DEF ExportTarget, Reads
<1>7. req'[q].pc # "write" /\ req'[q].zip.exp = e
  <2>1. WriteBundle(q)
    BY <1>5 DEF Export, ExportRow, ExportRuns, CollectDataset, ReadLabels
  <2> QED BY <1>5, <2>1, WriteBundleMoves DEF Shifts, Keeps
<1> QED BY <1>5, <1>6, <1>7 DEF Excused

\* and a deletion only beside another request or a late result.
LEMMA PurgeLeaves ==
    ASSUME ImportInv, NEW q \in Transfers, Purge(q), NEW e \in ExpIds, Unclaimed(e)', ~Unclaimed(e)
    PROVE  Excused(e)
<1> USE DEF ImportInv
<1>1. CASE PurgeConfigs(q)
  <2>1. Placid(q) /\ req[q].pc = "purge"
    BY <1>1, PlacidSteps DEF PurgeConfigs
  <2>2. /\ UNCHANGED <<exps, dirs>> /\ \A p \in Transfers \ {q} : req'[p] = req[p]
        /\ req[q].pc \notin Extracted
    BY <2>1 DEF Placid, Quiet, Keeps, Extracted
  <2> QED BY <2>2, BecomesUnclaimed
<1>2. CASE PurgeRows(q)
  <2> DEFINE t == req[q].target
  <2>1. /\ req[q].pc = "erase" /\ exps' = exps \ {t} /\ dirs' = dirs
    BY <1>2 DEF PurgeRows, disk, artifacts
  <2>2. Shifts(q, {"ok"})
    BY <1>2, PurgeRowsMoves
  <2>3. \A p \in Transfers \ {q} : req'[p] = req[p]
    BY <2>2 DEF Shifts, Keeps
  <2>4. e \in dirs /\ e = t
    BY <2>1, <2>3, BecomesUnclaimed DEF Extracted
  <2>5. req'[q].zip.exp = e /\ req'[q].pc = "ok"
    BY <2>1, <2>2, <2>4 DEF Shifts, TargetInv
  <2>6. req[q].rival \/ Local[e] \cap outputs[e] # {}
    BY <2>1, <2>4 DEF PurgeInv
  <2> QED BY <2>1, <2>5, <2>6 DEF Excused
<1> QED BY <1>1, <1>2 DEF Purge

\* A directory that nobody speaks for comes about only by a rejected import, an
\* export of nothing, a restart, a late result or requests that overlap.
THEOREM LeftoversAreExplained == BundleSpec => LeftoversExplained
<1>1. ASSUME ImportInv, [BundleNext]_bundleVars, NEW e \in ExpIds, Unclaimed(e)', ~Unclaimed(e)
      PROVE  Excused(e)
  <2>1. CASE UNCHANGED bundleVars
    BY <1>1, <2>1 DEF bundleVars, disk, artifacts, tables, Unclaimed
  <2>2. CASE Kill
    <3>1. kills \in Nat /\ kills' = kills + 1
      BY <1>1, <2>2 DEF Kill, ImportInv, BundleTypeOK
    <3> QED BY <3>1 DEF Excused
  <2>3. ASSUME NEW x \in Runs, Publish(x)
        PROVE  Excused(e)
    <3>1. UNCHANGED <<exps, runs, req>> /\ dirs' = dirs \cup {runs[x]}
          /\ outputs' = [outputs EXCEPT ![runs[x]] = @ \cup {x}] /\ x \notin outputs[runs[x]]
      BY <2>3 DEF Publish, tables
    <3>2. e = runs[x] /\ e \notin exps
      BY <1>1, <3>1, BecomesUnclaimed
    <3>3. x \in outputs'[e] \ outputs[e]
      BY <1>1, <3>1, <3>2 DEF ImportInv, BundleTypeOK
    <3> QED BY <3>2, <3>3 DEF Excused
  <2>4. ASSUME NEW q \in Transfers, User(q) \/ Import(q) \/ Export(q) \/ Purge(q)
        PROVE  Excused(e)
    BY <1>1, <2>4, UserLeaves, ImportLeaves, ExportLeaves, PurgeLeaves
  <2> QED BY <1>1, <2>1, <2>2, <2>3, <2>4 DEF BundleNext
<1>2. ImportInv /\ [BundleNext]_bundleVars
         => [\A e \in ExpIds :
                Unclaimed(e)' /\ ~Unclaimed(e)
                => \/ kills' # kills
                   \/ e \notin exps /\ \E x \in outputs'[e] \ outputs[e] : runs[x] = e
                   \/ \E q \in Transfers :
                         /\ req'[q].pc # req[q].pc /\ req'[q].zip.exp = e
                         /\ \/ /\ req[q].pc = "datasets" /\ req'[q].pc = "failed"
                               /\ req[q].policy = "reject"
                            \/ req[q].pc = "idle" /\ req'[q].op = "export" /\ e \notin exps
                            \/ req[q].pc = "rows" /\ req[q].policy = "merge" /\ req[q].rival
                            \/ req[q].pc \in {"write", "erase"} /\ req[q].rival
                            \/ req[q].pc = "erase" /\ Local[e] \cap outputs[e] # {}]_bundleVars
  BY <1>1 DEF Excused
<1> QED BY <1>2, ImportInvariance, PTL DEF BundleSpec, LeftoversExplained

-----------------------------------------------------------------------------
\* The clean-up of an import takes its own directory, and no other file goes.
LEMMA WhoRemoves ==
    ASSUME ImportInv, BundleNext, NEW e \in ExpIds, outputs'[e] # outputs[e],
           ~(outputs[e] \subseteq outputs'[e])
    PROVE  \E q \in Transfers :
              \/ req'[q].op = "delete" /\ req'[q].target = e
              \/ /\ Keeps(q) /\ req[q].pc \in Past \ {"index"}
                 /\ req[q].target = e /\ req'[q].target = e
<1> USE DEF ImportInv
<1>1. \A q \in Transfers : Extract(q) \/ ImportRows(q) => req[q].target \in ExpIds
  BY TargetOfImport DEF Extract, ImportRows, Past
<1>2. ASSUME NEW q \in Transfers, CleanUp(q)
      PROVE  req[q].target = e
  BY <1>2 DEF CleanUp, BundleTypeOK
<1>3. ASSUME NEW q \in Transfers, Extract(q)
      PROVE  Keeps(q) /\ req[q].pc \in Past \ {"index"} /\ req[q].target = e /\ req'[q].target = e
  <2>1. req[q].pc \in Past \ {"index"}
    BY <1>3 DEF Extract, Past
  <2>2. outputs' # [outputs EXCEPT ![req[q].target] = @ \cup req[q].zip.files]
    BY DEF BundleTypeOK
  <2>3. Shifts(q, {"failed"}) /\ CleanUp(q)
    <3>1. ~Bring(q, req[q].zip.files, req[q].zip.configs)
      BY <2>2 DEF Bring
    <3> QED BY <1>1, <1>3, <3>1, ExtractMoves, Zenon
  <2> QED BY <1>2, <2>1, <2>3 DEF Shifts
<1>4. ASSUME NEW q \in Transfers, ImportRows(q)
      PROVE  Keeps(q) /\ req[q].pc \in Past \ {"index"} /\ req[q].target = e /\ req'[q].target = e
  <2>1. req[q].pc \in Past \ {"index"}
    BY <1>4 DEF ImportRows, Past
  <2>2. Shifts(q, {"failed"}) /\ CleanUp(q)
    BY <1>1, <1>4, ImportRowsMoves, Zenon
  <2> QED BY <1>2, <2>1, <2>2 DEF Shifts
<1>5. ASSUME NEW q \in Transfers, NEW d \in Exps, Delete(q, d)
      PROVE  req'[q].op = "delete" /\ req'[q].target = e
  <2>1. /\ Deleting(d) \in Request /\ Deleting(d).op = "delete" /\ Deleting(d).target = d
    BY StartsTyped
  <2>2. Arrive(q, Deleting(d)) /\ outputs' = [outputs EXCEPT ![d] = {}]
    BY <1>5 DEF Delete, Deleting
  <2> HIDE DEF Deleting
  <2>3. SameBut(req'[q], Deleting(d))
    BY <2>1, <2>2, ArriveTyped
  <2>4. e = d
    BY <2>2 DEF BundleTypeOK
  <2> QED BY <2>1, <2>3, <2>4 DEF SameBut
<1>6. \A x \in Runs : ~Publish(x)
  BY DEF Publish, BundleTypeOK
<1>7. ~Kill
  <2>1. ASSUME NEW q \in Transfers, req[q].pc = "extract", NEW files, NEW cs, Bring(q, files, cs)
        PROVE  FALSE
    <3>1. req[q].target \in ExpIds
      BY <2>1, TargetOfImport DEF Past
    <3> QED BY <2>1, <3>1 DEF Bring, BundleTypeOK
  <2> QED BY <2>1 DEF Kill, artifacts
<1>8. PICK q \in Transfers : User(q) \/ Import(q) \/ Export(q) \/ Purge(q)
  BY <1>6, <1>7 DEF BundleNext
<1>9. Extract(q) \/ ImportRows(q) \/ \E d \in Exps : Delete(q, d)
  BY <1>8 DEF User, Import, Export, Purge, PurgeConfigs, PurgeRows, Receive, ExportStart, CheckConflict,
     CompareRuns, ImportDatasets, Rehydrate, AppendLabels, IndexRun, ExportRow, ExportRuns,
     CollectDataset, ReadLabels, WriteBundle, disk, artifacts
<1> QED BY <1>3, <1>4, <1>5, <1>9

\* Only a deletion, a merge into the experiment or two requests at once lose the
\* result of a run that has its row.
THEOREM ResultsSurviveImports == BundleSpec => ResultLostOnlyToRival
<1>1. ASSUME ImportInv, [BundleNext]_bundleVars, NEW e \in ExpIds, NEW x \in outputs[e] \ outputs'[e],
             runs[x] = e
      PROVE  \E q \in Transfers : /\ req'[q].target = e
                                  /\ \/ req'[q].op = "delete"
                                     \/ req'[q].policy = "merge"
                                     \/ req'[q].rival
  <2>1. BundleNext
    BY <1>1 DEF bundleVars, disk, artifacts
  <2>2. PICK q \in Transfers :
              \/ req'[q].op = "delete" /\ req'[q].target = e
              \/ /\ Keeps(q) /\ req[q].pc \in Past \ {"index"}
                 /\ req[q].target = e /\ req'[q].target = e
    BY <1>1, <2>1, WhoRemoves
  <2>3. CASE req'[q].op = "delete" /\ req'[q].target = e
    BY <2>3
  <2>4. CASE /\ Keeps(q) /\ req[q].pc \in Past \ {"index"} /\ req[q].target = e
             /\ req'[q].target = e /\ req[q].policy # "merge" /\ ~req[q].rival
    <3>1. e \notin exps
      BY <1>1, <2>4 DEF ImportInv, FreshTarget
    <3>2. x \in Runs /\ runs[x] # NoRow
      BY <1>1, NoRowIsNoId DEF ImportInv, BundleTypeOK
    <3>3. PICK p \in Transfers : req[p].op = "delete" /\ req[p].target = e
      BY <1>1, <3>1, <3>2 DEF ImportInv, RowInv, Deleted
    <3>4. req'[p].op = "delete" /\ req'[p].target = e
      BY <2>4, <3>3 DEF Keeps
    <3> QED BY <3>4
  <2>5. CASE /\ Keeps(q) /\ req'[q].target = e
             /\ req[q].policy = "merge" \/ req[q].rival
    BY <2>5 DEF Keeps
  <2> QED BY <2>2, <2>3, <2>4, <2>5
<1>2. ImportInv /\ [BundleNext]_bundleVars
         => [\A e \in ExpIds : \A x \in outputs[e] \ outputs'[e] :
                runs[x] = e
                => \E q \in Transfers : /\ req'[q].target = e
                                        /\ \/ req'[q].op = "delete"
                                           \/ req'[q].policy = "merge"
                                           \/ req'[q].rival]_bundleVars
  BY <1>1
<1> QED BY <1>2, ImportInvariance, PTL DEF BundleSpec, ResultLostOnlyToRival

\* An import that answers with success undisturbed has brought its rows and files.
THEOREM ImportsAreWhole == BundleSpec => ImportIsWhole
<1>1. ASSUME ImportInv, [BundleNext]_bundleVars, NEW q \in Transfers,
             req'[q].op = "import", req'[q].pc = "ok", req[q].pc # "ok", ~req'[q].rival
      PROVE  /\ req'[q].target \in exps
             /\ \A x \in req'[q].zip.runs : runs[x] = req'[q].target
             /\ req'[q].zip.files \subseteq outputs[req'[q].target]
  <2> USE DEF ImportInv
  <2>1. req' # req /\ BundleNext
    BY <1>1 DEF bundleVars
  <2>2. \A x \in Runs : ~Publish(x)
    BY <2>1 DEF Publish
  <2>8. ~Kill
    <3>1. ASSUME Kill PROVE FALSE
      <4>1. req'[q] = IF Active(q) THEN [req[q] EXCEPT !.pc = "failed"] ELSE req[q]
        BY <3>1 DEF Kill
      <4>2. req[q] \in Request
        BY <1>1 DEF BundleTypeOK
      <4> QED BY <1>1, <4>1, <4>2 DEF Request
    <3> QED BY <3>1
  <2>3. PICK p \in Transfers : User(p) \/ Import(p) \/ Export(p) \/ Purge(p)
    BY <2>1, <2>2, <2>8 DEF BundleNext
  <2>4. IndexRun(q)
    <3>1. ~User(p)
      <4>1. ASSUME NEW r \in Request, r.pc # "ok", Arrive(p, r)
            PROVE  FALSE
        BY <1>1, <4>1, ArriveTyped DEF SameBut
      <4> QED BY <1>1, <4>1, StartsTyped DEF User, Receive, ExportStart, Delete, Importing, Exporting,
                 Deleting, BundleTypeOK
    <3>2. Keeps(p)
      <4>1. ImportRows(p) \/ Extract(p) => req[p].target \in ExpIds
        BY <1>1, TargetOfImport DEF ImportRows, Extract, Past
      <4>2. CASE Import(p) /\ ~IndexRun(p)
        BY <1>1, <4>1, <4>2, CheckConflictMoves, CompareRunsMoves, ExtractMoves,
           ImportDatasetsMoves, RehydrateMoves, AppendLabelsMoves, ImportRowsMoves
           DEF Import, Shifts, Decides
      <4>3. CASE IndexRun(p) \/ Export(p) \/ PurgeConfigs(p)
        BY <1>1, <4>3, PlacidSteps DEF Placid, Quiet
      <4>4. CASE PurgeRows(p)
        BY <1>1, <4>4, PurgeRowsMoves DEF Shifts
      <4> QED BY <2>3, <3>1, <4>2, <4>3, <4>4 DEF Purge
    <3>3. p = q
      BY <1>1, <3>2 DEF Keeps
    <3>4. req[q].op = "import"
      BY <1>1, <3>2, <3>3 DEF Keeps
    <3>5. ~Export(q) /\ ~Purge(q)
      BY <1>1, <3>4 DEF Export, ExportRow, ExportRuns, CollectDataset, ReadLabels, WriteBundle,
         Purge, PurgeConfigs, PurgeRows, TargetInv, Reads
    <3>6. CASE CheckConflict(q)
      BY <1>1, <3>6, CheckConflictMoves DEF Decides
    <3>7. CASE CompareRuns(q)
      BY <1>1, <3>7, CompareRunsMoves DEF Shifts
    <3>8. CASE Extract(q)
      <4>1. req[q].target \in ExpIds
        BY <1>1, <3>8, TargetOfImport DEF Extract, Past
      <4> QED BY <1>1, <3>8, <4>1, ExtractMoves DEF Shifts
    <3>9. CASE ImportDatasets(q) \/ Rehydrate(q) \/ AppendLabels(q)
      BY <1>1, <3>9, ImportDatasetsMoves, RehydrateMoves, AppendLabelsMoves DEF Shifts
    <3>10. CASE ImportRows(q)
      <4>1. req[q].target \in ExpIds
        BY <1>1, <3>10, TargetOfImport DEF ImportRows, Past
      <4> QED BY <1>1, <3>10, <4>1, ImportRowsMoves DEF Shifts
    <3> QED BY <2>3, <3>1, <3>3, <3>5, <3>6, <3>7, <3>8, <3>9, <3>10 DEF Import
  <2>5. req[q].pc = "index" /\ req[q].target \in ExpIds
    BY <1>1, <2>4, TargetOfImport DEF IndexRun, Past
  <2>6. /\ req'[q].target = req[q].target /\ req'[q].zip = req[q].zip
        /\ req'[q].rival = req[q].rival
    BY <1>1, <2>4, <2>5, IndexRunMoves DEF Shifts, Keeps
  <2>7. ~req[q].rival
    BY <1>1, <2>6
  <2> QED BY <1>1, <2>5, <2>6, <2>7 DEF RowsInv, FilesInv
<1>2. ImportInv /\ [BundleNext]_bundleVars
         => [\A q \in Transfers :
                LET r == req'[q] IN
                /\ r.op = "import" /\ r.pc = "ok" /\ req[q].pc # "ok" /\ ~r.rival
                => /\ r.target \in exps
                   /\ \A x \in r.zip.runs : runs[x] = r.target
                   /\ r.zip.files \subseteq outputs[r.target]]_bundleVars
  BY <1>1
<1> QED BY <1>2, ImportInvariance, PTL DEF BundleSpec, ImportIsWhole

-----------------------------------------------------------------------------
(* The bases of what is exported *)

\* A dataset of the table has its base there (the foreign key), under its own name.
BasesKnown == Closed(Datasets \cap datasets)

\* What an export has collected lacks no base that it has not yet to look at.
ExportClosed ==
    \A q \in Transfers :
        LET r == req[q] IN
        r.op = "export" =>
            /\ r.zip.labels \subseteq r.zip.datasets
            /\ r.pc \in {"row", "runs"} => r.zip.datasets = {}
            /\ r.pc = "collect" => /\ r.zip.datasets \subseteq datasets
                                  /\ BasesIn(r.zip.datasets, r.zip.datasets \cup r.left)
            /\ r.pc = "read" => r.left \subseteq r.zip.datasets
            /\ r.pc \in {"read", "write"} => Closed(r.zip.datasets)
ClosedInv == BundleTypeOK /\ BasesKnown /\ ExportClosed /\ BundlesAreClosed

\* The bases are there at first,
LEMMA ClosedInvInit == BundleInit => ClosedInv
<1> SUFFICES ASSUME BundleInit PROVE ClosedInv
  OBVIOUS
<1>1. BundleTypeOK
  BY InitTyped
<1>2. BasesKnown
  BY DEF BundleInit, BasesKnown, Closed, BasesIn
<1>3. ExportClosed
  BY DEF BundleInit, Idle, ExportClosed
<1>4. BundlesAreClosed
  BY ConstantsAssumption DEF BundleInit, BundlesAreClosed
<1> QED BY <1>1, <1>2, <1>3, <1>4 DEF ClosedInv

\* One transaction takes a batch over, or nothing of it: a base that is not in the
\* batch is in the table, and one that is renamed was there before.
LEMMA ImportDatasetsKeepsBases ==
    ASSUME ClosedInv, NEW q \in Transfers, ImportDatasets(q)
    PROVE  BasesKnown'
<1> DEFINE batch == req[q].zip.datasets
           renamed == IF req[q].policy = "rename" THEN batch \cap datasets ELSE {}
           names == {IF d \in renamed THEN <<d, q>> ELSE d : d \in batch}
<1>1. batch \subseteq Datasets /\ renamed \subseteq datasets
  BY DEF ClosedInv, BundleTypeOK, Request, Bundle
<1>2. CASE datasets' = datasets
  BY <1>2 DEF ClosedInv, BasesKnown
<1>3. CASE /\ datasets' = datasets \cup names
           /\ \A d \in batch : BaseOf[d] \in batch \/ Known(BaseOf[d])
  <2> SUFFICES ASSUME NEW d \in Datasets \cap datasets', BaseOf[d] # NoRow
               PROVE  BaseOf[d] \in Datasets \cap datasets'
    BY DEF BasesKnown, Closed, BasesIn
  <2>1. BaseOf[d] \in Datasets
    BY ConstantsAssumption
  <2>2. CASE d \in datasets
    BY <1>3, <2>2 DEF ClosedInv, BasesKnown, Closed, BasesIn
  <2>3. CASE d \notin datasets
    <3>1. \A x \in Datasets : <<x, q>> \notin Datasets
      <4>1. \A x \in Datasets : <<x, q>> \in Datasets \X Transfers
        OBVIOUS
      <4> QED BY <4>1, ConstantsAssumption
    <3>2. d \in batch
      BY <1>1, <1>3, <2>3, <3>1
    <3>3. CASE BaseOf[d] \in batch
      BY <1>1, <1>3, <2>1, <3>3
    <3>4. CASE Known(BaseOf[d])
      BY <1>3, <2>1, <3>4 DEF Known
    <3> QED BY <1>3, <3>2, <3>3, <3>4
  <2> QED BY <2>2, <2>3
<1>4. \/ datasets' = datasets
      \/ /\ datasets' = datasets \cup names
         /\ \A d \in batch : BaseOf[d] \in batch \/ Known(BaseOf[d])
  BY DEF ImportDatasets
<1> QED BY <1>2, <1>3, <1>4

\* Every step of an export,
LEMMA ExportKeepsClosed ==
    ASSUME ClosedInv, ImportInv, BundleTypeOK', NEW q \in Transfers, Export(q)
    PROVE  ClosedInv'
<1> USE DEF ClosedInv
<1> DEFINE z == req[q].zip
           left == req[q].left
           s == req'[q]
<1>1. Placid(q) /\ req[q].op = "export"
  BY PlacidSteps DEF Export, ExportRow, ExportRuns, CollectDataset, ReadLabels, WriteBundle, ImportInv,
     TargetInv, Reads
<1>2. \A p \in Transfers \ {q} : req'[p] = req[p]
  BY <1>1 DEF Placid, Quiet, Keeps
<1>3. /\ z.labels \subseteq z.datasets /\ z.datasets \subseteq Datasets
      /\ req[q].pc \in {"collect", "read"} => left \subseteq Datasets
  BY <1>1, RequestFields DEF ExportClosed, ImportInv, ExportTarget, Bundle
<1>4. datasets' = datasets
  BY DEF Export, ExportRow, ExportRuns, CollectDataset, ReadLabels, WriteBundle, tables
<1>5. ASSUME UNCHANGED zips,
             /\ s.zip.labels \subseteq s.zip.datasets
             /\ s.pc \in {"row", "runs"} => s.zip.datasets = {}
             /\ s.pc = "collect" => /\ s.zip.datasets \subseteq datasets
                                   /\ BasesIn(s.zip.datasets, s.zip.datasets \cup s.left)
             /\ s.pc = "read" => s.left \subseteq s.zip.datasets
             /\ s.pc \in {"read", "write"} => Closed(s.zip.datasets)
      PROVE  ClosedInv'
  <2>1. ExportClosed'
    BY <1>2, <1>4, <1>5 DEF ExportClosed, Closed, BasesIn
  <2> QED BY <1>4, <1>5, <2>1 DEF BasesKnown, BundlesAreClosed, Closed, BasesIn
<1>6. CASE ExportRow(q)
  <2>1. s.zip = z /\ s.pc \in {"runs", "failed"} /\ req[q].pc = "row" /\ UNCHANGED zips
    BY <1>6, ExportRowMoves DEF ExportRow, Shifts, disk
  <2>2. z.datasets = {}
    BY <1>1, <2>1 DEF ExportClosed
  <2> QED BY <1>3, <1>5, <2>1, <2>2
<1>7. CASE ExportRuns(q)
  <2>1. /\ s.zip.datasets = z.datasets /\ s.zip.labels = z.labels /\ s.pc \in {"collect", "write"}
        /\ req[q].pc = "runs" /\ UNCHANGED zips
    BY <1>7, ExportRunsMoves DEF ExportRuns, disk
  <2>2. z.datasets = {}
    BY <1>1, <2>1 DEF ExportClosed
  <2> QED BY <1>3, <1>5, <2>1, <2>2 DEF Closed, BasesIn
<1>8. CASE CollectDataset(q)
  <2>1. req[q].pc = "collect" /\ UNCHANGED zips
    BY <1>8 DEF CollectDataset, disk
  <2>2. z.datasets \subseteq datasets /\ BasesIn(z.datasets, z.datasets \cup left)
    BY <1>1, <2>1 DEF ExportClosed
  <2>3. /\ s.zip.labels = z.labels
        /\ \/ left = {} /\ s.pc = "read" /\ s.zip = z /\ s.left = z.datasets
           \/ \E d \in left \cap datasets :
                 /\ s.pc = "collect" /\ s.left = (left \ {d}) \cup BaseToo(q, d)
                 /\ s.zip.datasets = z.datasets \cup {d}
           \/ \E d \in left \ datasets : s.pc = "collect" /\ s.left = left \ {d} /\ s.zip = z
    BY <1>3, <1>8, <2>1, CollectDatasetMoves
  <2>4. CASE left = {} /\ s.pc = "read" /\ s.zip = z /\ s.left = z.datasets
    BY <1>3, <1>5, <2>1, <2>2, <2>4 DEF Closed, BasesIn
  <2>5. ASSUME NEW d \in left \cap datasets, s.pc = "collect",
               s.left = (left \ {d}) \cup BaseToo(q, d), s.zip.datasets = z.datasets \cup {d}
        PROVE  ClosedInv'
    <3>1. BasesIn(s.zip.datasets, s.zip.datasets \cup s.left)
      BY <2>2, <2>5 DEF BasesIn, BaseToo
    <3> QED BY <1>3, <1>5, <2>1, <2>2, <2>3, <2>5, <3>1
  <2>6. ASSUME NEW d \in left \ datasets, s.pc = "collect", s.left = left \ {d}, s.zip = z
        PROVE  ClosedInv'
    <3>1. \A x \in z.datasets : BaseOf[x] # d
      BY <1>3, <2>1, <2>2, <2>6, NoRowIsNoId DEF BasesKnown, Closed, BasesIn, Names
    <3>2. BasesIn(s.zip.datasets, s.zip.datasets \cup s.left)
      BY <2>2, <2>6, <3>1 DEF BasesIn
    <3> QED BY <1>3, <1>5, <2>1, <2>2, <2>6, <3>2
  <2> QED BY <2>3, <2>4, <2>5, <2>6
<1>9. CASE ReadLabels(q)
  <2>1. req[q].pc = "read" /\ UNCHANGED zips
    BY <1>9 DEF ReadLabels, disk
  <2>2. left \subseteq z.datasets /\ Closed(z.datasets)
    BY <1>1, <2>1 DEF ExportClosed
  <2>3. /\ s.zip.datasets = z.datasets /\ s.left \subseteq left
        /\ s.zip.labels \subseteq z.labels \cup left /\ s.pc \in {"read", "write"}
    BY <1>3, <1>9, <2>1, ReadLabelsMoves
  <2> QED BY <1>3, <1>5, <2>1, <2>2, <2>3
<1>10. CASE WriteBundle(q)
  <2>1. req[q].pc = "write" /\ s.zip = z /\ s.pc = "ok"
    BY <1>10, WriteBundleMoves DEF WriteBundle, Shifts
  <2>2. Closed(z.datasets)
    BY <1>1, <2>1 DEF ExportClosed
  <2>3. PICK b \in Bundle : zips' = zips \cup {b} /\ b.datasets = z.datasets /\ b.labels = z.labels
    BY <1>10, WriteBundleMoves
  <2>4. Closed(b.datasets) /\ b.labels \subseteq b.datasets
    BY <1>3, <2>2, <2>3
  <2>5. BundlesAreClosed'
    BY <2>3, <2>4 DEF BundlesAreClosed, Closed, BasesIn
  <2>6. ExportClosed'
    BY <1>2, <1>3, <1>4, <2>1 DEF ExportClosed, Closed, BasesIn
  <2> QED BY <1>4, <2>5, <2>6 DEF BasesKnown, Closed, BasesIn
<1> QED BY <1>6, <1>7, <1>8, <1>9, <1>10 DEF Export

\* and every other step, keep it.
LEMMA ClosedInvStep == ClosedInv /\ BundleTypeOK' /\ ImportInv /\ [BundleNext]_bundleVars => ClosedInv'
<1> SUFFICES ASSUME ClosedInv, BundleTypeOK', ImportInv, [BundleNext]_bundleVars PROVE ClosedInv'
  OBVIOUS
<1> USE DEF ClosedInv
<1>1. ASSUME BasesKnown', datasets \subseteq datasets', UNCHANGED zips,
             \A p \in Transfers :
                \/ req'[p] = req[p] \/ req'[p].op # "export"
                \/ /\ req'[p].zip = req[p].zip /\ req'[p].op = req[p].op
                   /\ req'[p].pc \in Over \/ (req'[p].pc = req[p].pc /\ req'[p].left = req[p].left)
                \/ /\ req'[p].pc = "row" /\ req'[p].zip.datasets = {}
                   /\ req'[p].zip.labels = {}
      PROVE  ClosedInv'
  <2>1. ASSUME NEW p \in Transfers, req'[p].op = "export"
        PROVE  LET r == req'[p] IN
               /\ r.zip.labels \subseteq r.zip.datasets
               /\ r.pc \in {"row", "runs"} => r.zip.datasets = {}
               /\ r.pc = "collect" => /\ r.zip.datasets \subseteq datasets'
                                     /\ BasesIn(r.zip.datasets, r.zip.datasets \cup r.left)
               /\ r.pc = "read" => r.left \subseteq r.zip.datasets
               /\ r.pc \in {"read", "write"} => Closed(r.zip.datasets)
    <3>1. CASE req'[p] = req[p]
      BY <1>1, <2>1, <3>1 DEF ExportClosed
    <3>2. CASE /\ req'[p].zip = req[p].zip /\ req'[p].op = req[p].op
               /\ req'[p].pc \in Over \/ (req'[p].pc = req[p].pc /\ req'[p].left = req[p].left)
      BY <1>1, <2>1, <3>2 DEF ExportClosed, Over
    <3>3. CASE req'[p].pc = "row" /\ req'[p].zip.datasets = {} /\ req'[p].zip.labels = {}
      BY <3>3
    <3> QED BY <1>1, <2>1, <3>1, <3>2, <3>3
  <2>2. ExportClosed'
    BY <2>1 DEF ExportClosed, Closed, BasesIn
  <2>3. BundlesAreClosed'
    BY <1>1 DEF BundlesAreClosed, Closed, BasesIn
  <2> QED BY <1>1, <2>2, <2>3
<1>2. BasesKnown' \/ datasets' # datasets
  BY DEF BasesKnown, Closed, BasesIn
<1>3. ASSUME NEW q \in Transfers, User(q)
      PROVE  ClosedInv'
  <2>1. ASSUME NEW r \in Request, Arrive(q, r), UNCHANGED <<datasets, zips>>,
               r.op # "export" \/ (r.pc = "row" /\ r.zip.datasets = {} /\ r.zip.labels = {})
        PROVE  ClosedInv'
    <3>1. /\ SameBut(req'[q], r) /\ \A p \in Transfers \ {q} : SameBut(req'[p], req[p])
      BY <2>1, ArriveTyped
    <3> QED BY <1>1, <1>2, <2>1, <3>1 DEF SameBut
  <2>2. ASSUME NEW b \in zips, NEW policy \in Policies, Receive(q, b, policy)
        PROVE  ClosedInv'
    <3>1. Importing(b, policy) \in Request /\ Importing(b, policy).op = "import"
      BY StartsTyped DEF BundleTypeOK
    <3>2. Arrive(q, Importing(b, policy)) /\ UNCHANGED <<datasets, zips>>
      BY <2>2 DEF Receive, Importing, tables
    <3> QED BY <2>1, <3>1, <3>2
  <2>3. ASSUME NEW e \in Exps, ExportStart(q, e)
        PROVE  ClosedInv'
    <3>1. /\ Exporting(e) \in Request /\ Exporting(e).zip.datasets = {}
          /\ Exporting(e).zip.labels = {} /\ Exporting(e).pc = "row"
      BY StartsTyped
    <3>2. Arrive(q, Exporting(e)) /\ UNCHANGED <<datasets, zips>>
      BY <2>3 DEF ExportStart, Exporting, tables
    <3> QED BY <2>1, <3>1, <3>2
  <2>4. ASSUME NEW e \in Exps, Delete(q, e)
        PROVE  ClosedInv'
    <3>1. Deleting(e) \in Request /\ Deleting(e).op = "delete"
      BY StartsTyped
    <3>2. Arrive(q, Deleting(e)) /\ UNCHANGED <<datasets, zips>>
      BY <2>4 DEF Delete, Deleting, tables
    <3> QED BY <2>1, <3>1, <3>2
  <2> QED BY <1>3, <2>2, <2>3, <2>4 DEF User
<1>4. ASSUME NEW q \in Transfers, Import(q) \/ Purge(q)
      PROVE  ClosedInv'
  <2>1. req[q].op \in {"import", "delete"}
    BY <1>4 DEF Import, CheckConflict, CompareRuns, Extract, ImportDatasets, Rehydrate, AppendLabels,
       ImportRows, IndexRun, Purge, PurgeConfigs, PurgeRows, ImportInv, TargetInv, Past
  <2>2. ImportRows(q) \/ Extract(q) => req[q].target \in ExpIds
    BY TargetOfImport DEF ImportRows, Extract, Past
  <2>3. Keeps(q)
    <3>1. CASE Import(q) /\ ~IndexRun(q)
      BY <2>2, <3>1, CheckConflictMoves, CompareRunsMoves, ExtractMoves,
         ImportDatasetsMoves, RehydrateMoves, AppendLabelsMoves, ImportRowsMoves
         DEF Import, Shifts, Decides
    <3>2. CASE IndexRun(q) \/ PurgeConfigs(q)
      BY <3>2, PlacidSteps DEF Placid, Quiet
    <3>3. CASE PurgeRows(q)
      BY <3>3, PurgeRowsMoves DEF Shifts
    <3> QED BY <1>4, <3>1, <3>2, <3>3 DEF Purge
  <2>4. UNCHANGED zips
    BY <1>4 DEF Import, CheckConflict, CompareRuns, Extract, ImportDatasets, Rehydrate, AppendLabels,
       ImportRows, IndexRun, Purge, PurgeConfigs, PurgeRows, disk
  <2>5. BasesKnown' /\ datasets \subseteq datasets'
    <3>1. CASE ImportDatasets(q)
      BY <3>1, ImportDatasetsKeepsBases DEF ImportDatasets
    <3>2. CASE ~ImportDatasets(q)
      BY <1>2, <1>4, <3>2 DEF Import, CheckConflict, CompareRuns, Extract, Rehydrate, AppendLabels,
         ImportRows, IndexRun, Purge, PurgeConfigs, PurgeRows, tables
    <3> QED BY <3>1, <3>2
  <2> QED BY <1>1, <2>1, <2>3, <2>4, <2>5 DEF Keeps
<1>5. ASSUME NEW x \in Runs, Publish(x)
      PROVE  ClosedInv'
  BY <1>1, <1>2, <1>5 DEF Publish, tables
<1>6. CASE Kill
  BY <1>1, <1>2, <1>6, KillMoves
<1>7. CASE UNCHANGED bundleVars
  BY <1>1, <1>2, <1>7 DEF bundleVars, tables, disk
<1> QED BY <1>3, <1>4, <1>5, <1>6, <1>7, ExportKeepsClosed DEF BundleNext

\* Whatever runs beside an export, the bundle it writes carries every base.
THEOREM BundlesStayClosed == BundleSpec => []BundlesAreClosed
<1>1. ImportInv' => BundleTypeOK'
  BY DEF ImportInv
<1>2. ClosedInv => BundlesAreClosed
  BY DEF ClosedInv
<1> QED BY <1>1, <1>2, ImportInvariance, ClosedInvInit, ClosedInvStep, PTL DEF BundleSpec
=============================================================================
