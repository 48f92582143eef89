-------------------------- MODULE StrategyRunProofs --------------------------
(***************************************************************************)
(* The safety invariants of StrategyRun, for any inputs, roles, caps, pool *)
(* size, calls and faults.                                                 *)
(***************************************************************************)
EXTENDS StrategyRun, FiniteSetTheorems, SequenceTheorems, TLAPS

(* Every child was counted first; the counter respects the cap.            *)
Counted == Len(children) <= invocations /\ invocations <= MaxInvocations

(* The fallback works only for programmatic strategies, once the supervisor *)
(* is through, and has taken note of every missing input.                  *)
FallbackLast ==
    /\ \A x \in Inputs : fallback[x] # "none" =>
          mode = "programmatic" /\ phase \in {"fallback", "done"}
    /\ phase = "fallback" =>
          mode = "programmatic" /\ \A x \in Inputs : x \in Logged \/ fallback[x] # "none"
    /\ phase = "reprompt" => mode = "reprompt"
SkippedUnknown ==
    \A x \in Inputs : /\ fallback[x] = "skipped" => Specialist[x] = Unknown
                      /\ fallback[x] \in {"creating", "created"} => Specialist[x] # Unknown

IInv ==
    /\ TypeOK
    /\ Counted
    /\ FallbackLast /\ SkippedUnknown
    /\ NoDoubleDispatch /\ RepromptIsHonest /\ NothingLeftOut

-----------------------------------------------------------------------------
(* What a batch is made of.                                                *)
LEMMA BatchIsSeq ==
    ASSUME NEW keys \in Batches
    PROVE  keys \in Seq(Keys) /\ Len(keys) \in 0..MaxBatch /\ keys \in [1..Len(keys) -> Keys]
<1>1. PICK n \in 0..MaxBatch : keys \in [1..n -> Keys]
  BY DEF Batches
<1>2. n \in Nat
  BY StrategyAssumption
<1>3. keys \in Seq(Keys)
  BY <1>1, <1>2, IsASeq
<1>4. Len(keys) = n
  BY <1>1, <1>2, <1>3, LenProperties
<1> QED BY <1>1, <1>3, <1>4

(* The validator's count is a number of inputs, and grows with the logs.   *)
CountIsBounded ==
    /\ IsFiniteSet(Missing)
    /\ Cardinality(Inputs) \in Nat
    /\ Dispatched \in 0..Cardinality(Inputs)

LEMMA DispatchedType == CountIsBounded
<1>1. Missing \in SUBSET Inputs /\ IsFiniteSet(Inputs)
  BY StrategyAssumption DEF Missing
<1>2. /\ IsFiniteSet(Missing)
      /\ Cardinality(Missing) <= Cardinality(Inputs)
  BY <1>1, FS_Subset
<1>3. Cardinality(Missing) \in Nat /\ Cardinality(Inputs) \in Nat
  BY <1>1, <1>2, FS_CardinalityType
<1> QED BY <1>2, <1>3 DEF Dispatched, CountIsBounded

LEMMA DispatchedGrows ==
    ASSUME Logged \subseteq Logged'
    PROVE  Dispatched <= Dispatched'
<1>1. Missing' \in SUBSET Missing
  BY DEF Missing
<1>2. IsFiniteSet(Missing) /\ IsFiniteSet(Missing')
  BY <1>1, DispatchedType, FS_Subset DEF CountIsBounded
<1>3. Cardinality(Missing') <= Cardinality(Missing)
  BY <1>1, <1>2, FS_Subset
<1>4. /\ Cardinality(Missing) \in Nat /\ Cardinality(Missing') \in Nat
      /\ Cardinality(Inputs) \in Nat
  BY <1>2, StrategyAssumption, FS_CardinalityType
<1> QED BY <1>3, <1>4 DEF Dispatched

LEMMA InitHolds == Init => IInv
<1> SUFFICES ASSUME Init PROVE IInv
  OBVIOUS
<1>1. children \in Seq(Child) /\ Len(children) = 0
  BY EmptySeq DEF Init
<1>2. TypeOK
  BY <1>1, StrategyAssumption DEF Init, TypeOK, Providers, FallbackPc
<1> QED
  BY <1>1, <1>2, StrategyAssumption
  DEF Init, IInv, Counted, FallbackLast, SkippedUnknown, NoDoubleDispatch, RepromptIsHonest,
      NothingLeftOut

-----------------------------------------------------------------------------
(* Children started together extend the list by as many.                   *)
LEMMA Started ==
    ASSUME TypeOK, NEW role \in Seeded, NEW keys \in Seq(Keys),
           StartChildren(role, keys)
    PROVE  /\ children' \in Seq(Child)
           /\ Len(children') = Len(children) + Len(keys)
           /\ cache' \in [Models -> Providers \cup {NoProvider}]
<1> DEFINE new == [i \in 1..Len(keys) |-> [role |-> role, key |-> keys[i], pc |-> "running"]]
<1>1. Len(keys) \in Nat
  OBVIOUS
<1>2. \A i \in 1..Len(keys) : keys[i] \in Keys
  BY ElementOfSeq
<1>3. role \in Roles
  BY StrategyAssumption
<1>4. new \in [1..Len(keys) -> Child]
  BY <1>2, <1>3 DEF Child
<1>5. new \in Seq(Child)
  BY <1>1, <1>4, IsASeq
<1>6. Len(new) = Len(keys)
  BY <1>1, <1>4, <1>5, LenProperties
<1>7. children' = children \o new
  BY DEF StartChildren
<1>8. cache' \in [Models -> Providers \cup {NoProvider}]
  BY <1>3, StrategyAssumption DEF StartChildren, TypeOK, Providers
<1> QED BY <1>5, <1>6, <1>7, <1>8, ConcatProperties DEF TypeOK

(* What a dispatch does to the parts of the invariant it touches.          *)
LEMMA DispatchStep ==
    ASSUME IInv, NEW role \in Roles, NEW keys \in Seq(Keys),
           CapsAllow(Len(keys)), Dispatch(role, keys)
    PROVE  /\ Counted'
           /\ children' \in Seq(Child) /\ invocations' \in Nat
           /\ cache' \in [Models -> Providers \cup {NoProvider}]
           /\ calls' \in 0..MaxCalls
           /\ phase' \in {phase, "raised"}
           /\ UNCHANGED <<mode, fallback, provider, completeness, faults>>
<1>1. /\ Len(keys) \in Nat /\ Len(children) \in Nat /\ invocations \in Nat
      /\ Len(children) <= invocations
  BY DEF IInv, TypeOK, Counted
<1>2. invocations' = invocations + Len(keys) /\ invocations' <= MaxInvocations
  BY DEF Dispatch, CapsAllow
<1>3. calls' \in 0..MaxCalls /\ UNCHANGED <<mode, fallback, provider, completeness, faults>>
  BY StrategyAssumption DEF Dispatch, poolVars, IInv, TypeOK
<1>4. CASE role \in Seeded
  <2>1. StartChildren(role, keys)
    BY <1>4 DEF Dispatch
  <2>2. /\ children' \in Seq(Child)
        /\ Len(children') = Len(children) + Len(keys)
        /\ cache' \in [Models -> Providers \cup {NoProvider}]
    BY <2>1, <1>4, Started DEF IInv
  <2>3. phase' = phase
    BY <2>1 DEF StartChildren
  <2> QED BY <1>1, <1>2, <1>3, <2>2, <2>3, StrategyAssumption DEF Counted
<1>5. CASE role \notin Seeded
  BY <1>1, <1>2, <1>3, <1>5, StrategyAssumption DEF Dispatch, Counted, IInv, TypeOK
<1> QED BY <1>4, <1>5

(* A tool call keeps the invariant, whichever log it writes.               *)
LEMMA CallStep ==
    ASSUME IInv, NEW role \in Roles, NEW keys \in Seq(Keys),
           Supervising, CapsAllow(Len(keys)), Dispatch(role, keys),
           singleLog' \subseteq Keys, batchLog' \subseteq Keys, Logged \subseteq Logged'
    PROVE  IInv'
<1>1. /\ Counted'
      /\ children' \in Seq(Child) /\ invocations' \in Nat
      /\ cache' \in [Models -> Providers \cup {NoProvider}]
      /\ calls' \in 0..MaxCalls
      /\ phase' \in {phase, "raised"}
      /\ UNCHANGED <<mode, fallback, provider, completeness, faults>>
  BY DispatchStep
<1>2. TypeOK'
  BY <1>1 DEF IInv, TypeOK
<1>3. \A x \in Inputs : fallback[x] = "none"
  BY DEF IInv, FallbackLast, Supervising
<1>4. FallbackLast' /\ SkippedUnknown' /\ NoDoubleDispatch'
  BY <1>1, <1>3 DEF IInv, FallbackLast, SkippedUnknown, NoDoubleDispatch, Supervising
<1>5. RepromptIsHonest'
  <2>1. CountIsBounded /\ CountIsBounded'
    BY DispatchedType, PTL
  <2>2. Dispatched \in Nat /\ Dispatched' \in Nat /\ Dispatched <= Dispatched'
    BY <2>1, DispatchedGrows DEF CountIsBounded
  <2> QED BY <1>1, <2>1, <2>2, StrategyAssumption DEF IInv, TypeOK, RepromptIsHonest, CountIsBounded
<1>6. NothingLeftOut'
  BY <1>1 DEF NothingLeftOut, Supervising
<1> QED BY <1>1, <1>2, <1>4, <1>5, <1>6 DEF IInv

(* A step that leaves the logs alone leaves the validator's view alone.    *)
LEMMA LogsKept ==
    ASSUME singleLog' = singleLog, batchLog' = batchLog
    PROVE  Logged' = Logged /\ Missing' = Missing /\ Dispatched' = Dispatched
BY DEF Logged, Missing, Dispatched

(* A worker's step changes its own input's entry, to another working one.  *)
LEMMA WorkerKeeps ==
    ASSUME IInv, NEW x \in Inputs, NEW pc \in FallbackPc \ {"none"},
           fallback[x] \in {"missing", "creating", "created", "running"},
           fallback' = [fallback EXCEPT ![x] = pc],
           pc = "skipped" => Specialist[x] = Unknown,
           pc \in {"creating", "created"} => Specialist[x] # Unknown,
           provider' \in [Inputs -> Providers \cup {NoProvider}],
           cache' \in [Models -> Providers \cup {NoProvider}],
           faults' \in 0..MaxFaults,
           UNCHANGED <<mode, phase, depsVars, completeness, calls>>
    PROVE  IInv'
<1>1. UNCHANGED <<mode, phase, invocations, singleLog, batchLog, children, completeness, calls>>
  BY DEF depsVars
<1>2. Logged' = Logged /\ Missing' = Missing /\ Dispatched' = Dispatched
  BY <1>1, LogsKept
<1>3. fallback \in [Inputs -> FallbackPc]
  BY DEF IInv, TypeOK
<1>4. TypeOK'
  BY <1>1, <1>3 DEF IInv, TypeOK
<1>5. Counted' /\ RepromptIsHonest'
  BY <1>1, <1>2 DEF IInv, Counted, RepromptIsHonest
<1>6. mode = "programmatic" /\ x \notin Logged /\ fallback[x] # "none"
  BY DEF IInv, FallbackLast, NoDoubleDispatch, Logged
<1>7. phase # "done"
  BY <1>6 DEF IInv, NothingLeftOut
<1>8. FallbackLast' /\ SkippedUnknown' /\ NoDoubleDispatch'
  BY <1>1, <1>2, <1>3, <1>6 DEF IInv, FallbackLast, SkippedUnknown, NoDoubleDispatch
<1>9. NothingLeftOut'
  BY <1>1, <1>7 DEF NothingLeftOut
<1> QED BY <1>4, <1>5, <1>8, <1>9 DEF IInv

(* The steps that leave the validator's inputs and the pool as they were.  *)
LEMMA QuietStep ==
    ASSUME IInv, TypeOK', Counted', Supervising,
           UNCHANGED <<mode, singleLog, batchLog, fallback, completeness>>,
           phase' \in {phase, "raised"} \/ (phase = "reprompt" /\ phase' = "done")
    PROVE  IInv'
<1>1. Logged' = Logged /\ Dispatched' = Dispatched
  BY LogsKept
<1>2. (\A x \in Inputs : fallback[x] = "none") /\ (phase = "reprompt" => mode = "reprompt")
  BY DEF IInv, FallbackLast, Supervising
<1>3. FallbackLast' /\ SkippedUnknown' /\ NoDoubleDispatch'
  BY <1>1, <1>2 DEF FallbackLast, SkippedUnknown, NoDoubleDispatch, Supervising
<1>4. RepromptIsHonest' /\ NothingLeftOut'
  BY <1>1, <1>2 DEF IInv, RepromptIsHonest, NothingLeftOut, Supervising
<1> QED BY <1>3, <1>4 DEF IInv

LEMMA AnswerStep == IInv /\ Answer => IInv'
<1> SUFFICES ASSUME IInv, Answer PROVE IInv'
  OBVIOUS
<1>1. /\ phase = "supervise"
      /\ UNCHANGED <<mode, invocations, singleLog, batchLog, children, provider, cache,
                     calls, faults>>
      /\ completeness' = IF Validating THEN Dispatched ELSE Unmeasured
  BY DEF Answer, depsVars
<1>2. /\ phase' \in {"done", "reprompt", "fallback"}
      /\ phase' = "reprompt" => mode = "reprompt"
      /\ phase' = "fallback" => mode = "programmatic"
      /\ phase' = "done" => ~Validating \/ Missing = {}
      /\ phase' # "fallback" => fallback' = fallback
      /\ phase' = "fallback" =>
            fallback' = [x \in Inputs |-> IF x \in Missing THEN "missing" ELSE "none"]
  BY DEF Answer
<1>3. \A x \in Inputs : fallback[x] = "none"
  BY <1>1 DEF IInv, FallbackLast
<1>4. Logged' = Logged /\ Dispatched' = Dispatched
  BY <1>1, LogsKept
<1>5. Dispatched \in 0..Cardinality(Inputs)
  BY DispatchedType DEF CountIsBounded
<1>6. TypeOK'
  BY <1>1, <1>2, <1>5 DEF IInv, TypeOK, FallbackPc
<1>7. Counted'
  BY <1>1 DEF IInv, Counted
<1>8. \A x \in Inputs : fallback'[x] # "none" =>
         x \in Missing /\ phase' = "fallback" /\ fallback'[x] = "missing"
  BY <1>2, <1>3
<1>9. FallbackLast'
  BY <1>1, <1>2, <1>4, <1>8 DEF FallbackLast, Missing
<1>10. SkippedUnknown' /\ NoDoubleDispatch'
  BY <1>1, <1>8 DEF SkippedUnknown, NoDoubleDispatch, Missing, Logged
<1>11. RepromptIsHonest'
  BY <1>1, <1>4, <1>5, StrategyAssumption DEF RepromptIsHonest
<1>12. NothingLeftOut'
  BY <1>1, <1>2, <1>4 DEF NothingLeftOut, Validating, Missing
<1> QED BY <1>6, <1>7, <1>9, <1>10, <1>11, <1>12 DEF IInv

LEMMA AnswerAgainStep == IInv /\ AnswerAgain => IInv'
<1> SUFFICES ASSUME IInv, AnswerAgain PROVE IInv'
  OBVIOUS
<1>1. /\ phase = "reprompt" /\ phase' = "done" /\ completeness' = Dispatched
      /\ UNCHANGED <<mode, invocations, singleLog, batchLog, children, fallback, provider,
                     cache, calls, faults>>
  BY DEF AnswerAgain, depsVars, poolVars
<1>2. mode = "reprompt" /\ \A x \in Inputs : fallback[x] = "none"
  BY <1>1 DEF IInv, FallbackLast
<1>3. Logged' = Logged /\ Dispatched' = Dispatched
  BY <1>1, LogsKept
<1>4. Dispatched \in 0..Cardinality(Inputs)
  BY DispatchedType DEF CountIsBounded
<1>5. TypeOK' /\ Counted'
  BY <1>1, <1>4 DEF IInv, TypeOK, Counted
<1>6. FallbackLast' /\ SkippedUnknown' /\ NoDoubleDispatch'
  BY <1>1, <1>2 DEF FallbackLast, SkippedUnknown, NoDoubleDispatch
<1>7. RepromptIsHonest' /\ NothingLeftOut'
  BY <1>1, <1>2, <1>3, <1>4 DEF RepromptIsHonest, NothingLeftOut
<1> QED BY <1>5, <1>6, <1>7 DEF IInv

LEMMA FallbackDoneStep == IInv /\ FallbackDone => IInv'
<1> SUFFICES ASSUME IInv, FallbackDone PROVE IInv'
  OBVIOUS
<1>1. /\ phase = "fallback" /\ phase' = "done" /\ PoolDrained
      /\ completeness' = Cardinality(Inputs)
      /\ UNCHANGED <<mode, invocations, singleLog, batchLog, children, fallback, provider,
                     cache, calls, faults>>
  BY DEF FallbackDone, depsVars, poolVars
<1>2. mode = "programmatic" /\ \A x \in Inputs : x \in Logged \/ fallback[x] # "none"
  BY <1>1 DEF IInv, FallbackLast
<1>3. Logged' = Logged /\ Dispatched' = Dispatched
  BY <1>1, LogsKept
<1>4. Cardinality(Inputs) \in 0..Cardinality(Inputs)
  BY DispatchedType DEF CountIsBounded
<1>5. TypeOK' /\ Counted'
  BY <1>1, <1>4 DEF IInv, TypeOK, Counted
<1>6. FallbackLast' /\ SkippedUnknown' /\ NoDoubleDispatch' /\ RepromptIsHonest'
  BY <1>1, <1>2, <1>3
  DEF IInv, FallbackLast, SkippedUnknown, NoDoubleDispatch, RepromptIsHonest
<1>7. NothingLeftOut'
  BY <1>1, <1>2, <1>3 DEF IInv, NothingLeftOut, PoolDrained, SkippedUnknown
<1> QED BY <1>5, <1>6, <1>7 DEF IInv

-----------------------------------------------------------------------------
LEMMA IInvStep == IInv /\ [Next]_vars => IInv'
<1> SUFFICES ASSUME IInv, [Next]_vars PROVE IInv'
  OBVIOUS
<1> USE DEF IInv
<1>1. CASE RefusedCall
  <2>1. Supervising /\ TypeOK' /\ Counted' /\ phase' = phase
        /\ UNCHANGED <<mode, singleLog, batchLog, fallback, completeness>>
    BY <1>1, StrategyAssumption DEF RefusedCall, TypeOK, Counted, depsVars, poolVars
  <2> QED BY <2>1, QuietStep
<1>2. ASSUME NEW role \in Roles, NEW key \in Keys, InvokeSubagent(role, key) PROVE IInv'
  <2>1. <<key>> \in Seq(Keys) /\ Len(<<key>>) = 1
    OBVIOUS
  <2>2. Supervising /\ CapsAllow(Len(<<key>>)) /\ Dispatch(role, <<key>>)
    BY <1>2, <2>1 DEF InvokeSubagent
  <2>3. singleLog' \subseteq Keys /\ batchLog' \subseteq Keys /\ Logged \subseteq Logged'
    BY <1>2 DEF InvokeSubagent, TypeOK, Logged
  <2> QED BY <2>1, <2>2, <2>3, CallStep
<1>3. ASSUME NEW role \in Roles, NEW keys \in Batches, InvokeSubagentBatch(role, keys)
      PROVE  IInv'
  <2>1. keys \in Seq(Keys) /\ Len(keys) \in 0..MaxBatch /\ keys \in [1..Len(keys) -> Keys]
    BY BatchIsSeq
  <2>2. Supervising /\ CapsAllow(Len(keys)) /\ Dispatch(role, keys)
    BY <1>3 DEF InvokeSubagentBatch
  <2>3. singleLog' \subseteq Keys /\ batchLog' \subseteq Keys /\ Logged \subseteq Logged'
    BY <1>3, <2>1 DEF InvokeSubagentBatch, TypeOK, Logged
  <2> QED BY <2>1, <2>2, <2>3, CallStep
<1>4. CASE RunSyncRaises
  <2>1. /\ Supervising /\ TypeOK' /\ Counted'
        /\ UNCHANGED <<mode, singleLog, batchLog, fallback, completeness>>
        /\ phase' = "raised" \/ (phase = "reprompt" /\ phase' = "done")
    BY <1>4, StrategyAssumption DEF RunSyncRaises, Fault, TypeOK, Counted, depsVars, poolVars
  <2> QED BY <2>1, QuietStep
<1>5. CASE Answer
  BY <1>5, AnswerStep
<1>6. CASE AnswerAgain
  BY <1>6, AnswerAgainStep
<1>7. ASSUME NEW i \in 1..Len(children), ChildEnds(i) PROVE IInv'
  <2>1. children' \in Seq(Child) /\ Len(children') = Len(children)
    <3>1. children \in Seq(Child) /\ children[i] \in Child
      BY ElementOfSeq DEF TypeOK
    <3> DEFINE child == [children[i] EXCEPT !.pc = "ended"]
    <3>2. child \in Child
      BY <3>1 DEF Child
    <3>3. children' = [children EXCEPT ![i] = child]
      BY <1>7 DEF ChildEnds
    <3> HIDE DEF child
    <3> QED BY <3>1, <3>2, <3>3, ExceptSeq
  <2>2. /\ Supervising /\ phase' = phase
        /\ UNCHANGED <<mode, invocations, singleLog, batchLog, fallback, provider, cache,
                       completeness, calls, faults>>
    BY <1>7 DEF ChildEnds, poolVars
  <2>3. TypeOK' /\ Counted'
    BY <2>1, <2>2 DEF TypeOK, Counted
  <2> QED BY <2>2, <2>3, QuietStep
<1>8. ASSUME NEW x \in Inputs, WorkerStep(x) PROVE IInv'
  <2>1. /\ CacheOf(x) # NoProvider \/ CacheOf(x) = NoProvider
        /\ Specialist[x] # Unknown => CacheOf(x) \in Providers \cup {NoProvider}
        /\ fallback \in [Inputs -> FallbackPc]
        /\ provider \in [Inputs -> Providers \cup {NoProvider}]
        /\ cache \in [Models -> Providers \cup {NoProvider}]
        /\ faults \in 0..MaxFaults
    BY StrategyAssumption DEF TypeOK, CacheOf
  <2>2. fallback[x] \in {"creating", "created"} => Specialist[x] # Unknown
    BY DEF SkippedUnknown
  <2>3. CASE WorkerTakes(x)
    <3>1. PICK pc \in {"skipped", "creating", "running"} :
             /\ fallback' = [fallback EXCEPT ![x] = pc]
             /\ pc = "skipped" => Specialist[x] = Unknown
             /\ pc = "creating" => Specialist[x] # Unknown
             /\ provider' \in [Inputs -> Providers \cup {NoProvider}]
      BY <2>1, <2>3 DEF WorkerTakes
    <3>2. /\ fallback[x] = "missing"
          /\ UNCHANGED <<mode, phase, depsVars, completeness, calls, cache, faults>>
      BY <2>3 DEF WorkerTakes
    <3> QED BY <2>1, <3>1, <3>2, WorkerKeeps DEF FallbackPc
  <2>4. CASE StoreProvider(x)
    <3>1. cache' \in [Models -> Providers \cup {NoProvider}]
      BY <2>1, <2>4 DEF StoreProvider, Providers
    <3> QED BY <2>1, <2>2, <2>4, <3>1, WorkerKeeps DEF StoreProvider, FallbackPc
  <2>5. CASE ReadProvider(x)
    <3>1. provider' \in [Inputs -> Providers \cup {NoProvider}]
      BY <2>1, <2>2, <2>5 DEF ReadProvider
    <3> QED BY <2>1, <2>5, <3>1, WorkerKeeps DEF ReadProvider, FallbackPc
  <2>6. CASE WorkerEnds(x)
    BY <2>1, <2>6, WorkerKeeps DEF WorkerEnds, FallbackPc
  <2>7. CASE WorkerRaises(x)
    <3>1. faults' \in 0..MaxFaults
      BY <2>1, <2>7, StrategyAssumption DEF WorkerRaises, Fault
    <3> QED BY <2>1, <2>7, <3>1, WorkerKeeps DEF WorkerRaises, FallbackPc
  <2> QED BY <1>8, <2>3, <2>4, <2>5, <2>6, <2>7 DEF WorkerStep
<1>9. CASE FallbackDone
  BY <1>9, FallbackDoneStep
<1>10. CASE UNCHANGED vars
  <2>1. UNCHANGED <<mode, phase, invocations, singleLog, batchLog, children, fallback, provider,
                    cache, completeness, calls, faults>>
    BY <1>10 DEF vars, depsVars, poolVars
  <2>2. Logged' = Logged /\ Dispatched' = Dispatched
    BY <2>1, LogsKept
  <2> QED BY <2>1, <2>2 DEF TypeOK, Counted, FallbackLast, SkippedUnknown, NoDoubleDispatch,
                            RepromptIsHonest, NothingLeftOut
<1> QED
  BY <1>1, <1>2, <1>3, <1>4, <1>5, <1>6, <1>7, <1>8, <1>9, <1>10
  DEF Next, SupervisorStep, ChildStep

LEMMA Invariance == Spec => []IInv
<1>1. Init => IInv
  BY InitHolds
<1>2. IInv /\ [Next]_vars => IInv'
  BY IInvStep
<1> QED BY <1>1, <1>2, PTL DEF Spec

-----------------------------------------------------------------------------
(* The supervisor's providers stay in the cache: while it is at work it is *)
(* the only one to store any, and the pool makes one only for a model that *)
(* had none when the pool started.                                         *)
SpendInv ==
    /\ SupervisorSpendKept
    /\ Supervising => \A m \in Models : cache[m] \in {NoProvider, Supervisor}
    /\ \A x \in Inputs : fallback[x] = "creating" => CacheOf(x) # Supervisor

LEMMA ChildModels ==
    ASSUME TypeOK
    PROVE  \A i \in 1..Len(children) : children[i] \in Child /\ ModelOf[children[i].role] \in Models
<1> SUFFICES ASSUME NEW i \in 1..Len(children)
             PROVE  children[i] \in Child /\ ModelOf[children[i].role] \in Models
  OBVIOUS
<1>1. children[i] \in Child
  BY ElementOfSeq DEF TypeOK
<1>2. children[i].role \in Roles
  BY <1>1 DEF Child
<1> QED BY <1>1, <1>2, StrategyAssumption

LEMMA DispatchSpend ==
    ASSUME IInv, SpendInv, NEW role \in Roles, NEW keys \in Seq(Keys),
           Supervising, Dispatch(role, keys)
    PROVE  SpendInv'
<1>1. \A x \in Inputs : fallback'[x] = "none"
  BY DEF IInv, FallbackLast, Supervising, Dispatch, poolVars
<1>2. CASE role \notin Seeded
  BY <1>1, <1>2 DEF SpendInv, Dispatch, SupervisorSpendKept, Supervising
<1>3. CASE role \in Seeded
  <2> DEFINE new == [i \in 1..Len(keys) |-> [role |-> role, key |-> keys[i], pc |-> "running"]]
  <2>1. StartChildren(role, keys) /\ ModelOf[role] \in Models
    BY <1>3, StrategyAssumption DEF Dispatch
  <2>2. Len(keys) \in Nat /\ children \in Seq(Child) /\ Len(children) \in Nat
    BY DEF IInv, TypeOK
  <2>3. \A i \in 1..Len(keys) : keys[i] \in Keys
    BY ElementOfSeq
  <2>4. new \in [1..Len(keys) -> Child]
    BY <2>3 DEF Child
  <2>5. new \in Seq(Child) /\ Len(new) = Len(keys)
    BY <2>2, <2>4, IsASeq, LenProperties
  <2>6. /\ Len(children') = Len(children) + Len(keys)
        /\ \A i \in 1..Len(children') :
              children'[i] = IF i <= Len(children) THEN children[i] ELSE new[i - Len(children)]
    <3>1. children' = children \o new
      BY <2>1 DEF StartChildren
    <3> HIDE DEF new
    <3>2. /\ Len(children \o new) = Len(children) + Len(new)
          /\ \A i \in 1..(Len(children) + Len(new)) :
                (children \o new)[i] = IF i <= Len(children) THEN children[i]
                                       ELSE new[i - Len(children)]
      BY <2>2, <2>5, ConcatProperties
    <3> QED BY <2>5, <3>1, <3>2
  <2>7. /\ \A m \in Models : cache[m] = Supervisor => cache'[m] = Supervisor
        /\ \A m \in Models : cache'[m] \in {NoProvider, Supervisor}
        /\ keys # << >> => cache'[ModelOf[role]] = Supervisor
    BY <2>1 DEF StartChildren, SpendInv, IInv, TypeOK
  <2>8. \A i \in 1..Len(children) : ModelOf[children[i].role] \in Models
    BY ChildModels DEF IInv
  <2>9. ASSUME NEW i \in 1..Len(children') PROVE cache'[ModelOf[children'[i].role]] = Supervisor
    <3>1. CASE i <= Len(children)
      <4>1. i \in 1..Len(children)
        <5> HIDE DEF new
        <5> QED BY <2>2, <2>6, <2>9, <3>1
      <4>2. children'[i] = children[i]
        BY <2>2, <2>6, <2>9, <3>1, <4>1
      <4> QED BY <2>7, <2>8, <4>1, <4>2 DEF SpendInv, SupervisorSpendKept
    <3>2. CASE i > Len(children)
      <4>1. i - Len(children) \in 1..Len(keys)
        <5> HIDE DEF new
        <5> QED BY <2>2, <2>6, <2>9, <3>2
      <4>2. children'[i].role = role
        <5>1. children'[i] = new[i - Len(children)]
          <6> HIDE DEF new
          <6> QED BY <2>2, <2>6, <2>9, <3>2
        <5> QED BY <4>1, <5>1
      <4>3. keys # << >>
        BY <4>1
      <4> QED BY <2>7, <4>2, <4>3
    <3> QED BY <2>2, <2>6, <3>1, <3>2
  <2> QED BY <1>1, <2>7, <2>9 DEF SpendInv, SupervisorSpendKept
<1> QED BY <1>2, <1>3

LEMMA SpendStep == IInv /\ SpendInv /\ [Next]_vars => SpendInv'
<1> SUFFICES ASSUME IInv, SpendInv, [Next]_vars PROVE SpendInv'
  OBVIOUS
<1>1. ASSUME NEW role \in Roles, NEW key \in Keys, InvokeSubagent(role, key) PROVE SpendInv'
  <2>1. <<key>> \in Seq(Keys)
    OBVIOUS
  <2> QED BY <1>1, <2>1, DispatchSpend DEF InvokeSubagent
<1>2. ASSUME NEW role \in Roles, NEW keys \in Batches, InvokeSubagentBatch(role, keys)
      PROVE  SpendInv'
  BY <1>2, BatchIsSeq, DispatchSpend DEF InvokeSubagentBatch
<1>3. CASE Answer
  BY <1>3 DEF Answer, SpendInv, SupervisorSpendKept, Supervising, CacheOf, depsVars, IInv, TypeOK
<1>4. CASE RefusedCall \/ AnswerAgain \/ RunSyncRaises \/ FallbackDone \/ UNCHANGED vars
  <2>1. UNCHANGED <<children, fallback, cache>> /\ (Supervising' => Supervising)
    BY <1>4 DEF RefusedCall, AnswerAgain, RunSyncRaises, FallbackDone, vars, depsVars, poolVars,
                Supervising
  <2> QED BY <2>1 DEF SpendInv, SupervisorSpendKept, CacheOf
<1>5. ASSUME NEW i \in 1..Len(children), ChildEnds(i) PROVE SpendInv'
  <2>1. /\ UNCHANGED <<phase, fallback, cache>>
        /\ children' = [children EXCEPT ![i].pc = "ended"]
    BY <1>5 DEF ChildEnds, poolVars
  <2>2. /\ children \in Seq(Child) /\ Len(children') = Len(children)
        /\ \A j \in 1..Len(children) : children[j] \in Child
    BY <2>1, ElementOfSeq DEF IInv, TypeOK
  <2>3. \A j \in 1..Len(children) : children'[j].role = children[j].role
    BY <2>1, <2>2 DEF Child
  <2> QED BY <2>1, <2>2, <2>3 DEF SpendInv, SupervisorSpendKept, Supervising, CacheOf
<1>6. ASSUME NEW x \in Inputs, WorkerStep(x) PROVE SpendInv'
  <2>1. UNCHANGED <<phase, children>> /\ fallback \in [Inputs -> FallbackPc]
    BY <1>6 DEF WorkerStep, WorkerTakes, StoreProvider, ReadProvider, WorkerEnds, WorkerRaises,
                depsVars, IInv, TypeOK
  <2>2. CASE StoreProvider(x)
    <3>1. /\ ~Supervising /\ fallback[x] = "creating" /\ Specialist[x] # Unknown
          /\ CacheOf(x) # Supervisor
      BY <2>2 DEF StoreProvider, IInv, FallbackLast, SkippedUnknown, SpendInv, Supervising
    <3> DEFINE mine == ModelOf[Specialist[x]]
    <3>2. mine \in Models /\ cache' = [cache EXCEPT ![mine] = x]
      BY <2>2, <3>1, StrategyAssumption DEF StoreProvider
    <3>3. fallback' = [fallback EXCEPT ![x] = "created"] /\ x # Supervisor
      BY <2>2, StrategyAssumption DEF StoreProvider
    <3>4. cache[mine] # Supervisor
      BY <3>1 DEF CacheOf
    <3> HIDE DEF mine
    <3>5. \A m \in Models : /\ cache[m] = Supervisor => cache'[m] = Supervisor
                            /\ cache[m] # Supervisor => cache'[m] # Supervisor
      BY <3>2, <3>3, <3>4 DEF IInv, TypeOK
    <3>6. \A i \in 1..Len(children) : ModelOf[children[i].role] \in Models
      BY ChildModels DEF IInv
    <3>7. SupervisorSpendKept'
      BY <2>1, <3>5, <3>6 DEF SpendInv, SupervisorSpendKept
    <3>8. \A y \in Inputs : fallback'[y] = "creating" => CacheOf(y)' # Supervisor
      <4>1. ASSUME NEW y \in Inputs, fallback'[y] = "creating" PROVE CacheOf(y)' # Supervisor
        <5>1. fallback[y] = "creating"
          BY <2>1, <3>3, <4>1
        <5>2. ModelOf[Specialist[y]] \in Models /\ cache[ModelOf[Specialist[y]]] # Supervisor
          BY <5>1, StrategyAssumption DEF IInv, SkippedUnknown, SpendInv, CacheOf
        <5> QED BY <3>5, <5>2 DEF CacheOf
      <4> QED BY <4>1
    <3> QED BY <2>1, <3>1, <3>7, <3>8 DEF SpendInv, Supervising
  <2>3. CASE WorkerTakes(x) \/ ReadProvider(x) \/ WorkerEnds(x) \/ WorkerRaises(x)
    <3>1. cache' = cache /\ \A y \in Inputs : fallback'[y] = "creating" => CacheOf(y) # Supervisor
      BY <2>1, <2>3, StrategyAssumption
      DEF WorkerTakes, ReadProvider, WorkerEnds, WorkerRaises, SpendInv, Providers
    <3> QED BY <2>1, <3>1 DEF SpendInv, SupervisorSpendKept, Supervising, CacheOf
  <2> QED BY <1>6, <2>2, <2>3 DEF WorkerStep
<1> QED
  BY <1>1, <1>2, <1>3, <1>4, <1>5, <1>6 DEF Next, SupervisorStep, ChildStep

-----------------------------------------------------------------------------
(* The state of run_strategy is always well formed; dispatch_completeness  *)
(* is None or a share of the inputs.                                       *)
THEOREM TypeCorrect == Spec => []TypeOK
<1>1. IInv => TypeOK
  BY DEF IInv
<1> QED BY <1>1, Invariance, PTL

(* However many tool calls of one response run at once, _check_caps and    *)
(* the count before the first await keep the children within the cap.      *)
THEOREM WithinCap == Spec => []SupervisorWithinCap
<1>1. IInv => SupervisorWithinCap
  BY StrategyAssumption DEF IInv, TypeOK, Counted, SupervisorWithinCap
<1> QED BY <1>1, Invariance, PTL

(* _programmatic_fallback never starts a specialist for an input that is   *)
(* in either of the supervisor's logs.                                     *)
THEOREM FallbackIsDisjoint == Spec => []NoDoubleDispatch
<1>1. IInv => NoDoubleDispatch
  BY DEF IInv
<1> QED BY <1>1, Invariance, PTL

(* Through both passes and a failed second one, the reported completeness  *)
(* of a re-prompted strategy is at most what its logs hold.                *)
THEOREM RepromptHonest == Spec => []RepromptIsHonest
<1>1. IInv => RepromptIsHonest
  BY DEF IInv
<1> QED BY <1>1, Invariance, PTL

(* When a programmatic strategy returns, every input was called for, run   *)
(* by the fallback to its end, or has no specialist.                       *)
THEOREM NothingIsLeftOut == Spec => []NothingLeftOut
<1>1. IInv => NothingLeftOut
  BY DEF IInv
<1> QED BY <1>1, Invariance, PTL

(* Whatever the pool's threads replace in the provider cache, the provider *)
(* that children of the supervisor spent on stays where run_strategy       *)
(* collects it.                                                            *)
THEOREM SpendIsKept == Spec => []SupervisorSpendKept
<1>1. Init => SpendInv
  BY EmptySeq DEF Init, SpendInv, SupervisorSpendKept, CacheOf
<1>2. IInv /\ SpendInv /\ [Next]_vars => SpendInv'
  BY SpendStep
<1>3. SpendInv => SupervisorSpendKept
  BY DEF SpendInv
<1> QED BY <1>1, <1>2, <1>3, Invariance, PTL DEF Spec
=============================================================================
