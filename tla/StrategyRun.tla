----------------------------- MODULE StrategyRun -----------------------------
(***************************************************************************)
(* One call of run_strategy (strategies/runner.py) for a strategy with     *)
(* subagents (agent/subagent.py).  A supervisor model dispatches children  *)
(* through invoke_subagent and invoke_subagent_batch under the caps of     *)
(* SubagentDeps; when it answers, the dispatch validator compares the call *)
(* logs with the inputs it should have dispatched, and the fallback asks   *)
(* it once more or runs the missing specialists itself, in a thread pool.  *)
(*                                                                         *)
(* The tools run on one event loop and the tool calls of one response run  *)
(* concurrently: a step is what a tool does up to the await of its         *)
(* children.  Children get no dispatch tools, so they dispatch nobody.     *)
(***************************************************************************)
EXTENDS Naturals, Sequences, FiniteSets

CONSTANTS
    Inputs,         \* effective_dispatch: the inputs to be dispatched, by match key
    NoKey,          \* an input without the match key
    Roles,          \* available_roles
    Seeded,         \* roles with an entry in subagent_strategies
    Unknown,        \* a role name that resolves to nothing, or a bare suffix that several
                    \* roles share: resolve_role raises ModelRetry for it
    Specialist,     \* the role "<input>_specialist" resolves to, or Unknown
    Models,         \* model ids
    ModelOf,        \* the model id of each role
    Supervisor,     \* marks a provider created for a child of the supervisor
    NoProvider,
    Unmeasured,     \* dispatch_completeness is None
    Modes,          \* dispatch_fallback settings considered
    MaxDepth,       \* max_subagent_depth
    MaxInvocations, \* max_subagent_invocations
    MaxBatch,       \* max_subagent_batch_size
    PoolSize,       \* max_workers of the fallback's pool, 4 in the code
    MaxCalls,       \* bound on the supervisor's tool calls
    MaxFaults       \* bound on children and supervisors that raise

Keys == Inputs \cup {NoKey}
Providers == Inputs \cup {Supervisor}

ASSUME StrategyAssumption ==
    /\ IsFiniteSet(Inputs) /\ NoKey \notin Inputs /\ Supervisor \notin Inputs
    /\ NoProvider \notin Providers
    /\ Unmeasured \notin Nat
    /\ Unknown \notin Roles
    /\ Seeded \subseteq Roles
    /\ Specialist \in [Inputs -> Seeded \cup {Unknown}]
    /\ ModelOf \in [Roles -> Models]
    /\ Modes \subseteq {"reprompt", "programmatic", "none"}
    /\ MaxDepth \in Nat /\ MaxInvocations \in Nat /\ MaxBatch \in Nat
    /\ PoolSize \in Nat \ {0} /\ MaxCalls \in Nat /\ MaxFaults \in Nat

VARIABLES
    mode,           \* the strategy's dispatch_fallback
    phase,          \* where run_strategy is
    invocations,    \* SubagentDeps.invocations
    singleLog,      \* keys in single_call_log
    batchLog,       \* keys in batch_call_log
    children,       \* children the supervisor started, in order
    fallback,       \* the fallback's work on each input
    provider,       \* the provider each fallback child works with
    cache,          \* ModelProviderCache, per model
    completeness,   \* dispatch_completeness times the number of inputs
    calls, faults   \* bounds

depsVars == <<invocations, singleLog, batchLog, children>>
poolVars == <<fallback, provider>>
vars == <<mode, phase, depsVars, poolVars, cache, completeness, calls, faults>>

Child == [role: Roles, key: Keys, pc: {"running", "ended"}]
FallbackPc == {"none", "missing", "creating", "created", "running",
               "ended", "raised", "skipped"}

TypeOK ==
    /\ mode \in Modes
    /\ phase \in {"supervise", "reprompt", "fallback", "done", "raised"}
    /\ invocations \in Nat
    /\ singleLog \subseteq Keys /\ batchLog \subseteq Keys
    /\ children \in Seq(Child)
    /\ fallback \in [Inputs -> FallbackPc]
    /\ provider \in [Inputs -> Providers \cup {NoProvider}]
    /\ cache \in [Models -> Providers \cup {NoProvider}]
    /\ completeness \in {Unmeasured} \cup 0..Cardinality(Inputs)
    /\ calls \in 0..MaxCalls
    /\ faults \in 0..MaxFaults

Init ==
    /\ mode \in Modes
    /\ phase = "supervise"
    /\ invocations = 0
    /\ singleLog = {} /\ batchLog = {}
    /\ children = << >>
    /\ fallback = [x \in Inputs |-> "none"]
    /\ provider = [x \in Inputs |-> NoProvider]
    /\ cache = [m \in Models |-> NoProvider]
    /\ completeness = Unmeasured
    /\ calls = 0 /\ faults = 0

Fault == faults < MaxFaults /\ faults' = faults + 1

-----------------------------------------------------------------------------
(* The supervisor and its tools *)

(* agent.run_sync is under way, for the first time or for the re-prompt.   *)
Supervising == phase \in {"supervise", "reprompt"}

(* Mutant: the cap is looked at before the count is added.                 *)
CapsAllowOneMore(count) == 0 < MaxDepth /\ invocations < MaxInvocations

(* _check_caps; the supervisor is at depth 0.                              *)
CapsAllow(count) == 0 < MaxDepth /\ invocations + count <= MaxInvocations

Running == {i \in 1..Len(children) : children[i].pc = "running"}

(* A call that a tool turns down with ModelRetry, before anything changed. *)
RefusedCall ==
    /\ Supervising
    /\ calls < MaxCalls
    /\ \E role \in Roles \cup {Unknown}, count \in 0..MaxBatch + 1 :
          role = Unknown \/ count > MaxBatch \/ ~CapsAllow(count)
    /\ calls' = calls + 1
    /\ UNCHANGED <<mode, phase, depsVars, poolVars, cache, completeness, faults>>

(* _run_child of children on the event loop: each gets the cached provider *)
(* of its model, which the first of them creates.                          *)
StartChildren(role, keys) ==
    /\ children' = children \o
          [i \in 1..Len(keys) |-> [role |-> role, key |-> keys[i], pc |-> "running"]]
    /\ cache' = IF keys # << >> /\ cache[ModelOf[role]] = NoProvider
                THEN [cache EXCEPT ![ModelOf[role]] = Supervisor]
                ELSE cache
    /\ UNCHANGED phase

(* A role without a strategy was counted and logged by the time the lookup *)
(* raises KeyError, which ends run_strategy.                               *)
Dispatch(role, keys) ==
    /\ calls < MaxCalls
    /\ calls' = calls + 1
    /\ invocations' = invocations + Len(keys)
    /\ IF role \in Seeded
       THEN StartChildren(role, keys)
       ELSE phase' = "raised" /\ UNCHANGED <<children, cache>>
    /\ UNCHANGED <<mode, poolVars, completeness, faults>>

InvokeSubagent(role, key) ==
    /\ Supervising
    /\ CapsAllow(1)
    /\ singleLog' = singleLog \cup {key}
    /\ Dispatch(role, <<key>>)
    /\ UNCHANGED batchLog

InvokeSubagentBatch(role, keys) ==
    /\ Supervising
    /\ Len(keys) <= MaxBatch
    /\ CapsAllow(Len(keys))
    /\ batchLog' = batchLog \cup {keys[i] : i \in 1..Len(keys)}
    /\ Dispatch(role, keys)
    /\ UNCHANGED singleLog

ChildEnds(i) ==
    /\ Supervising
    /\ children[i].pc = "running"
    /\ children' = [children EXCEPT ![i].pc = "ended"]
    /\ UNCHANGED <<mode, phase, invocations, singleLog, batchLog, poolVars, cache,
                   completeness, calls, faults>>

(* A child's exception, or one of the supervisor's own, leaves run_sync.   *)
(* Of the re-prompt, UnexpectedModelBehavior is caught and the first       *)
(* result stands.                                                          *)
RunSyncRaises ==
    /\ Supervising
    /\ Fault
    /\ \/ phase' = "raised"
       \/ phase = "reprompt" /\ phase' = "done"
    /\ UNCHANGED <<mode, depsVars, poolVars, cache, completeness, calls>>

-----------------------------------------------------------------------------
(* The dispatch validator *)

(* Mutant: only batch_call_log is read, as the docstring's words have it.  *)
LoggedInBatches == batchLog

(* _validate_dispatch looks at the match keys of all calls, not at roles.  *)
Logged == singleLog \cup batchLog
Missing == {x \in Inputs : x \notin Logged}
Dispatched == Cardinality(Inputs) - Cardinality(Missing)

Validating == mode # "none" /\ Inputs # {}

(* The supervisor answers: the validator and what it leads to.             *)
Answer ==
    /\ phase = "supervise"
    /\ Running = {}
    /\ completeness' = IF Validating THEN Dispatched ELSE Unmeasured
    /\ \/ /\ ~Validating \/ Missing = {}
          /\ phase' = "done"
          /\ UNCHANGED fallback
       \/ /\ Validating /\ Missing # {} /\ mode = "reprompt"
          /\ phase' = "reprompt"
          /\ UNCHANGED fallback
       \/ /\ Validating /\ Missing # {} /\ mode = "programmatic"
          /\ phase' = "fallback"
          /\ fallback' = [x \in Inputs |-> IF x \in Missing THEN "missing" ELSE "none"]
    /\ UNCHANGED <<mode, depsVars, provider, cache, calls, faults>>

(* Mutants of the second pass: it claims what it was run for, or asks until *)
(* nothing is missing.                                                     *)
AnswerAgainOptimistic ==
    /\ phase = "reprompt"
    /\ Running = {}
    /\ completeness' = Cardinality(Inputs)
    /\ phase' = "done"
    /\ UNCHANGED <<mode, depsVars, poolVars, cache, calls, faults>>
AnswerAgainUntilComplete ==
    /\ phase = "reprompt"
    /\ Running = {}
    /\ Missing = {}
    /\ completeness' = Dispatched
    /\ phase' = "done"
    /\ UNCHANGED <<mode, depsVars, poolVars, cache, calls, faults>>

(* The second pass reports and does not ask again.                         *)
AnswerAgain ==
    /\ phase = "reprompt"
    /\ Running = {}
    /\ completeness' = Dispatched
    /\ phase' = "done"
    /\ UNCHANGED <<mode, depsVars, poolVars, cache, calls, faults>>

-----------------------------------------------------------------------------
(* _programmatic_fallback: a pool of threads, one missing input at a time  *)

InPool == {x \in Inputs : fallback[x] \in {"creating", "created", "running"}}
CacheOf(x) == cache[ModelOf[Specialist[x]]]

(* Mutant: ModelProviderCache.get does not look whether there is one.       *)
WorkerTakesAnew(x) ==
    /\ phase = "fallback"
    /\ fallback[x] = "missing"
    /\ Cardinality(InPool) < PoolSize
    /\ fallback' = [fallback EXCEPT ![x] =
                       IF Specialist[x] = Unknown THEN "skipped" ELSE "creating"]
    /\ UNCHANGED <<mode, phase, depsVars, provider, cache, completeness, calls, faults>>

(* A free worker takes an input: resolves its specialist and looks the     *)
(* specialist's provider up.  Without one it returns no findings, and for  *)
(* an ambiguous one ModelRetry ends the future: both are a warning.        *)
WorkerTakes(x) ==
    /\ phase = "fallback"
    /\ fallback[x] = "missing"
    /\ Cardinality(InPool) < PoolSize
    /\ \/ /\ Specialist[x] = Unknown
          /\ fallback' = [fallback EXCEPT ![x] = "skipped"]
          /\ UNCHANGED provider
       \/ /\ Specialist[x] # Unknown /\ CacheOf(x) = NoProvider
          /\ fallback' = [fallback EXCEPT ![x] = "creating"]
          /\ UNCHANGED provider
       \/ /\ Specialist[x] # Unknown /\ CacheOf(x) # NoProvider
          /\ fallback' = [fallback EXCEPT ![x] = "running"]
          /\ provider' = [provider EXCEPT ![x] = CacheOf(x)]
    /\ UNCHANGED <<mode, phase, depsVars, cache, completeness, calls, faults>>

(* ModelProviderCache.get found no provider: it makes one and stores it... *)
StoreProvider(x) ==
    /\ fallback[x] = "creating"
    /\ cache' = [cache EXCEPT ![ModelOf[Specialist[x]]] = x]
    /\ fallback' = [fallback EXCEPT ![x] = "created"]
    /\ UNCHANGED <<mode, phase, depsVars, provider, completeness, calls, faults>>

(* ... and returns what the cache holds by then.                           *)
ReadProvider(x) ==
    /\ fallback[x] = "created"
    /\ provider' = [provider EXCEPT ![x] = CacheOf(x)]
    /\ fallback' = [fallback EXCEPT ![x] = "running"]
    /\ UNCHANGED <<mode, phase, depsVars, cache, completeness, calls, faults>>

WorkerEnds(x) ==
    /\ fallback[x] = "running"
    /\ fallback' = [fallback EXCEPT ![x] = "ended"]
    /\ UNCHANGED <<mode, phase, depsVars, provider, cache, completeness, calls, faults>>

(* A child that raises is logged and contributes nothing.                  *)
WorkerRaises(x) ==
    /\ fallback[x] = "running"
    /\ Fault
    /\ fallback' = [fallback EXCEPT ![x] = "raised"]
    /\ UNCHANGED <<mode, phase, depsVars, provider, cache, completeness, calls>>

(* Mutant: the pool is left as soon as one future is done.                 *)
PoolHasResult == \E x \in Inputs : fallback[x] \in {"ended", "raised", "skipped"}
PoolDrained == \A x \in Inputs : fallback[x] \in {"none", "ended", "raised", "skipped"}

(* The pool's exit waits for all; completeness is then 1 by decree.        *)
FallbackDone ==
    /\ phase = "fallback"
    /\ PoolDrained
    /\ completeness' = Cardinality(Inputs)
    /\ phase' = "done"
    /\ UNCHANGED <<mode, depsVars, poolVars, cache, calls, faults>>

-----------------------------------------------------------------------------
(* Batches up to the cap; larger ones are refused.                         *)
Batches == UNION {[1..n -> Keys] : n \in 0..MaxBatch}

SupervisorStep ==
    \/ RefusedCall
    \/ \E role \in Roles, key \in Keys : InvokeSubagent(role, key)
    \/ \E role \in Roles, keys \in Batches : InvokeSubagentBatch(role, keys)
    \/ Answer
    \/ AnswerAgain
ChildStep == \E i \in 1..Len(children) : ChildEnds(i)
WorkerStep(x) == WorkerTakes(x) \/ StoreProvider(x) \/ ReadProvider(x) \/ WorkerEnds(x)
                 \/ WorkerRaises(x)

Next ==
    \/ SupervisorStep \/ ChildStep \/ RunSyncRaises
    \/ (\E x \in Inputs : WorkerStep(x)) \/ FallbackDone

Spec == Init /\ [][Next]_vars

(* Children end because the provider's retries are bounded and their       *)
(* requests time out; the supervisor's model answers in the end; threads   *)
(* of the pool run.  Nothing has to raise.                                 *)
FairSpec ==
    /\ Spec
    /\ WF_vars(SupervisorStep) /\ WF_vars(ChildStep) /\ WF_vars(FallbackDone)
    /\ \A x \in Inputs : WF_vars(WorkerStep(x))

-----------------------------------------------------------------------------
(* However the supervisor's concurrent tool calls interleave, over both    *)
(* passes it starts no more children than max_invocations.                 *)
SupervisorWithinCap == Len(children) <= MaxInvocations

(* The fallback starts nothing twice: an input it works on is in no call   *)
(* the supervisor made, single or batch.                                   *)
NoDoubleDispatch ==
    \A x \in Inputs : fallback[x] # "none" => x \notin singleLog /\ x \notin batchLog

(* A re-prompted strategy never reports more inputs as dispatched than its *)
(* logs hold.                                                              *)
RepromptIsHonest ==
    mode # "programmatic" /\ completeness # Unmeasured => completeness <= Dispatched

(* A programmatic strategy that returns has for every input a call of the  *)
(* supervisor, or a fallback child that is over, or no such specialist.    *)
NothingLeftOut ==
    mode = "programmatic" /\ phase = "done" =>
        \A x \in Inputs : \/ x \in Logged
                          \/ fallback[x] \in {"ended", "raised"}
                          \/ fallback[x] = "skipped" /\ Specialist[x] = Unknown

(* run_strategy collects the token logs of the providers in the cache.     *)
(* Threads of the pool may replace each other's provider there, never the  *)
(* one that children of the supervisor spent on.                           *)
SupervisorSpendKept ==
    \A i \in 1..Len(children) : cache[ModelOf[children[i].role]] = Supervisor

(* Whatever its children and the supervisor do, run_strategy returns or    *)
(* raises.                                                                 *)
RunEnds == <>(phase \in {"done", "raised"})

=============================================================================
