-------------------------- MODULE SubmissionsProofs --------------------------
(***************************************************************************)
(* Types and promises of Submissions, for any matrices, strategies,        *)
(* models, requests, restarts and movements of the catalogue.              *)
(***************************************************************************)
EXTENDS Submissions, FiniteSetTheorems, TLAPS

-----------------------------------------------------------------------------
(* Types *)

LEMMA Blanks == Idle \in Request /\ Done \in Request /\ Placed(Idle) /\ Placed(Done)
  BY DEF Idle, Done, Request, Placed, HasMatrix, HasStrategy

\* What a matrix holds, whoever submits it.
LEMMA MatrixShape ==
    ASSUME NEW m \in AnyMatrix
    PROVE  /\ m.id \in ExpIds
           /\ m.strategies \in Seq(Strategies) /\ m.strategies # <<>>
           /\ m \in Matrices => m.id \notin SmokeIds /\ m.verifier \subseteq Models
           /\ m \notin Matrices => m.id \in SmokeIds
<1>1. CASE m \in Matrices
  BY <1>1, MatrixAssumption DEF ExpIds
<1>2. CASE m \notin Matrices
  <2>1. PICK t \in 0..MaxSeconds : m = SmokeMatrix(t)
    BY <1>2 DEF AnyMatrix
  <2>2. m.id = <<"smoke-test", t>> /\ m.strategies = <<SmokeStrategy>>
    BY <2>1 DEF SmokeMatrix
  <2>3. m.id \in SmokeIds
    BY <2>2 DEF SmokeIds
  <2> QED BY <1>2, <2>2, <2>3, ConstantsAssumption DEF ExpIds, Strategies
<1> QED BY <1>1, <1>2

LEMMA SetMoves ==
    ASSUME TypeOK, NEW q \in Requests, NEW r \in Request, Placed(r), Set(q, r)
    PROVE  req' \in [Requests -> Request] /\ \A p \in Requests : Placed(req'[p])
  BY DEF TypeOK, Set

LEMMA EndMoves ==
    ASSUME TypeOK, NEW q \in Requests, End(q)
    PROVE  req' \in [Requests -> Request] /\ \A p \in Requests : Placed(req'[p])
  BY Blanks DEF TypeOK, End

LEMMA GotoMoves ==
    ASSUME TypeOK, NEW q \in Requests, NEW pc, Goto(q, pc),
           \/ pc \in {"preview", "language", "registry", "dataset"} /\ req[q].pc \in HasMatrix
           \/ pc = "runs" /\ req[q].pc = "insert"
           \/ pc = "remove" /\ req[q].pc \in HasStrategy
    PROVE  req' \in [Requests -> Request] /\ \A p \in Requests : Placed(req'[p])
<1> DEFINE r == [req[q] EXCEPT !.pc = pc]
<1>1. r \in Request
  BY DEF TypeOK, Request, HasMatrix, HasStrategy
<1>2. Placed(r)
  BY DEF TypeOK, Request, Placed, HasMatrix, HasStrategy
<1>3. req' = [req EXCEPT ![q] = r]
  BY DEF TypeOK, Goto
<1> HIDE DEF r
<1> QED BY <1>1, <1>2, <1>3 DEF TypeOK

LEMMA TypeInit == Init => TypeOK
<1> SUFFICES ASSUME Init PROVE TypeOK
  OBVIOUS
<1>1. now \in 0..MaxSeconds /\ restarts \in 0..MaxRestarts
  BY ConstantsAssumption DEF Init
<1>2. req \in [Requests -> Request] /\ \A q \in Requests : Placed(req[q])
  BY Blanks DEF Init
<1>3. experiments \in [ExpIds -> Stored \cup {NoRow}]
  BY DEF Init
<1> QED BY <1>1, <1>2, <1>3 DEF Init, TypeOK

LEMMA TypeArrive ==
    ASSUME TypeOK, NEW q \in Requests, Arrive(q)
    PROVE  TypeOK'
<1>1. ASSUME NEW m \in Matrices, SubmitBegins(q, m)
      PROVE  TypeOK'
  <2> DEFINE r == [Idle EXCEPT !.op = "submit", !.m = m, !.asked = m.verifier,
                               !.pc = IF m.unchecked THEN "preview" ELSE "models"]
  <2>1. m \in AnyMatrix /\ m.verifier \subseteq Models /\ 1 \in DOMAIN m.strategies
    BY MatrixShape DEF AnyMatrix
  <2>2. r \in Request
    BY <2>1 DEF Idle, Request, HasMatrix
  <2>3. Placed(r)
    BY <2>1 DEF Idle, Placed, HasMatrix, HasStrategy
  <2>4. Set(q, r)
    BY <1>1 DEF SubmitBegins
  <2> HIDE DEF r
  <2> QED BY <1>1, <2>2, <2>3, <2>4, SetMoves DEF SubmitBegins, TypeOK
<1>2. CASE SmokeBegins(q)
  <2> DEFINE r == [Idle EXCEPT !.op = "smoke", !.pc = "smoke"]
  <2>1. r \in Request /\ Placed(r)
    BY DEF Idle, Request, Placed, HasMatrix, HasStrategy
  <2>2. Set(q, r)
    BY <1>2 DEF SmokeBegins
  <2> HIDE DEF r
  <2>3. smokeRaced' \in BOOLEAN
    BY <1>2 DEF SmokeBegins
  <2> QED BY <1>2, <2>1, <2>2, <2>3, SetMoves DEF SmokeBegins, TypeOK
<1>3. ASSUME NEW s \in User, CreateBegins(q, s) \/ DeleteBegins(q, s)
      PROVE  TypeOK'
  <2>1. \E r \in Request : Placed(r) /\ Set(q, r)
    <3>1. CASE CreateBegins(q, s)
      <4> DEFINE r == [Idle EXCEPT !.op = "create", !.s = s, !.pc = "add"]
      <4>1. r \in Request /\ Placed(r)
        BY DEF Idle, Request, Placed, HasMatrix, HasStrategy
      <4>2. Set(q, r) \/ Set(q, Done)
        BY <3>1 DEF CreateBegins
      <4> HIDE DEF r
      <4> QED BY <4>1, <4>2, Blanks
    <3>2. CASE DeleteBegins(q, s)
      <4> DEFINE r == [Idle EXCEPT !.op = "delete", !.s = s, !.pc = "references"]
      <4>1. r \in Request /\ Placed(r)
        BY DEF Idle, Request, Placed, HasMatrix, HasStrategy
      <4>2. Set(q, r)
        BY <3>2 DEF DeleteBegins
      <4> HIDE DEF r
      <4> QED BY <4>1, <4>2
    <3> QED BY <1>3, <3>1, <3>2
  <2> QED BY <1>3, <2>1, SetMoves DEF CreateBegins, DeleteBegins, TypeOK
<1> QED BY <1>1, <1>2, <1>3 DEF Arrive

LEMMA TypeSubmit ==
    ASSUME TypeOK, NEW q \in Requests,
           CollectModels(q) \/ Preview(q) \/ Language(q) \/ ReadRegistry(q) \/ ReadDataset(q)
    PROVE  TypeOK'
<1>1. CASE CollectModels(q)
  <2> DEFINE r == req[q]
             s == r.m.strategies[r.at]
             found == s \in strategies \cup Builtin
             asked == r.asked \cup (IF found THEN ModelsOf(s) ELSE {})
             last == r.at = Len(r.m.strategies)
             more == [r EXCEPT !.at = @ + 1, !.asked = asked,
                               !.skipped = IF found THEN @ ELSE @ \cup {s}]
  <2>1. /\ r \in Request /\ r.pc = "models" /\ r.m \in Matrices
        /\ r.at \in DOMAIN r.m.strategies /\ r.m \in AnyMatrix
    BY <1>1 DEF CollectModels, TypeOK, Placed, AnyMatrix
  <2>2. r.m.strategies \in Seq(Strategies) /\ s \in Strategies
    BY <2>1, MatrixShape
  <2>3. asked \subseteq Models
    BY <2>1, <2>2, MatrixAssumption DEF ModelsOf, Request
  <2>4. /\ more \in Request /\ more.m = r.m /\ more.pc = "models"
        /\ more.at = r.at + 1
    <3>1. (IF found THEN r.skipped ELSE r.skipped \cup {s}) \subseteq Strategies
      BY <2>1, <2>2 DEF Request
    <3>2. r.at + 1 \in Nat
      BY <2>1 DEF Request
    <3> HIDE DEF r, s, asked, found
    <3> QED BY <2>1, <2>3, <3>1, <3>2 DEF Request
  <2>5. CASE ~last /\ Set(q, more)
    <3>1. more.at \in DOMAIN more.m.strategies
      BY <2>1, <2>2, <2>4, <2>5
    <3>2. Placed(more)
      BY <2>1, <2>4, <3>1 DEF Placed, HasStrategy
    <3> HIDE DEF more
    <3> QED BY <1>1, <2>4, <2>5, <3>2, SetMoves DEF CollectModels, TypeOK
  <2>6. CASE Set(q, [more EXCEPT !.pc = "preview", !.vetted = Acceptable])
    <3> DEFINE next == [more EXCEPT !.pc = "preview", !.vetted = Acceptable]
    <3>1. next \in Request /\ next.pc = "preview" /\ next.m = r.m
      BY <2>4 DEF Request, Acceptable, HasMatrix
    <3>2. Placed(next)
      BY <2>1, <3>1 DEF Placed, HasStrategy
    <3>3. Set(q, next)
      BY <2>6
    <3> HIDE DEF next
    <3> QED BY <1>1, <3>1, <3>2, <3>3, SetMoves DEF CollectModels, TypeOK
  <2>7. CASE End(q)
    BY <1>1, <2>7, EndMoves DEF CollectModels, TypeOK
  <2> QED BY <1>1, <2>5, <2>6, <2>7 DEF CollectModels
<1>2. CASE Preview(q)
  BY <1>2, GotoMoves, EndMoves DEF Preview, TypeOK, HasMatrix
<1>3. CASE Language(q)
  BY <1>3, GotoMoves, EndMoves DEF Language, TypeOK, HasMatrix
<1>4. CASE ReadRegistry(q)
  BY <1>4, GotoMoves, EndMoves DEF ReadRegistry, TypeOK, HasMatrix
<1>5. CASE ReadDataset(q)
  <2> DEFINE r == [req[q] EXCEPT !.plan = Expansion(req[q].m), !.pc = "insert"]
  <2>1. req[q] \in Request /\ req[q].m \in AnyMatrix /\ Expansion(req[q].m) \in SUBSET Cells
    BY <1>5 DEF ReadDataset, TypeOK, Placed, HasMatrix, Cells
  <2>2. r \in Request /\ r.pc = "insert" /\ r.m = req[q].m
    BY <2>1 DEF Request, HasMatrix
  <2>3. r.plan = Expansion(r.m)
    BY <2>1 DEF Request
  <2>4. Placed(r)
    BY <2>1, <2>2, <2>3 DEF Placed, HasStrategy
  <2>5. Set(q, r) \/ End(q)
    BY <1>5 DEF ReadDataset
  <2> HIDE DEF r
  <2> QED BY <1>5, <2>2, <2>4, <2>5, SetMoves, EndMoves DEF ReadDataset, TypeOK
<1> QED BY <1>1, <1>2, <1>3, <1>4, <1>5

LEMMA TypeWrite ==
    ASSUME TypeOK, NEW q \in Requests, CreateExperiment(q) \/ CreateRun(q) \/ Answer(q)
    PROVE  TypeOK'
<1> DEFINE m == req[q].m
<1>1. req[q] \in Request /\ m \in AnyMatrix /\ m.id \in ExpIds
  BY MatrixShape DEF CreateExperiment, CreateRun, Answer, TypeOK, Placed, HasMatrix
<1>2. CASE CreateExperiment(q)
  <2>1. experiments' \in [ExpIds -> Stored \cup {NoRow}]
    <3> DEFINE late == {s \in User : \/ s \notin strategies
                                    \/ \E p \in Requests : req[p].pc = "remove" /\ req[p].s = s}
               row == [status |-> "pending", m |-> m, by |-> q, answered |-> FALSE,
                       vetted |-> req[q].vetted, skipped |-> req[q].skipped, late |-> late]
    <3>1. late \in SUBSET User
      OBVIOUS
    <3> HIDE DEF late
    <3>2. row \in Stored
      BY <1>1, <3>1 DEF Stored, Request
    <3>3. UNCHANGED experiments \/ experiments' = [experiments EXCEPT ![m.id] = row]
      BY <1>2 DEF CreateExperiment, late
    <3> HIDE DEF row
    <3> QED BY <3>2, <3>3 DEF TypeOK
  <2> QED BY <1>2, <2>1, GotoMoves, EndMoves DEF CreateExperiment, TypeOK, HasMatrix
<1>3. CASE CreateRun(q)
  <2>1. PICK c \in req[q].plan : InsertRun(q, c)
    BY <1>3 DEF CreateRun
  <2>2. c \in Expansion(m)
    BY <1>3, <2>1 DEF CreateRun, TypeOK, Placed
  <2>3. runs' \subseteq RunRows
    BY <1>1, <2>1, <2>2 DEF InsertRun, TypeOK, RunRows
  <2> DEFINE r == [req[q] EXCEPT !.plan = @ \ {c}]
  <2>4. r \in Request /\ r.pc = "runs" /\ r.m = m /\ r.plan = req[q].plan \ {c}
    BY <1>1, <1>3 DEF Request, CreateRun
  <2>5. Placed(r)
    BY <1>1, <1>3, <2>4 DEF CreateRun, TypeOK, Placed, HasStrategy
  <2>6. Set(q, r) \/ End(q)
    BY <2>1 DEF InsertRun
  <2> HIDE DEF r
  <2> QED BY <1>3, <2>3, <2>4, <2>5, <2>6, SetMoves, EndMoves DEF CreateRun, TypeOK
<1>4. CASE Answer(q)
  <2>1. experiments' \in [ExpIds -> Stored \cup {NoRow}]
    <3>1. \/ UNCHANGED experiments
          \/ /\ experiments[m.id] \in Stored
             /\ experiments' = [experiments EXCEPT ![m.id] = [@ EXCEPT !.answered = TRUE]]
      BY <1>1, <1>4 DEF Answer, TypeOK
    <3>2. \A x \in Stored : [x EXCEPT !.answered = TRUE] \in Stored
      BY DEF Stored
    <3> QED BY <3>1, <3>2 DEF TypeOK
  <2> QED BY <1>4, <2>1, EndMoves DEF Answer, TypeOK
<1> QED BY <1>2, <1>3, <1>4

LEMMA TypeSmall ==
    ASSUME TypeOK, NEW q \in Requests,
           \/ SmokeNamed(q) \/ LookForSmoke(q)
           \/ AddStrategy(q) \/ LookForReferences(q) \/ RemoveStrategy(q)
    PROVE  TypeOK'
<1>1. CASE SmokeNamed(q)
  <2> DEFINE r == [req[q] EXCEPT !.m = SmokeMatrix(now), !.pc = "look"]
  <2>1. SmokeMatrix(now) \in AnyMatrix /\ req[q] \in Request
    BY DEF TypeOK, AnyMatrix
  <2>2. r \in Request /\ r.pc = "look" /\ r.m \in AnyMatrix
    BY <2>1 DEF Request, HasMatrix
  <2>3. Placed(r)
    BY <2>2 DEF Placed, HasStrategy
  <2>4. Set(q, r)
    BY <1>1 DEF SmokeNamed
  <2> HIDE DEF r
  <2> QED BY <1>1, <2>2, <2>3, <2>4, SetMoves DEF SmokeNamed, TypeOK
<1>2. CASE LookForSmoke(q)
  BY <1>2, GotoMoves, EndMoves DEF LookForSmoke, TypeOK, HasMatrix
<1>3. CASE AddStrategy(q)
  BY <1>3, EndMoves DEF AddStrategy, TypeOK, Placed, HasStrategy
<1>4. CASE LookForReferences(q)
  BY <1>4, GotoMoves, EndMoves DEF LookForReferences, TypeOK, HasStrategy
<1>5. CASE RemoveStrategy(q)
  BY <1>5, EndMoves DEF RemoveStrategy, TypeOK
<1> QED BY <1>1, <1>2, <1>3, <1>4, <1>5

LEMMA TypeAround == TypeOK /\ Around => TypeOK'
<1> SUFFICES ASSUME TypeOK, Around PROVE TypeOK'
  OBVIOUS
<1>1. ASSUME NEW e \in ExpIds, Progress(e) PROVE TypeOK'
  <2>1. experiments[e] \in Stored
    BY <1>1 DEF Progress, Live, TypeOK
  <2>2. \A s \in {"running", "completed"} : [experiments[e] EXCEPT !.status = s] \in Stored
    BY <2>1 DEF Stored, Terminal
  <2>3. PICK s \in {"running", "completed"} :
            experiments' = [experiments EXCEPT ![e] = [experiments[e] EXCEPT !.status = s]]
    BY <1>1 DEF Progress, TypeOK
  <2>4. experiments' \in [ExpIds -> Stored \cup {NoRow}]
    BY <2>2, <2>3 DEF TypeOK
  <2> QED BY <1>1, <2>4 DEF Progress, TypeOK
<1>2. ASSUME NEW e \in ExpIds, DeleteExperiment(e) PROVE TypeOK'
  BY <1>2 DEF DeleteExperiment, TypeOK
<1>3. CASE CatalogMoves
  BY <1>3 DEF CatalogMoves, TypeOK
<1>4. CASE Tick
  BY <1>4, ConstantsAssumption DEF Tick, TypeOK
<1>5. CASE Restart
  BY <1>5, Blanks, ConstantsAssumption DEF Restart, TypeOK
<1> QED BY <1>1, <1>2, <1>3, <1>4, <1>5 DEF Around

LEMMA TypeStep == TypeOK /\ [Next]_vars => TypeOK'
<1> SUFFICES ASSUME TypeOK, [Next]_vars PROVE TypeOK'
  OBVIOUS
<1>1. CASE UNCHANGED vars
  BY <1>1 DEF vars, TypeOK
<1>2. ASSUME NEW q \in Requests, Handle(q) PROVE TypeOK'
  BY <1>2, TypeSubmit, TypeWrite, TypeSmall DEF Handle
<1> QED BY <1>1, <1>2, TypeArrive, TypeAround DEF Next

\* Tables and requests keep the shape the code gives them, and no handler reads a
\* matrix, a strategy or a cell that is not there.
THEOREM TypeCorrect == Spec => []TypeOK
  BY TypeInit, TypeStep, PTL DEF Spec

-----------------------------------------------------------------------------
(* Strategies in use *)

\* A deletion that is past its check and an experiment that names the strategy
\* know of each other.
RemovalsKnown ==
    \A q \in Requests, e \in ExpIds :
        req[q].pc = "remove" /\ experiments[e] # NoRow /\ req[q].s \in Named(e)
        => req[q].s \in experiments[e].late
StayInv == StrategiesStay /\ RemovalsKnown

\* A step that removes no strategy, writes no experiment and lets no deletion pass.
NoNewRemoval == \A p \in Requests : req'[p].pc = "remove" => req[p].pc = "remove" /\ req'[p].s = req[p].s
NoNewExperiment ==
    \A e \in ExpIds : experiments'[e] # NoRow =>
        /\ experiments[e] # NoRow /\ experiments'[e].m = experiments[e].m
        /\ experiments'[e].late = experiments[e].late
Calm == strategies \subseteq strategies' /\ NoNewExperiment /\ NoNewRemoval

LEMMA CalmKeepsStay == StayInv /\ Calm => StayInv'
  BY DEF StayInv, StrategiesStay, RemovalsKnown, Calm, NoNewExperiment, NoNewRemoval, Named

LEMMA GotoNoRemoval ==
    ASSUME TypeOK, NEW q \in Requests, NEW pc, pc # "remove", Goto(q, pc)
    PROVE  NoNewRemoval
  BY DEF TypeOK, Goto, NoNewRemoval, Request

LEMMA EndNoRemoval ==
    ASSUME TypeOK, NEW q \in Requests, End(q)
    PROVE  NoNewRemoval
  BY DEF TypeOK, End, Done, Idle, NoNewRemoval

LEMMA SetNoRemoval ==
    ASSUME TypeOK, NEW q \in Requests, NEW r, r.pc # "remove", Set(q, r)
    PROVE  NoNewRemoval
  BY DEF TypeOK, Set, NoNewRemoval

\* What a step of the model check leaves of the request.
FoundNow(q) == req[q].m.strategies[req[q].at] \in strategies \cup Builtin
AskedNext(q) == req[q].asked \cup
                    (IF FoundNow(q) THEN ModelsOf(req[q].m.strategies[req[q].at]) ELSE {})
SkippedNext(q) == IF FoundNow(q) THEN req[q].skipped
                  ELSE req[q].skipped \cup {req[q].m.strategies[req[q].at]}
Goes(q) == req'[q].m = req[q].m /\ req'[q].op = req[q].op
Collected(q) ==
    /\ Goes(q) /\ req'[q].asked = AskedNext(q) /\ req'[q].skipped = SkippedNext(q)
    /\ \/ /\ req[q].at # Len(req[q].m.strategies)
          /\ req'[q].pc = "models" /\ req'[q].at = req[q].at + 1
       \/ /\ req[q].at = Len(req[q].m.strategies) /\ Problems(AskedNext(q)) = {}
          /\ req'[q].pc = "preview" /\ req'[q].vetted = Acceptable

LEMMA CollectResult ==
    ASSUME TypeOK, NEW q \in Requests, CollectModels(q)
    PROVE  /\ req[q].pc = "models" /\ \A p \in Requests : p # q => req'[p] = req[p]
           /\ req'[q] = Done \/ Collected(q)
<1> DEFINE r == req[q]
           asked == AskedNext(q)
           skipped == SkippedNext(q)
           more == [r EXCEPT !.at = @ + 1, !.asked = asked, !.skipped = skipped]
<1>1. r \in Request /\ r.pc = "models" /\ UNCHANGED strategies
  BY DEF CollectModels, TypeOK
<1>2. /\ more.at = r.at + 1 /\ more.asked = asked /\ more.skipped = skipped
      /\ more.m = r.m /\ more.op = r.op /\ more.pc = "models"
  <2> HIDE DEF asked, skipped
  <2> QED BY <1>1 DEF Request
<1>3. \/ r.at # Len(r.m.strategies) /\ Set(q, more)
      \/ /\ r.at = Len(r.m.strategies) /\ Problems(asked) = {}
         /\ Set(q, [more EXCEPT !.pc = "preview", !.vetted = Acceptable])
      \/ End(q)
  <2>1. more = [r EXCEPT !.at = @ + 1, !.asked = asked,
                         !.skipped = IF FoundNow(q) THEN @ ELSE @ \cup {r.m.strategies[r.at]}]
    BY <1>1 DEF SkippedNext, Request
  <2> HIDE DEF more
  <2> QED BY <2>1 DEF CollectModels, AskedNext, FoundNow
<1>4. CASE r.at # Len(r.m.strategies) /\ Set(q, more)
  <2>1. req'[q] = more /\ \A p \in Requests : p # q => req'[p] = req[p]
    <3> HIDE DEF more
    <3> QED BY <1>4 DEF Set, TypeOK
  <2> HIDE DEF more, asked, skipped
  <2> QED BY <1>1, <1>2, <1>4, <2>1 DEF Collected, Goes, asked, skipped
<1>5. CASE /\ r.at = Len(r.m.strategies) /\ Problems(asked) = {}
           /\ Set(q, [more EXCEPT !.pc = "preview", !.vetted = Acceptable])
  <2> DEFINE next == [more EXCEPT !.pc = "preview", !.vetted = Acceptable]
  <2>1. /\ next.asked = asked /\ next.skipped = skipped /\ next.m = r.m /\ next.op = r.op
        /\ next.pc = "preview" /\ next.vetted = Acceptable
    <3> HIDE DEF asked, skipped
    <3> QED BY <1>1 DEF Request
  <2>2. req'[q] = next /\ \A p \in Requests : p # q => req'[p] = req[p]
    <3> HIDE DEF next
    <3> QED BY <1>5 DEF Set, TypeOK, next
  <2> HIDE DEF next, more, asked, skipped
  <2> QED BY <1>1, <1>5, <2>1, <2>2 DEF Collected, Goes, asked, skipped
<1>6. CASE End(q)
  BY <1>1, <1>6 DEF End, TypeOK
<1> QED BY <1>3, <1>4, <1>5, <1>6

LEMMA CalmArrivals ==
    ASSUME TypeOK, NEW q \in Requests, Arrive(q)
    PROVE  Calm
<1>1. UNCHANGED <<strategies, experiments>>
  BY DEF Arrive, SubmitBegins, SmokeBegins, CreateBegins, DeleteBegins
<1>2. NoNewRemoval
  BY SetNoRemoval DEF Arrive, SubmitBegins, SmokeBegins, CreateBegins, DeleteBegins, Idle, Done
<1> QED BY <1>1, <1>2 DEF Calm, NoNewExperiment

LEMMA CalmSteps ==
    ASSUME TypeOK, NEW q \in Requests, Handle(q),
           ~CreateExperiment(q), ~LookForReferences(q), ~RemoveStrategy(q)
    PROVE  Calm
<1>1. CASE CollectModels(q)
  <2>1. NoNewRemoval
    BY <1>1, CollectResult DEF Collected, NoNewRemoval, Done, Idle
  <2> QED BY <1>1, <2>1 DEF CollectModels, Calm, NoNewExperiment
<1>2. CASE Preview(q) \/ Language(q) \/ ReadRegistry(q) \/ LookForSmoke(q)
  <2>1. NoNewRemoval
    BY <1>2, GotoNoRemoval, EndNoRemoval DEF Preview, Language, ReadRegistry, LookForSmoke
  <2> QED BY <1>2, <2>1 DEF Preview, Language, ReadRegistry, LookForSmoke, Calm, NoNewExperiment
<1>3. CASE ReadDataset(q)
  <2>1. req[q] \in Request
    BY DEF TypeOK
  <2>2. [req[q] EXCEPT !.plan = Expansion(req[q].m), !.pc = "insert"].pc # "remove"
    BY <2>1 DEF Request
  <2>3. NoNewRemoval
    BY <1>3, <2>2, SetNoRemoval, EndNoRemoval DEF ReadDataset
  <2> QED BY <1>3, <2>3 DEF ReadDataset, Calm, NoNewExperiment
<1>4. CASE CreateRun(q)
  <2>1. PICK c \in req[q].plan : InsertRun(q, c)
    BY <1>4 DEF CreateRun
  <2>2. [req[q] EXCEPT !.plan = @ \ {c}].pc # "remove"
    BY <1>4 DEF CreateRun, TypeOK, Request
  <2>3. NoNewRemoval
    BY <2>1, <2>2, SetNoRemoval, EndNoRemoval DEF InsertRun
  <2> QED BY <1>4, <2>3 DEF CreateRun, Calm, NoNewExperiment
<1>5. CASE Answer(q)
  <2>1. NoNewRemoval
    BY <1>5, EndNoRemoval DEF Answer
  <2>2. NoNewExperiment
    BY <1>5 DEF Answer, NoNewExperiment, TypeOK, Stored
  <2> QED BY <1>5, <2>1, <2>2 DEF Answer, Calm
<1>6. CASE SmokeNamed(q)
  <2>1. [req[q] EXCEPT !.m = SmokeMatrix(now), !.pc = "look"].pc # "remove"
    BY DEF TypeOK, Request
  <2>2. NoNewRemoval
    BY <1>6, <2>1, SetNoRemoval DEF SmokeNamed
  <2> QED BY <1>6, <2>2 DEF SmokeNamed, Calm, NoNewExperiment
<1>7. CASE AddStrategy(q)
  BY <1>7, EndNoRemoval DEF AddStrategy, Calm, NoNewExperiment
<1> QED BY <1>1, <1>2, <1>3, <1>4, <1>5, <1>6, <1>7 DEF Handle

LEMMA CalmAround == TypeOK /\ Around => Calm
<1> SUFFICES ASSUME TypeOK, Around PROVE Calm
  OBVIOUS
<1>1. ASSUME NEW e \in ExpIds, Progress(e) PROVE Calm
  BY <1>1 DEF Progress, Live, TypeOK, Stored, Calm, NoNewExperiment, NoNewRemoval
<1>2. ASSUME NEW e \in ExpIds, DeleteExperiment(e) PROVE Calm
  BY <1>2 DEF DeleteExperiment, TypeOK, Calm, NoNewExperiment, NoNewRemoval
<1>3. CASE CatalogMoves \/ Tick
  BY <1>3 DEF CatalogMoves, Tick, Calm, NoNewExperiment, NoNewRemoval
<1>4. CASE Restart
  BY <1>4 DEF Restart, Idle, Done, Calm, NoNewExperiment, NoNewRemoval
<1> QED BY <1>1, <1>2, <1>3, <1>4 DEF Around

LEMMA StayStep == TypeOK /\ StayInv /\ [Next]_vars => StayInv'
<1> SUFFICES ASSUME TypeOK, StayInv, [Next]_vars PROVE StayInv'
  OBVIOUS
<1>1. CASE UNCHANGED vars
  BY <1>1 DEF vars, StayInv, StrategiesStay, RemovalsKnown, Named
<1>2. ASSUME NEW q \in Requests, CreateExperiment(q), req[q].m.id \in ExpIds,
             experiments[req[q].m.id] = NoRow
      PROVE  StayInv'
  <2> DEFINE m == req[q].m
             late == {s \in User : \/ s \notin strategies
                                  \/ \E p \in Requests : req[p].pc = "remove" /\ req[p].s = s}
  <2>1. m \in AnyMatrix /\ m.strategies \in Seq(Strategies)
    BY <1>2, MatrixShape DEF CreateExperiment, TypeOK, Placed, HasMatrix
  <2>2. PICK e \in ExpIds : e = m.id
    BY <1>2
  <2>3. /\ experiments'[e].m = m /\ experiments'[e].late = late
        /\ \A f \in ExpIds : f # e => experiments'[f] = experiments[f]
        /\ UNCHANGED strategies
    BY <1>2, <2>2 DEF CreateExperiment, TypeOK
  <2>4. NoNewRemoval
    BY <1>2, GotoNoRemoval, EndNoRemoval DEF CreateExperiment
  <2>5. Named(e)' \subseteq strategies \cup Builtin \cup late
    <3>1. Named(e)' = {m.strategies[i] : i \in DOMAIN m.strategies}
      BY <2>3 DEF Named
    <3> QED BY <2>1, <3>1 DEF Strategies
  <2>6. \A p \in Requests : req[p].pc = "remove" => req[p].s \in late
    BY DEF TypeOK, Placed, HasStrategy
  <2> HIDE DEF late, m
  <2>7. StrategiesStay'
    BY <2>3, <2>5 DEF StayInv, StrategiesStay, Named
  <2>8. RemovalsKnown'
    BY <2>3, <2>4, <2>6 DEF StayInv, RemovalsKnown, NoNewRemoval, Named
  <2> QED BY <2>7, <2>8 DEF StayInv
<1>3. ASSUME NEW q \in Requests, CreateExperiment(q), experiments[req[q].m.id] # NoRow
      PROVE  StayInv'
  <2>1. Calm
    BY <1>3, EndNoRemoval DEF CreateExperiment, Calm, NoNewExperiment
  <2> QED BY <2>1, CalmKeepsStay
<1>4. ASSUME NEW q \in Requests, LookForReferences(q)
      PROVE  StayInv'
  <2>1. CASE Referenced(req[q].s)
    <3>1. Calm
      BY <1>4, <2>1, EndNoRemoval DEF LookForReferences, Calm, NoNewExperiment
    <3> QED BY <3>1, CalmKeepsStay
  <2>2. CASE ~Referenced(req[q].s)
    <3>1. /\ UNCHANGED <<strategies, experiments>>
          /\ \A p \in Requests : p # q => req'[p] = req[p]
          /\ req'[q].s = req[q].s
      BY <1>4, <2>2 DEF LookForReferences, Goto, TypeOK, Request
    <3>2. \A e \in ExpIds : experiments[e] # NoRow => req[q].s \notin Named(e)
      BY <2>2 DEF Referenced, Named
    <3> QED BY <3>1, <3>2 DEF StayInv, StrategiesStay, RemovalsKnown, Named
  <2> QED BY <2>1, <2>2
<1>5. ASSUME NEW q \in Requests, RemoveStrategy(q)
      PROVE  StayInv'
  <2>1. /\ strategies' = strategies \ {req[q].s} /\ UNCHANGED experiments
        /\ req[q].pc = "remove" /\ NoNewRemoval
    BY <1>5, EndNoRemoval DEF RemoveStrategy
  <2> QED BY <2>1 DEF StayInv, StrategiesStay, RemovalsKnown, NoNewRemoval, Named
<1>6. ASSUME NEW q \in Requests, CreateExperiment(q) PROVE req[q].m.id \in ExpIds
  BY <1>6, MatrixShape DEF CreateExperiment, TypeOK, Placed, HasMatrix
<1>7. ASSUME NEW q \in Requests, Handle(q) PROVE StayInv'
  BY <1>2, <1>3, <1>4, <1>5, <1>6, <1>7, CalmSteps, CalmKeepsStay
<1> QED BY <1>1, <1>7, CalmArrivals, CalmAround, CalmKeepsStay DEF Next

LEMMA StayInit == Init => StayInv
  BY DEF Init, StayInv, StrategiesStay, RemovalsKnown, Idle

\* delete_strategy and submissions never leave an experiment without a strategy
\* it names, except where the deletion was past its check when it was written.
THEOREM StrategiesAreKept == Spec => []StrategiesStay
<1>1. StayInv => StrategiesStay
  BY DEF StayInv
<1> QED BY <1>1, StayInit, StayStep, TypeInit, TypeStep, PTL DEF Spec

-----------------------------------------------------------------------------
(* The way of a request *)

Paths == {<<"models", "models">>, <<"models", "preview">>, <<"preview", "language">>,
          <<"preview", "registry">>, <<"language", "registry">>, <<"registry", "dataset">>,
          <<"dataset", "insert">>, <<"insert", "runs">>, <<"runs", "runs">>,
          <<"smoke", "look">>, <<"look", "registry">>, <<"references", "remove">>}
SameChecks(q) == req'[q].skipped = req[q].skipped /\ req'[q].vetted = req[q].vetted
SameMatrix(q) == req'[q].m = req[q].m
Step(q) ==
    /\ req'[q].op = req[q].op /\ <<req[q].pc, req'[q].pc>> \in Paths
    /\ IF req[q].pc = "smoke" THEN req'[q].m = SmokeMatrix(now) ELSE SameMatrix(q)
    /\ req[q].pc = "models" \/ SameChecks(q)
    /\ req'[q].pc = "insert" => req'[q].plan = Expansion(req'[q].m)
    /\ req[q].pc = "insert" => req'[q].plan = req[q].plan
Others(q) == \A p \in Requests : p # q => req'[p] = req[p]

LEMMA GotoWay ==
    ASSUME TypeOK, NEW q \in Requests, NEW pc, Goto(q, pc),
           <<req[q].pc, pc>> \in Paths, pc # "insert", req[q].pc \notin {"models", "smoke"}
    PROVE  Others(q) /\ Step(q)
<1>1. req[q] \in Request /\ req'[q] = [req[q] EXCEPT !.pc = pc]
  BY DEF TypeOK, Goto
<1>2. Others(q)
  BY DEF TypeOK, Goto, Others
<1>3. /\ req'[q].pc = pc /\ req'[q].op = req[q].op /\ SameMatrix(q) /\ SameChecks(q)
      /\ req'[q].plan = req[q].plan
  BY <1>1 DEF Request, SameMatrix, SameChecks
<1> QED BY <1>2, <1>3 DEF Step

LEMMA EndWay ==
    ASSUME TypeOK, NEW q \in Requests, End(q)
    PROVE  Others(q) /\ req'[q] = Done
  BY DEF TypeOK, End, Others

LEMMA SetWay ==
    ASSUME TypeOK, NEW q \in Requests, NEW r, Set(q, r)
    PROVE  Others(q) /\ req'[q] = r
  BY DEF TypeOK, Set, Others

LEMMA Way ==
    ASSUME TypeOK, NEW q \in Requests, Handle(q)
    PROVE  /\ Others(q)
           /\ req'[q] = Done \/ Step(q)
           /\ req[q].pc \notin {"idle", "done"} /\ UNCHANGED smokeRaced
<1>1. CASE CollectModels(q)
  <2>1. req[q] \in Request
    BY DEF TypeOK
  <2>2. CASE Collected(q)
    BY <1>1, <2>2, CollectResult DEF Collected, Goes, Step, Others, Paths, SameMatrix, CollectModels
  <2> QED BY <1>1, <2>2, CollectResult DEF Others, CollectModels
<1>2. CASE Preview(q)
  BY <1>2, GotoWay, EndWay DEF Preview, Paths
<1>3. CASE Language(q)
  BY <1>3, GotoWay, EndWay DEF Language, Paths
<1>4. CASE ReadRegistry(q)
  BY <1>4, GotoWay, EndWay DEF ReadRegistry, Paths
<1>5. CASE ReadDataset(q)
  <2> DEFINE r == [req[q] EXCEPT !.plan = Expansion(req[q].m), !.pc = "insert"]
  <2>1. /\ r.pc = "insert" /\ r.m = req[q].m /\ r.op = req[q].op /\ r.plan = Expansion(req[q].m)
        /\ r.skipped = req[q].skipped /\ r.vetted = req[q].vetted
    BY DEF TypeOK, Request
  <2>2. Set(q, r) \/ End(q)
    BY <1>5 DEF ReadDataset
  <2> HIDE DEF r
  <2> QED BY <1>5, <2>1, <2>2, SetWay, EndWay
          DEF ReadDataset, Step, Paths, SameMatrix, SameChecks
<1>6. CASE CreateExperiment(q)
  BY <1>6, GotoWay, EndWay DEF CreateExperiment, Paths
<1>7. CASE CreateRun(q)
  <2>1. PICK c \in req[q].plan : InsertRun(q, c)
    BY <1>7 DEF CreateRun
  <2> DEFINE r == [req[q] EXCEPT !.plan = @ \ {c}]
  <2>2. /\ r.pc = req[q].pc /\ r.m = req[q].m /\ r.op = req[q].op
        /\ r.skipped = req[q].skipped /\ r.vetted = req[q].vetted
    BY DEF TypeOK, Request
  <2>3. Set(q, r) \/ End(q)
    BY <2>1 DEF InsertRun
  <2> HIDE DEF r
  <2> QED BY <1>7, <2>2, <2>3, SetWay, EndWay DEF CreateRun, Step, Paths, SameMatrix, SameChecks
<1>8. CASE SmokeNamed(q)
  <2> DEFINE r == [req[q] EXCEPT !.m = SmokeMatrix(now), !.pc = "look"]
  <2>1. /\ r.pc = "look" /\ r.m = SmokeMatrix(now) /\ r.op = req[q].op
        /\ r.skipped = req[q].skipped /\ r.vetted = req[q].vetted
    BY DEF TypeOK, Request
  <2>2. Set(q, r)
    BY <1>8 DEF SmokeNamed
  <2> HIDE DEF r
  <2> QED BY <1>8, <2>1, <2>2, SetWay DEF SmokeNamed, Step, Paths, SameMatrix, SameChecks
<1>9. CASE LookForSmoke(q)
  BY <1>9, GotoWay, EndWay DEF LookForSmoke, Paths
<1>10. CASE LookForReferences(q)
  BY <1>10, GotoWay, EndWay DEF LookForReferences, Paths
<1>11. CASE Answer(q) \/ AddStrategy(q) \/ RemoveStrategy(q)
  BY <1>11, EndWay DEF Answer, AddStrategy, RemoveStrategy
<1> QED BY <1>1, <1>2, <1>3, <1>4, <1>5, <1>6, <1>7, <1>8, <1>9, <1>10, <1>11 DEF Handle

\* A smoke test has a way of its own, and only its matrix has a smoke test's id.
SmokeWay == {"smoke", "look", "registry", "dataset", "insert", "runs"}
OnItsWay(r) ==
    /\ r.op = "smoke" => r.pc \in SmokeWay
    /\ r.pc = "smoke" => r.op = "smoke"
    /\ r.pc = "look" => r.m \notin Matrices
    /\ r.pc \in HasMatrix => (r.op = "smoke" <=> r.m \notin Matrices)
WayInv == \A q \in Requests : OnItsWay(req[q])

LEMMA SmokeMatrixApart == \A t \in 0..MaxSeconds : SmokeMatrix(t) \notin Matrices
<1> SUFFICES ASSUME NEW t \in 0..MaxSeconds PROVE SmokeMatrix(t).id \in SmokeIds
  BY MatrixAssumption
<1> QED BY DEF SmokeMatrix, SmokeIds

LEMMA WayStep == TypeOK /\ WayInv /\ [Next]_vars => WayInv'
<1> SUFFICES ASSUME TypeOK, WayInv, [Next]_vars PROVE WayInv'
  OBVIOUS
<1>1. CASE UNCHANGED req
  BY <1>1 DEF WayInv
<1>2. CASE Restart
  BY <1>2 DEF Restart, WayInv, OnItsWay, Idle, Done, HasMatrix
<1>3. ASSUME NEW q \in Requests, Handle(q) PROVE WayInv'
  <2>1. CASE req'[q] = Done
    BY <1>3, <2>1, Way DEF Others, WayInv, OnItsWay, Done, Idle, HasMatrix
  <2>2. CASE Step(q)
    <3>1. SmokeMatrix(now) \notin Matrices
      BY SmokeMatrixApart DEF TypeOK
    <3>2. OnItsWay(req[q]) /\ Others(q)
      BY <1>3, Way DEF WayInv
    <3>3. OnItsWay(req'[q])
      BY <2>2, <3>1, <3>2 DEF OnItsWay, Step, SameMatrix, Paths, HasMatrix, SmokeWay
    <3> QED BY <3>2, <3>3 DEF WayInv, Others
  <2> QED BY <1>3, <2>1, <2>2, Way
<1>4. ASSUME NEW q \in Requests, Arrive(q) PROVE WayInv'
  <2>1. ASSUME NEW m \in Matrices, NEW pc \in {"preview", "models"}, NEW asked
        PROVE  OnItsWay([Idle EXCEPT !.op = "submit", !.m = m, !.asked = asked, !.pc = pc])
    BY DEF OnItsWay, Idle, HasMatrix, SmokeWay
  <2>2. OnItsWay([Idle EXCEPT !.op = "smoke", !.pc = "smoke"]) /\ OnItsWay(Done)
    BY DEF OnItsWay, Idle, Done, HasMatrix, SmokeWay
  <2>3. ASSUME NEW s
        PROVE  /\ OnItsWay([Idle EXCEPT !.op = "create", !.s = s, !.pc = "add"])
               /\ OnItsWay([Idle EXCEPT !.op = "delete", !.s = s, !.pc = "references"])
    BY DEF OnItsWay, Idle, HasMatrix, SmokeWay
  <2>4. \E r : Set(q, r) /\ OnItsWay(r)
    <3>1. CASE \E m \in Matrices : SubmitBegins(q, m)
      <4>1. PICK m \in Matrices : SubmitBegins(q, m)
        BY <3>1
      <4> QED BY <2>1, <4>1 DEF SubmitBegins
    <3>2. CASE SmokeBegins(q)
      BY <2>2, <3>2 DEF SmokeBegins
    <3>3. CASE \E s \in User : CreateBegins(q, s) \/ DeleteBegins(q, s)
      <4>1. PICK s \in User : CreateBegins(q, s) \/ DeleteBegins(q, s)
        BY <3>3
      <4> QED BY <2>2, <2>3, <4>1 DEF CreateBegins, DeleteBegins
    <3> QED BY <1>4, <3>1, <3>2, <3>3 DEF Arrive
  <2> QED BY <2>4, SetWay DEF WayInv, Others
<1>5. CASE Around
  BY <1>1, <1>2, <1>5 DEF Around, Progress, DeleteExperiment, CatalogMoves, Tick
<1> QED BY <1>1, <1>3, <1>4, <1>5 DEF Next, vars

LEMMA WayInit == Init => WayInv
  BY DEF Init, WayInv, OnItsWay, Idle, HasMatrix

-----------------------------------------------------------------------------
(* What becomes of experiments *)

\* A stored experiment keeps what its submission wrote.
Kept(e) ==
    experiments'[e] # NoRow =>
        /\ experiments[e] # NoRow /\ experiments'[e].m = experiments[e].m
        /\ experiments'[e].by = experiments[e].by
        /\ experiments'[e].vetted = experiments[e].vetted
        /\ experiments'[e].skipped = experiments[e].skipped

\* The row that a submission writes.
Written(q) ==
    LET e == req[q].m.id IN
    /\ e \in ExpIds /\ req[q].pc = "insert" /\ req'[q].pc = "runs" /\ experiments'[e] # NoRow
    /\ experiments'[e].m = req[q].m /\ experiments'[e].by = q /\ ~experiments'[e].answered
    /\ experiments'[e].vetted = req[q].vetted /\ experiments'[e].skipped = req[q].skipped
    /\ \A f \in ExpIds : f # e => experiments'[f] = experiments[f]

LEMMA RowsOfHandler ==
    ASSUME TypeOK, NEW q \in Requests, Handle(q)
    PROVE  \/ CreateExperiment(q) /\ Written(q) /\ UNCHANGED runs
           \/ Answer(q) /\ (\A e \in ExpIds : Kept(e) /\ (Live(e)' <=> Live(e))) /\ UNCHANGED runs
           \/ UNCHANGED experiments /\ ~Answer(q) /\ (CreateExperiment(q) => End(q))
<1>1. CASE CreateExperiment(q)
  <2>1. req[q].pc = "insert" /\ req[q].m.id \in ExpIds /\ req[q] \in Request
    BY <1>1, MatrixShape DEF CreateExperiment, TypeOK, Placed, HasMatrix
  <2>2. CASE experiments[req[q].m.id] = NoRow
    <3> DEFINE e == req[q].m.id
               row == [status |-> "pending", m |-> req[q].m, by |-> q, answered |-> FALSE,
                       vetted |-> req[q].vetted, skipped |-> req[q].skipped,
                       late |-> {s \in User : \/ s \notin strategies
                                             \/ \E p \in Requests : req[p].pc = "remove" /\ req[p].s = s}]
    <3>1. experiments' = [experiments EXCEPT ![e] = row] /\ Goto(q, "runs") /\ UNCHANGED runs
      BY <1>1, <2>2 DEF CreateExperiment
    <3>2. experiments'[e] = row /\ \A f \in ExpIds : f # e => experiments'[f] = experiments[f]
      BY <2>1, <3>1 DEF TypeOK
    <3>3. experiments'[e] # NoRow
      <4>1. experiments'[e] \in Stored \cup {NoRow} /\ row \in Stored
        BY <1>1, <2>1, <3>2, TypeWrite DEF TypeOK, Stored, Request, Placed, HasMatrix
      <4> QED BY <3>2, <4>1, NullAssumption
    <3>4. req'[q].pc = "runs"
      BY <2>1, <3>1 DEF Goto, TypeOK, Request
    <3> QED BY <1>1, <2>1, <3>1, <3>2, <3>3, <3>4 DEF Written
  <2>3. CASE experiments[req[q].m.id] # NoRow
    BY <1>1, <2>1, <2>3 DEF CreateExperiment, Answer
  <2> QED BY <2>2, <2>3
<1>2. CASE Answer(q)
  <2>1. \A e \in ExpIds : experiments[e] # NoRow => experiments[e] \in Stored
    BY DEF TypeOK
  <2>2. \A e \in ExpIds : experiments'[e] = experiments[e]
                            \/ /\ experiments[e] \in Stored
                               /\ experiments'[e] = [experiments[e] EXCEPT !.answered = TRUE]
    BY <1>2, <2>1 DEF Answer, TypeOK
  <2>3. \A x \in Stored : LET y == [x EXCEPT !.answered = TRUE]
                          IN /\ y # NoRow /\ y.m = x.m /\ y.by = x.by /\ y.vetted = x.vetted
                             /\ y.skipped = x.skipped /\ y.status = x.status
    <3>1. \A x \in Stored : [x EXCEPT !.answered = TRUE] \in Stored
      BY DEF Stored
    <3> QED BY <3>1, NullAssumption DEF Stored
  <2>4. \A e \in ExpIds : Kept(e) /\ (Live(e)' <=> Live(e))
    BY <2>2, <2>3, NullAssumption DEF Kept, Live
  <2> QED BY <1>2, <2>4 DEF Answer
<1>3. CASE ~CreateExperiment(q) /\ ~Answer(q)
  BY <1>3 DEF Handle, CollectModels, Preview, Language, ReadRegistry, ReadDataset, CreateRun,
              SmokeNamed, LookForSmoke, AddStrategy, LookForReferences, RemoveStrategy
<1> QED BY <1>1, <1>2, <1>3

LEMMA RowsAround ==
    ASSUME TypeOK, Around
    PROVE  \A e \in ExpIds : /\ Kept(e) /\ (Live(e)' => Live(e))
                             /\ experiments'[e] # NoRow =>
                                    experiments'[e].answered = experiments[e].answered
<1>1. ASSUME NEW f \in ExpIds, Progress(f), NEW e \in ExpIds
      PROVE  /\ Kept(e) /\ (Live(e)' => Live(e))
             /\ experiments'[e] # NoRow => experiments'[e].answered = experiments[e].answered
  <2>1. experiments[f] \in Stored /\ Live(f)
    BY <1>1 DEF Progress, Live, TypeOK
  <2>2. PICK s : experiments' = [experiments EXCEPT ![f] = [experiments[f] EXCEPT !.status = s]]
    BY <1>1 DEF Progress, TypeOK
  <2>3. CASE e # f
    BY <2>2, <2>3 DEF Kept, Live, TypeOK
  <2>4. CASE e = f
    <3>1. experiments'[e] = [experiments[e] EXCEPT !.status = s] /\ experiments[e] # NoRow
      BY <2>1, <2>2, <2>4 DEF TypeOK, Live
    <3> QED BY <2>1, <2>4, <3>1 DEF Kept, Stored
  <2> QED BY <2>3, <2>4
<1>2. ASSUME NEW f \in ExpIds, DeleteExperiment(f), NEW e \in ExpIds
      PROVE  /\ Kept(e) /\ (Live(e)' => Live(e))
             /\ experiments'[e] # NoRow => experiments'[e].answered = experiments[e].answered
  BY <1>2 DEF DeleteExperiment, Kept, Live, TypeOK
<1>3. CASE UNCHANGED experiments
  BY <1>3 DEF Kept, Live
<1> QED BY <1>1, <1>2, <1>3 DEF Around, CatalogMoves, Tick, Restart

-----------------------------------------------------------------------------
(* Smoke tests *)

Smoking(q) == req[q].op = "smoke" /\ InFlight(q)
OneSmoker == \A p, q \in Requests : Smoking(p) /\ Smoking(q) => p = q
PastLook == {"registry", "dataset", "insert"}
NoneWasThere == \A q \in Requests : req[q].op = "smoke" /\ req[q].pc \in PastLook => ~SmokeAlready
OneLive == \A e, f \in SmokeIds : Live(e) /\ Live(f) => e = f
SmokeInv == smokeRaced \/ (OneSmoker /\ NoneWasThere /\ OneLive)

LEMMA SmokeInit == Init => SmokeInv
  BY DEF Init, SmokeInv, OneSmoker, NoneWasThere, OneLive, Smoking, Idle, Live, ExpIds, PastLook

\* A request's step makes nobody else a smoker, and only a look lets one past.
LEMMA SmokersStay ==
    ASSUME TypeOK, WayInv, NEW q \in Requests, Handle(q)
    PROVE  /\ \A p \in Requests : Smoking(p)' => Smoking(p)
           /\ req'[q].op = "smoke" /\ req'[q].pc \in PastLook =>
                 /\ req[q].op = "smoke"
                 /\ req[q].pc \in PastLook \/ (~SmokeAlready /\ UNCHANGED experiments)
<1>1. Others(q) /\ OnItsWay(req[q]) /\ InFlight(q)
  BY Way DEF WayInv, InFlight
<1>2. CASE req'[q] = Done
  BY <1>1, <1>2 DEF Others, Smoking, InFlight, Done, Idle
<1>3. CASE Step(q)
  <2>1. \A p \in Requests : Smoking(p)' => Smoking(p)
    BY <1>1, <1>3 DEF Others, Smoking, InFlight, Step
  <2>2. ASSUME req'[q].op = "smoke", req'[q].pc \in PastLook, req[q].pc \notin PastLook
        PROVE  req[q].op = "smoke" /\ ~SmokeAlready /\ UNCHANGED experiments
    <3>1. req[q].op = "smoke" /\ req[q].pc = "look"
      BY <1>1, <1>3, <2>2 DEF Step, Paths, PastLook, OnItsWay, SmokeWay
    <3>2. LookForSmoke(q)
      BY <3>1 DEF Handle, CollectModels, Preview, Language, ReadRegistry, ReadDataset, CreateRun,
                  CreateExperiment, Answer, SmokeNamed, AddStrategy, LookForReferences, RemoveStrategy
    <3>3. ~SmokeAlready
      BY <2>2, <3>2, EndWay DEF LookForSmoke, Done, Idle, PastLook
    <3> QED BY <3>1, <3>2, <3>3 DEF LookForSmoke
  <2> QED BY <1>3, <2>1, <2>2 DEF Step
<1> QED BY <1>2, <1>3, Way

LEMMA SmokeHandle ==
    ASSUME TypeOK, WayInv, SmokeInv, NEW q \in Requests, Handle(q)
    PROVE  SmokeInv'
<1>1. CASE smokeRaced
  BY <1>1, Way DEF SmokeInv
<1>2. CASE ~smokeRaced
  <2>1. OneSmoker /\ NoneWasThere /\ OneLive /\ Others(q) /\ OnItsWay(req[q])
    BY <1>2, Way DEF SmokeInv, WayInv
  <2>2. OneSmoker'
    BY <2>1, SmokersStay DEF OneSmoker
  <2>3. SmokeIds \subseteq ExpIds
    BY DEF ExpIds
  <2>4. CASE \A e \in ExpIds : Live(e)' => Live(e)
    <3>1. OneLive' /\ (SmokeAlready' => SmokeAlready)
      BY <2>1, <2>3, <2>4 DEF OneLive, SmokeAlready
    <3>2. NoneWasThere'
      BY <2>1, <3>1, SmokersStay DEF NoneWasThere, Others
    <3> QED BY <2>2, <3>1, <3>2 DEF SmokeInv
  <2>5. CASE CreateExperiment(q) /\ Written(q)
    <3> DEFINE e == req[q].m.id
    <3>1. /\ e \in ExpIds /\ req[q].m \in AnyMatrix /\ req[q].pc = "insert" /\ req'[q].pc = "runs"
          /\ \A f \in ExpIds : f # e => (Live(f)' <=> Live(f))
      BY <2>5 DEF Written, TypeOK, Placed, HasMatrix, Live
    <3>2. CASE req[q].op = "smoke"
      <4>1. ~SmokeAlready
        BY <2>1, <3>1, <3>2 DEF NoneWasThere, PastLook
      <4>2. \A f \in SmokeIds : Live(f)' => f = e
        BY <2>3, <3>1, <4>1 DEF SmokeAlready
      <4>3. OneLive'
        BY <4>2 DEF OneLive
      <4>4. \A p \in Requests : p # q => ~(req'[p].op = "smoke" /\ req'[p].pc \in PastLook)
        BY <2>1, <3>1, <3>2 DEF OneSmoker, Smoking, InFlight, Others, PastLook
      <4>5. NoneWasThere'
        BY <3>1, <4>4 DEF NoneWasThere, PastLook
      <4> QED BY <2>2, <4>3, <4>5 DEF SmokeInv
    <3>3. CASE req[q].op # "smoke"
      <4>1. e \notin SmokeIds
        BY <2>1, <3>1, <3>3, MatrixShape DEF OnItsWay, HasMatrix
      <4>2. \A f \in SmokeIds : Live(f)' <=> Live(f)
        BY <2>3, <3>1, <4>1
      <4>3. OneLive' /\ (SmokeAlready' => SmokeAlready)
        BY <2>1, <4>2 DEF OneLive, SmokeAlready
      <4>4. NoneWasThere'
        BY <2>1, <4>3, SmokersStay DEF NoneWasThere, Others
      <4> QED BY <2>2, <4>3, <4>4 DEF SmokeInv
    <3> QED BY <3>2, <3>3
  <2> QED BY <2>4, <2>5, RowsOfHandler DEF Live
<1> QED BY <1>1, <1>2

LEMMA SmokeStep == TypeOK /\ WayInv /\ SmokeInv /\ [Next]_vars => SmokeInv'
<1> SUFFICES ASSUME TypeOK, WayInv, SmokeInv, [Next]_vars PROVE SmokeInv'
  OBVIOUS
<1>1. CASE UNCHANGED vars
  BY <1>1 DEF vars, SmokeInv, OneSmoker, NoneWasThere, OneLive, Smoking, InFlight, SmokeAlready, Live
<1>2. CASE Around
  <2>1. UNCHANGED smokeRaced
    BY <1>2 DEF Around, Progress, DeleteExperiment, CatalogMoves, Tick, Restart
  <2>2. \A p \in Requests : \/ req'[p] = req[p]
                           \/ req'[p].op = "none"
    BY <1>2 DEF Around, Progress, DeleteExperiment, CatalogMoves, Tick, Restart, Idle, Done
  <2>3. \A e \in SmokeIds : Live(e)' => Live(e)
    BY <1>2, RowsAround DEF ExpIds
  <2> QED BY <2>1, <2>2, <2>3
          DEF SmokeInv, OneSmoker, NoneWasThere, OneLive, Smoking, InFlight, SmokeAlready
<1>3. ASSUME NEW q \in Requests, Arrive(q) PROVE SmokeInv'
  <2>1. UNCHANGED experiments
    BY <1>3 DEF Arrive, SubmitBegins, SmokeBegins, CreateBegins, DeleteBegins
  <2>2. \A e \in ExpIds : Live(e)' <=> Live(e)
    BY <2>1 DEF Live
  <2>3. CASE SmokeBegins(q)
    <3> DEFINE r == [Idle EXCEPT !.op = "smoke", !.pc = "smoke"]
    <3>0. r.pc = "smoke" /\ Set(q, r)
      BY <2>3 DEF SmokeBegins, Idle
    <3> HIDE DEF r
    <3>1. Others(q) /\ req'[q].pc = "smoke"
      BY <3>0, SetWay
    <3>2. smokeRaced' = (smokeRaced \/ \E p \in Requests : Smoking(p))
      BY <2>3 DEF SmokeBegins, Smoking
    <3> QED BY <2>1, <3>1, <3>2
            DEF SmokeInv, OneSmoker, NoneWasThere, OneLive, Smoking, InFlight, SmokeAlready, Live,
                Others, PastLook
  <2>4. CASE ~SmokeBegins(q)
    <3>1. PICK r : Set(q, r) /\ r.op # "smoke" /\ UNCHANGED smokeRaced
      <4>1. CASE \E m \in Matrices : SubmitBegins(q, m)
        BY <4>1 DEF SubmitBegins, Idle
      <4>2. CASE \E s \in User : CreateBegins(q, s) \/ DeleteBegins(q, s)
        BY <4>2 DEF CreateBegins, DeleteBegins, Idle, Done
      <4> QED BY <1>3, <2>4, <4>1, <4>2 DEF Arrive
    <3>2. Others(q) /\ req'[q].op # "smoke"
      BY <3>1, SetWay
    <3> QED BY <2>1, <3>1, <3>2
            DEF SmokeInv, OneSmoker, NoneWasThere, OneLive, Smoking, InFlight, SmokeAlready, Live, Others
  <2> QED BY <2>3, <2>4
<1> QED BY <1>1, <1>2, <1>3, SmokeHandle DEF Next

LEMMA AtMostOne ==
    ASSUME NEW S, \A x, y \in S : x = y
    PROVE  Cardinality(S) <= 1
<1>1. CASE S = {}
  BY <1>1, FS_EmptySet
<1>2. CASE S # {}
  <2>1. PICK x \in S : S = {x}
    BY <1>2
  <2> QED BY <2>1, FS_Singleton
<1> QED BY <1>1, <1>2

\* Two smoke tests run at once only if their requests overlapped.
THEOREM SmokeTestsAreSingle == Spec => []OneSmokeTest
<1>1. SmokeInv => OneSmokeTest
  BY AtMostOne DEF SmokeInv, OneLive, OneSmokeTest
<1> QED BY <1>1, SmokeInit, SmokeStep, WayInit, WayStep, TypeInit, TypeStep, PTL DEF Spec

-----------------------------------------------------------------------------
(* What is answered *)

\* A strategy of a matrix whose models were seen to be available.
Seen(m, i, skipped, models) ==
    m.strategies[i] \in skipped \/ ModelsOf(m.strategies[i]) \subseteq models
Fits(m) == \A i \in DOMAIN m.strategies : ExtsOf(m.strategies[i]) \subseteq EnabledExts
PastModels == {"preview", "language", "registry", "dataset", "insert"}
PastExts == PastModels \ {"preview"}

\* What the gates a request has passed have established.
Checked(r) ==
    /\ r.pc = "models" =>
          \A i \in DOMAIN r.m.strategies : i < r.at => Seen(r.m, i, r.skipped, r.asked)
    /\ r.m \in Matrices /\ r.pc \in PastModels =>
          r.m.unchecked \/ \A i \in DOMAIN r.m.strategies : Seen(r.m, i, r.skipped, r.vetted)
    /\ r.m \in Matrices /\ r.pc \in PastExts => Fits(r.m)
    /\ r.pc = "insert" => r.plan = Expansion(r.m)
CheckInv == \A q \in Requests : Checked(req[q])

LEMMA CheckedBlank == Checked(Idle) /\ Checked(Done)
  BY DEF Checked, Idle, Done, PastModels, PastExts

LEMMA CheckedCollect ==
    ASSUME TypeOK, CheckInv, NEW q \in Requests, CollectModels(q), Collected(q)
    PROVE  Checked(req'[q])
<1> DEFINE r == req[q]
           ss == req[q].m.strategies
<1>1. /\ r \in Request /\ r.pc = "models" /\ r.m \in Matrices /\ r.at \in DOMAIN ss
      /\ Checked(r) /\ ss \in Seq(Strategies) /\ r.m \in AnyMatrix
  BY MatrixShape DEF CollectModels, TypeOK, Placed, CheckInv, AnyMatrix
<1>2. \A i \in DOMAIN ss : i <= r.at => Seen(r.m, i, SkippedNext(q), AskedNext(q))
  <2>1. ASSUME NEW i \in DOMAIN ss, i < r.at PROVE Seen(r.m, i, SkippedNext(q), AskedNext(q))
    <3>1. Seen(r.m, i, r.skipped, r.asked)
      BY <1>1, <2>1 DEF Checked
    <3> QED BY <3>1 DEF Seen, SkippedNext, AskedNext
  <2>2. Seen(r.m, r.at, SkippedNext(q), AskedNext(q))
    BY DEF Seen, SkippedNext, AskedNext
  <2> QED BY <1>1, <2>1, <2>2
<1>3. AskedNext(q) \subseteq Models
  BY <1>1, MatrixAssumption DEF AskedNext, ModelsOf, Request
<1>4. Problems(AskedNext(q)) = {} => AskedNext(q) \subseteq Acceptable
  BY <1>3 DEF Problems, Acceptable
<1>5. CASE req'[q].pc = "models"
  <2>1. req'[q].at = r.at + 1
    BY <1>5 DEF Collected
  <2>2. \A i \in DOMAIN ss : i < req'[q].at => i <= r.at
    BY <1>1, <2>1
  <2> QED BY <1>2, <1>5, <2>2 DEF Collected, Goes, Checked, PastModels, PastExts
<1>6. CASE req'[q].pc = "preview"
  <2>1. r.at = Len(ss) /\ Problems(AskedNext(q)) = {} /\ req'[q].vetted = Acceptable
    BY <1>6 DEF Collected
  <2>2. \A i \in DOMAIN ss : i <= r.at
    BY <1>1, <2>1
  <2>3. \A i \in DOMAIN ss : Seen(r.m, i, SkippedNext(q), Acceptable)
    BY <1>2, <1>4, <2>1, <2>2 DEF Seen
  <2> QED BY <1>6, <2>1, <2>3 DEF Collected, Goes, Checked, PastExts
<1> QED BY <1>5, <1>6 DEF Collected

LEMMA CheckedStep ==
    ASSUME TypeOK, WayInv, CheckInv, NEW q \in Requests, Handle(q), Step(q), ~CollectModels(q)
    PROVE  Checked(req'[q])
<1>1. OnItsWay(req[q]) /\ Checked(req[q]) /\ req[q].pc # "models"
  BY DEF WayInv, CheckInv, Handle, CollectModels, Preview, Language, ReadRegistry, ReadDataset,
         CreateRun, CreateExperiment, Answer, SmokeNamed, LookForSmoke, AddStrategy,
         LookForReferences, RemoveStrategy
<1>2. CASE req[q].pc \in PastExts
  BY <1>1, <1>2 DEF Checked, Step, SameMatrix, SameChecks, Paths, PastModels, PastExts
<1>3. CASE req[q].pc = "preview"
  <2>1. Preview(q)
    BY <1>3 DEF Handle, CollectModels, Language, ReadRegistry, ReadDataset,
         CreateRun, CreateExperiment, Answer, SmokeNamed, LookForSmoke, AddStrategy,
         LookForReferences, RemoveStrategy
  <2>2. Fits(req[q].m)
    <3>1. ~End(q)
      BY EndWay DEF Step, Paths, Done, Idle
    <3> QED BY <2>1, <3>1 DEF Preview, Fits
  <2> QED BY <1>1, <1>3, <2>2 DEF Checked, Step, SameMatrix, SameChecks, Paths, PastModels, PastExts
<1>4. CASE req[q].pc \in {"smoke", "look", "references", "runs"}
  BY <1>1, <1>4 DEF Checked, OnItsWay, Step, SameMatrix, Paths, PastModels, PastExts
<1> QED BY <1>1, <1>2, <1>3, <1>4 DEF Step, Paths, PastExts, PastModels

LEMMA CheckStep == TypeOK /\ WayInv /\ CheckInv /\ [Next]_vars => CheckInv'
<1> SUFFICES ASSUME TypeOK, WayInv, CheckInv, [Next]_vars PROVE CheckInv'
  OBVIOUS
<1>1. CASE UNCHANGED req
  BY <1>1 DEF CheckInv
<1>2. CASE Restart
  BY <1>2, CheckedBlank DEF Restart, CheckInv
<1>3. ASSUME NEW q \in Requests, Handle(q) PROVE CheckInv'
  <2>1. Checked(req'[q])
    BY <1>3, Way, CollectResult, CheckedBlank, CheckedCollect, CheckedStep
  <2> QED BY <1>3, <2>1, Way DEF CheckInv, Others
<1>4. ASSUME NEW q \in Requests, Arrive(q) PROVE CheckInv'
  <2>1. \E r : Set(q, r) /\ Checked(r)
    <3>1. CASE \E m \in Matrices : SubmitBegins(q, m)
      <4>1. PICK m \in Matrices : SubmitBegins(q, m)
        BY <3>1
      <4> DEFINE r == [Idle EXCEPT !.op = "submit", !.m = m, !.asked = m.verifier,
                                   !.pc = IF m.unchecked THEN "preview" ELSE "models"]
      <4>2. /\ r.m = m /\ r.at = 1 /\ r.pc = IF m.unchecked THEN "preview" ELSE "models"
        BY DEF Idle
      <4>3. Set(q, r)
        BY <4>1 DEF SubmitBegins
      <4>4. m.strategies \in Seq(Strategies)
        BY MatrixAssumption
      <4> HIDE DEF r
      <4>5. Checked(r)
        BY <4>2, <4>4 DEF Checked, PastModels, PastExts
      <4> QED BY <4>3, <4>5
    <3>2. CASE SmokeBegins(q)
      <4>1. Checked([Idle EXCEPT !.op = "smoke", !.pc = "smoke"])
        BY DEF Checked, Idle, PastModels, PastExts
      <4> QED BY <3>2, <4>1 DEF SmokeBegins
    <3>3. CASE \E s \in User : CreateBegins(q, s) \/ DeleteBegins(q, s)
      <4>1. PICK s \in User : CreateBegins(q, s) \/ DeleteBegins(q, s)
        BY <3>3
      <4>2. /\ Checked([Idle EXCEPT !.op = "create", !.s = s, !.pc = "add"])
            /\ Checked([Idle EXCEPT !.op = "delete", !.s = s, !.pc = "references"])
        BY DEF Checked, Idle, PastModels, PastExts
      <4> QED BY <4>1, <4>2, CheckedBlank DEF CreateBegins, DeleteBegins
    <3> QED BY <1>4, <3>1, <3>2, <3>3 DEF Arrive
  <2> QED BY <2>1, SetWay DEF CheckInv, Others
<1> QED BY <1>1, <1>2, <1>3, <1>4 DEF Next, vars, Around, Progress, DeleteExperiment, CatalogMoves, Tick

LEMMA CheckInit == Init => CheckInv
  BY CheckedBlank DEF Init, CheckInv

\* What stored experiments and their rows have, of the request that is still
\* writing rows as well.
RowsWritten(e, q) ==
    \A c \in Expansion(experiments[e].m) \ req[q].plan : RunRow(experiments[e].m, c) \in runs
Writing(e, q) == experiments[e].by = q /\ req[q].pc = "runs" /\ req[q].m.id = e
RowOK(e) ==
    /\ experiments[e].m.id = e
    /\ Gated(e)
    /\ experiments[e].answered => Whole(e)
    /\ \A q \in Requests : Writing(e, q) => req[q].m = experiments[e].m /\ RowsWritten(e, q)
RowInv == \A e \in ExpIds : experiments[e] # NoRow => RowOK(e)

LEMMA RowCreated ==
    ASSUME TypeOK, WayInv, CheckInv, RowInv, NEW q \in Requests, Handle(q),
           CreateExperiment(q), Written(q), UNCHANGED runs
    PROVE  RowInv'
<1> DEFINE m == req[q].m
<1>1. PICK e \in ExpIds : e = m.id
  BY DEF Written
<1>2. /\ m \in AnyMatrix /\ OnItsWay(req[q]) /\ Checked(req[q]) /\ Others(q) /\ Step(q)
      /\ req[q].pc = "insert" /\ req'[q].pc = "runs"
  BY Way DEF Written, TypeOK, Placed, HasMatrix, WayInv, CheckInv, Done, Idle
<1>3. req'[q].m = m /\ req'[q].plan = Expansion(m)
  BY <1>2 DEF Step, SameMatrix, Checked
<1>4. /\ experiments'[e].m = m /\ experiments'[e].by = q /\ ~experiments'[e].answered
      /\ experiments'[e].vetted = req[q].vetted /\ experiments'[e].skipped = req[q].skipped
      /\ \A f \in ExpIds : f # e => experiments'[f] = experiments[f]
  BY <1>1 DEF Written
<1>5. Gated(e)'
  <2>1. CASE e \notin SmokeIds
    <3>1. m \in Matrices
      BY <1>1, <1>2, <2>1, MatrixShape
    <3>2. m.unchecked \/ \A i \in DOMAIN m.strategies : Seen(m, i, req[q].skipped, req[q].vetted)
      BY <1>2, <3>1 DEF Checked, PastModels
    <3>3. Fits(m)
      BY <1>2, <3>1 DEF Checked, PastExts, PastModels
    <3>4. Named(e)' = {m.strategies[i] : i \in DOMAIN m.strategies}
      BY <1>4 DEF Named
    <3> HIDE DEF m
    <3> QED BY <1>4, <3>2, <3>3, <3>4 DEF Gated, Seen, Fits, ModelsOf, ExtsOf
  <2> QED BY <2>1 DEF Gated
<1>6. RowOK(e)'
  <2>1. experiments'[e].m.id = e
    BY <1>1, <1>4
  <2>2. ASSUME NEW p \in Requests, Writing(e, p)'
        PROVE  req'[p].m = experiments'[e].m /\ RowsWritten(e, p)'
    BY <1>3, <1>4, <2>2 DEF Writing, RowsWritten
  <2> QED BY <1>4, <1>5, <2>1, <2>2 DEF RowOK
<1>7. ASSUME NEW f \in ExpIds, f # e, experiments'[f] # NoRow
      PROVE  RowOK(f)'
  <2>1. experiments'[f] = experiments[f] /\ RowOK(f)
    BY <1>4, <1>7 DEF RowInv
  <2>2. ASSUME NEW p \in Requests, Writing(f, p)'
        PROVE  req'[p].m = experiments'[f].m /\ RowsWritten(f, p)'
    <3>1. p # q
      BY <1>1, <1>3, <1>7, <2>2 DEF Writing
    <3>2. req'[p] = req[p]
      BY <1>2, <3>1 DEF Others
    <3> QED BY <2>1, <2>2, <3>2 DEF RowOK, Writing, RowsWritten
  <2> QED BY <2>1, <2>2 DEF RowOK, Gated, Whole, Named
<1> QED BY <1>6, <1>7 DEF RowInv

LEMMA RowAnswered ==
    ASSUME TypeOK, RowInv, NEW q \in Requests, Answer(q), \A e \in ExpIds : Kept(e),
           UNCHANGED runs
    PROVE  RowInv'
<1>1. Others(q) /\ req'[q] = Done /\ req[q].pc = "runs" /\ req[q].plan = {}
  BY EndWay DEF Answer
<1> SUFFICES ASSUME NEW e \in ExpIds, experiments'[e] # NoRow PROVE RowOK(e)'
  BY DEF RowInv
<1>2. /\ experiments[e] # NoRow /\ experiments'[e].m = experiments[e].m
      /\ experiments'[e].by = experiments[e].by
      /\ experiments'[e].vetted = experiments[e].vetted
      /\ experiments'[e].skipped = experiments[e].skipped /\ RowOK(e)
  BY DEF Kept, RowInv
<1>3. CASE req[q].m.id = e /\ experiments[e].by = q
  <2>1. Writing(e, q)
    BY <1>1, <1>3 DEF Writing
  <2>2. Whole(e)
    BY <1>1, <1>2, <2>1 DEF RowOK, RowsWritten, Whole
  <2> QED BY <1>1, <1>2, <2>2
          DEF RowOK, Whole, Gated, Named, Writing, RowsWritten, Others, Done, Idle
<1>4. CASE ~(req[q].m.id = e /\ experiments[e].by = q)
  <2>1. experiments'[e] = experiments[e]
    BY <1>2, <1>4 DEF Answer, TypeOK
  <2> QED BY <1>1, <1>2, <2>1
          DEF RowOK, Whole, Gated, Named, Writing, RowsWritten, Others, Done, Idle
<1> QED BY <1>3, <1>4

LEMMA RowSame ==
    ASSUME TypeOK, RowInv, NEW q \in Requests, Handle(q), UNCHANGED experiments, ~Answer(q),
           CreateExperiment(q) => End(q)
    PROVE  RowInv'
<1> SUFFICES ASSUME NEW e \in ExpIds, experiments[e] # NoRow PROVE RowOK(e)'
  BY DEF RowInv
<1>1. RowOK(e) /\ Others(q)
  BY Way DEF RowInv
<1>2. runs \subseteq runs'
  BY DEF Handle, CollectModels, Preview, Language, ReadRegistry, ReadDataset, CreateRun,
         CreateExperiment, Answer, SmokeNamed, LookForSmoke, AddStrategy, LookForReferences,
         RemoveStrategy, InsertRun
<1>3. ASSUME Writing(e, q)'
      PROVE  req'[q].m = experiments[e].m /\ RowsWritten(e, q)'
  <2>1. Step(q) /\ req'[q].pc = "runs"
    BY <1>3, Way DEF Writing, Done, Idle
  <2>2. req[q].pc \in {"insert", "runs"}
    BY <2>1 DEF Step, Paths
  <2>3. req[q].pc # "insert"
    <3>1. ASSUME req[q].pc = "insert" PROVE FALSE
      <4>1. CreateExperiment(q)
        BY <3>1 DEF Handle, CollectModels, Preview, Language, ReadRegistry, ReadDataset, CreateRun,
           Answer, SmokeNamed, LookForSmoke, AddStrategy, LookForReferences, RemoveStrategy
      <4>2. ~End(q)
        BY <2>1, EndWay DEF Done, Idle
      <4> QED BY <4>1, <4>2
    <3> QED BY <3>1
  <2>4. CreateRun(q)
    BY <2>2, <2>3 DEF Handle, CollectModels, Preview, Language, ReadRegistry, ReadDataset,
         CreateExperiment, Answer, SmokeNamed, LookForSmoke, AddStrategy, LookForReferences,
         RemoveStrategy
  <2>5. PICK c \in req[q].plan : /\ runs' = runs \cup {RunRow(req[q].m, c)}
                                /\ Set(q, [req[q] EXCEPT !.plan = @ \ {c}])
    <3>1. ~End(q)
      BY <2>1, EndWay DEF Done, Idle
    <3> QED BY <2>4, <3>1 DEF CreateRun, InsertRun
  <2>6. req'[q].plan = req[q].plan \ {c} /\ req'[q].m = req[q].m
    BY <2>5, SetWay DEF TypeOK, Request
  <2>7. Writing(e, q)
    BY <1>3, <2>4, <2>6 DEF Writing, CreateRun
  <2>8. req[q].m = experiments[e].m /\ RowsWritten(e, q)
    BY <1>1, <2>7 DEF RowOK
  <2> QED BY <1>2, <2>5, <2>6, <2>8 DEF RowsWritten
<1>4. ASSUME NEW p \in Requests, Writing(e, p)'
      PROVE  req'[p].m = experiments[e].m /\ RowsWritten(e, p)'
  <2>1. CASE p = q
    BY <1>3, <1>4, <2>1
  <2>2. CASE p # q
    BY <1>1, <1>2, <1>4, <2>2 DEF Others, RowOK, Writing, RowsWritten
  <2> QED BY <2>1, <2>2
<1> QED BY <1>1, <1>2, <1>4 DEF RowOK, Gated, Whole, Named

LEMMA RowAround ==
    ASSUME TypeOK, RowInv, Around
    PROVE  RowInv'
<1> SUFFICES ASSUME NEW e \in ExpIds, experiments'[e] # NoRow PROVE RowOK(e)'
  BY DEF RowInv
<1>1. /\ experiments[e] # NoRow /\ experiments'[e].m = experiments[e].m
      /\ experiments'[e].by = experiments[e].by
      /\ experiments'[e].vetted = experiments[e].vetted
      /\ experiments'[e].skipped = experiments[e].skipped
      /\ experiments'[e].answered = experiments[e].answered /\ RowOK(e)
  BY RowsAround DEF Kept, RowInv
<1>2. \A c : RunRow(experiments[e].m, c) \in runs => RunRow(experiments[e].m, c) \in runs'
  <2>1. CASE \E f \in ExpIds : DeleteExperiment(f)
    <3>1. PICK f \in ExpIds : DeleteExperiment(f)
      BY <2>1
    <3>2. f # e
      BY <3>1 DEF DeleteExperiment, TypeOK
    <3>3. \A c : RunRow(experiments[e].m, c).id[1] = e
      BY <1>1 DEF RunRow, RunId, RowOK
    <3> QED BY <3>1, <3>2, <3>3 DEF DeleteExperiment
  <2>2. CASE UNCHANGED runs
    BY <2>2
  <2> QED BY <2>1, <2>2 DEF Around, Progress, CatalogMoves, Tick, Restart
<1>3. \A p \in Requests : req'[p] = req[p] \/ req'[p].pc # "runs"
  BY DEF Around, Progress, DeleteExperiment, CatalogMoves, Tick, Restart, Idle, Done
<1> QED BY <1>1, <1>2, <1>3 DEF RowOK, Gated, Whole, Named, Writing, RowsWritten

LEMMA RowStep == TypeOK /\ WayInv /\ CheckInv /\ RowInv /\ [Next]_vars => RowInv'
<1> SUFFICES ASSUME TypeOK, WayInv, CheckInv, RowInv, [Next]_vars PROVE RowInv'
  OBVIOUS
<1>1. CASE UNCHANGED vars
  BY <1>1 DEF vars, RowInv, RowOK, Gated, Whole, Named, Writing, RowsWritten
<1>2. ASSUME NEW q \in Requests, Handle(q) PROVE RowInv'
  BY <1>2, RowsOfHandler, RowCreated, RowAnswered, RowSame
<1>3. ASSUME NEW q \in Requests, Arrive(q) PROVE RowInv'
  <2>1. UNCHANGED <<experiments, runs>>
    BY <1>3 DEF Arrive, SubmitBegins, SmokeBegins, CreateBegins, DeleteBegins
  <2>2. \E r : Set(q, r) /\ r.pc # "runs"
    <3>1. CASE \E m \in Matrices : SubmitBegins(q, m)
      <4>1. PICK m \in Matrices : SubmitBegins(q, m)
        BY <3>1
      <4>2. [Idle EXCEPT !.op = "submit", !.m = m, !.asked = m.verifier,
                         !.pc = IF m.unchecked THEN "preview" ELSE "models"].pc # "runs"
        BY DEF Idle
      <4> QED BY <4>1, <4>2 DEF SubmitBegins
    <3>2. CASE SmokeBegins(q)
      <4>1. [Idle EXCEPT !.op = "smoke", !.pc = "smoke"].pc # "runs"
        BY DEF Idle
      <4> QED BY <3>2, <4>1 DEF SmokeBegins
    <3>3. CASE \E s \in User : CreateBegins(q, s) \/ DeleteBegins(q, s)
      <4>1. PICK s \in User : CreateBegins(q, s) \/ DeleteBegins(q, s)
        BY <3>3
      <4>2. /\ Done.pc # "runs"
            /\ [Idle EXCEPT !.op = "create", !.s = s, !.pc = "add"].pc # "runs"
            /\ [Idle EXCEPT !.op = "delete", !.s = s, !.pc = "references"].pc # "runs"
        BY DEF Idle, Done
      <4> QED BY <4>1, <4>2 DEF CreateBegins, DeleteBegins
    <3> QED BY <1>3, <3>1, <3>2, <3>3 DEF Arrive
  <2>3. Others(q) /\ req'[q].pc # "runs"
    BY <2>2, SetWay
  <2> QED BY <2>1, <2>3 DEF RowInv, RowOK, Gated, Whole, Named, Writing, RowsWritten, Others
<1> QED BY <1>1, <1>2, <1>3, RowAround DEF Next

LEMMA RowInit == Init => RowInv
  BY DEF Init, RowInv

\* A submission that was answered with 201 has every run of its matrix, and each
\* was through every gate, whatever interleaved with it.
THEOREM AnswersAreWhole == Spec => []AnsweredInFull
<1>1. RowInv => AnsweredInFull
  BY DEF RowInv, RowOK, AnsweredInFull
<1> QED BY <1>1, RowInit, RowStep, CheckInit, CheckStep, WayInit, WayStep, TypeInit, TypeStep,
           PTL DEF Spec
=============================================================================
