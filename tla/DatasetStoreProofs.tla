------------------------- MODULE DatasetStoreProofs -------------------------
(***************************************************************************)
(* Types, recipes and labels of DatasetStore, for any datasets, templates, *)
(* requests, restarts and changes of the templates.                        *)
(***************************************************************************)
EXTENDS DatasetStore, TLAPS

LEMMA NameParts ==
    ASSUME NEW n \in Names
    PROVE  /\ n \in Sources \/ n \in Derived
           /\ n \in Derived => BaseOf(n) \in Names /\ TemplateOf(n) \in Templates
           /\ n \in Sources => n \notin Derived
  BY ConstantsAssumption DEF Names, Sources, BaseOf, TemplateOf

LEMMA Trees ==
    /\ Zero \in Counts
    /\ \A w \in {"origin", "tip", "archive", "partial"} : Clean(w) \in Content
    /\ \A n \in Names : Pristine(n) \in Content
    /\ \A c \in Content, t \in Templates : Marked(c, t) \in Content
  BY DEF Clean, Pristine, Marked, Content, Counts, Zero

LEMMA Rests == Idle \in Request /\ Done \in Request /\ Done.pc = "done" /\ Done.op = "none"
<1>1. <<>> \in Seq(Derived)
  OBVIOUS
<1> QED BY <1>1 DEF Idle, Done, Request

\* A step of one request leaves every request well formed.
LEMMA RequestStep ==
    ASSUME TypeOK, NEW q \in Requests,
           \/ End(q)
           \/ \E pc \in {"stamp", "label"} : Goto(q, pc)
           \/ \E op \in {"import", "inject", "materialize"}, n \in Names,
                 pc \in {"create", "build"}, c \in Cves \cup {Nobody} : Begin(q, op, n, pc, c)
    PROVE  req' \in [Requests -> Request]
<1>1. CASE End(q)
  BY <1>1, Rests DEF TypeOK, End
<1>2. CASE \E pc \in {"stamp", "label"} : Goto(q, pc)
  <2>1. PICK pc \in {"stamp", "label"} : Goto(q, pc)
    BY <1>2
  <2>2. req[q] \in Request
    BY DEF TypeOK
  <2>3. [req[q] EXCEPT !.pc = pc] \in Request
    BY <2>2 DEF Request
  <2> QED BY <2>1, <2>3 DEF TypeOK, Goto
<1>3. CASE \E op \in {"import", "inject", "materialize"}, n \in Names,
              pc \in {"create", "build"}, c \in Cves \cup {Nobody} : Begin(q, op, n, pc, c)
  BY <1>3 DEF TypeOK, Begin, Request
<1> QED BY <1>1, <1>2, <1>3

\* So does the return from a recursive call, and the call.
LEMMA ReturnStep ==
    ASSUME TypeOK, NEW q \in Requests, req[q].calls # <<>>,
           req' = [req EXCEPT ![q] = [req[q] EXCEPT !.pc = "derive", !.on = Head(req[q].calls),
                                                    !.calls = Tail(req[q].calls)]]
    PROVE  req' \in [Requests -> Request]
<1>1. req[q] \in Request /\ req[q].calls \in Seq(Derived)
  BY DEF TypeOK, Request
<1>2. Head(req[q].calls) \in Names /\ Tail(req[q].calls) \in Seq(Derived)
  BY <1>1 DEF Names
<1> DEFINE r == [req[q] EXCEPT !.pc = "derive", !.on = Head(req[q].calls),
                               !.calls = Tail(req[q].calls)]
<1>3. r \in Request
  BY <1>1, <1>2 DEF Request
<1> QED BY <1>3 DEF TypeOK

LEMMA CallStep ==
    ASSUME TypeOK, NEW q \in Requests, NeedBase(q)
    PROVE  req' \in [Requests -> Request]
<1>1. req[q] \in Request /\ req[q].on \in Derived /\ req[q].calls \in Seq(Derived)
  BY DEF TypeOK, Request, NeedBase
<1>2. BaseOf(req[q].on) \in Names
  BY <1>1, NameParts DEF Names
<1>3. <<req[q].on>> \o req[q].calls \in Seq(Derived)
  BY <1>1
<1> DEFINE r == [req[q] EXCEPT !.on = BaseOf(req[q].on), !.calls = <<req[q].on>> \o @]
<1>4. r \in Request
  BY <1>1, <1>2, <1>3 DEF Request
<1>5. req' = [req EXCEPT ![q] = r]
  BY DEF NeedBase
<1> HIDE DEF r
<1> QED BY <1>4, <1>5 DEF TypeOK

\* What a request is about, by the place where it is.
WellFormed(r) ==
    /\ r.op = "import" => r.on \in Gits /\ r.cve \in Cves
    /\ r.op = "inject" => r.on \in Derived
    /\ r.pc \in {"create", "label"} => r.op \in {"import", "inject"}
    /\ r.pc \in {"build", "derive"} => r.op = "materialize"
    /\ r.pc = "stamp" => r.op # "none"
Shaped == \A q \in Requests : WellFormed(req[q])

LEMMA TypeInit == Init => TypeOK
  BY ConstantsAssumption, Trees DEF Init, TypeOK, Row, Request, Idle, Target

\* What Deriving says of the two trees.
LEMMA DerivingType ==
    ASSUME TypeOK, NEW q \in Requests, Deriving(q)
    PROVE  /\ req[q].on \in Derived /\ req[q].on \in Names
           /\ Copied(req[q].on) \in Content
           /\ Marked(Copied(req[q].on), TemplateOf(req[q].on)) \in Content
<1>1. req[q].on \in Derived /\ req[q].on \in Names
  BY DEF Deriving, Names
<1>2. Copied(req[q].on) \in Content
  BY <1>1, NameParts DEF Deriving, Copied, TypeOK
<1> QED BY <1>1, <1>2, NameParts, Trees

LEMMA BrokenType ==
    ASSUME TypeOK, NEW q \in Requests, Deriving(q)
    PROVE  \A c \in Broken(req[q].on) : c \in Content \cup {Absent}
<1>1. Copied(req[q].on) \in Content
  BY DerivingType
<1>2. [Copied(req[q].on) EXCEPT !.at = "partial"] \in Content
  BY <1>1 DEF Content
<1> QED BY <1>1, <1>2 DEF Broken

LEMMA TypeBecomes ==
    ASSUME TypeOK, NEW d \in Derived, NEW c \in Content \cup {Absent}, Becomes(d, c)
    PROVE  own' \in [Names -> Content \cup {Absent}] /\ since' \in [Derived -> Counts]
  BY Trees DEF TypeOK, Becomes

LEMMA TypeFetch ==
    ASSUME TypeOK, NEW q \in Requests, NEW n, FetchTree(q, n, "stamp")
    PROVE  own' \in [Names -> Content \cup {Absent}] /\ req' \in [Requests -> Request]
<1>1. [own EXCEPT ![n] = Pristine(n)] \in [Names -> Content \cup {Absent}]
  BY Trees DEF TypeOK
<1>2. End(q) \/ Goto(q, "stamp")
  BY DEF FetchTree
<1> QED BY <1>1, <1>2, RequestStep DEF FetchTree, TypeOK

LEMMA TearsTyped ==
    ASSUME TypeOK, TearsOwn
    PROVE  own' \in [Names -> Content \cup {Absent}] /\ since' \in [Derived -> Counts]
<1>1. ASSUME NEW n \in Gits, own' = [own EXCEPT ![n] = Clean("tip")], UNCHANGED since
      PROVE  own' \in [Names -> Content \cup {Absent}] /\ since' \in [Derived -> Counts]
  BY <1>1, Trees DEF TypeOK
<1>2. ASSUME NEW d \in Derived, Copying(d), NEW c \in Broken(d), Becomes(d, c)
      PROVE  own' \in [Names -> Content \cup {Absent}] /\ since' \in [Derived -> Counts]
  BY <1>2, BrokenType, TypeBecomes DEF Copying
<1> QED BY <1>1, <1>2 DEF TearsOwn

LEMMA Injection ==
    ASSUME TypeOK, NEW q \in Requests, NEW d \in Derived, InjectFiles(q, d)
    PROVE  /\ own' \in [Names -> Content \cup {Absent}]
           /\ since' \in [Derived -> Counts]
           /\ req' \in [Requests -> Request]
<1>1. d \in Names /\ BaseOf(d) \in Names /\ TemplateOf(d) \in Templates
  BY NameParts DEF Names
<1>2. own[BaseOf(d)] \in Content
  BY <1>1 DEF InjectFiles, TypeOK
<1>3. own' \in [Names -> Content \cup {Absent}]
  BY <1>1, <1>2, Trees DEF InjectFiles, TypeOK
<1>4. \A b \in Derived : [since[b] EXCEPT ![TemplateOf(d)] = @ + 1] \in Counts
  BY <1>1 DEF TypeOK, Counts
<1>5. since' \in [Derived -> Counts]
  BY <1>4 DEF InjectFiles, TypeOK
<1> QED BY <1>1, <1>3, <1>5, RequestStep DEF InjectFiles

LEMMA TypeStep == TypeOK /\ Shaped /\ [Next]_vars => TypeOK'
<1> SUFFICES ASSUME TypeOK, Shaped, [Next]_vars PROVE TypeOK'
  OBVIOUS
<1>1. CASE UNCHANGED vars
  BY <1>1 DEF vars, TypeOK
<1>2. CASE Restart
  <2>1. own' \in [Names -> Content \cup {Absent}] /\ since' \in [Derived -> Counts]
    BY <1>2, TearsTyped DEF Restart, TypeOK
  <2>2. targets' \in [Names -> Target]
    <3>1. \A n \in Names : targets[n] \cup {"torn"} \in Target
      BY DEF TypeOK, Target
    <3>2. UNCHANGED targets \/ \E g \in Gits : targets' = [targets EXCEPT ![g] = @ \cup {"torn"}]
      BY <1>2 DEF Restart
    <3> QED BY <3>1, <3>2 DEF TypeOK
  <2>3. req' \in [Requests -> Request] /\ restarts' \in 0..MaxRestarts
    BY <1>2, ConstantsAssumption, Rests DEF Restart, TypeOK
  <2> QED BY <1>2, <2>1, <2>2, <2>3 DEF Restart, TypeOK
<1>3. ASSUME NEW q \in Requests, Arrive(q)
      PROVE  TypeOK'
  <2>1. CASE \E g \in Gits, c \in Cves : ImportFiles(q, g, c)
    <3>1. targets' \in [Names -> Target]
      <4>1. \A n \in Names, c \in Cves : targets[n] \cup {c} \in Target
        BY DEF TypeOK, Target
      <4>2. PICK g \in Gits, c \in Cves : targets' = [targets EXCEPT ![g] = targets[g] \cup {c}]
        BY <2>1 DEF ImportFiles
      <4>3. targets[g] \cup {c} \in Target
        BY <4>1 DEF Names, Sources
      <4> QED BY <4>2, <4>3 DEF TypeOK
    <3>2. req' \in [Requests -> Request]
      BY <2>1, RequestStep DEF ImportFiles, Names, Sources
    <3> QED BY <2>1, <3>1, <3>2 DEF ImportFiles, TypeOK
  <2>2. CASE \E d \in Derived : InjectFiles(q, d)
    BY <2>2, Injection DEF InjectFiles, TypeOK
  <2>3. CASE \E n \in Names : Materialize(q, n)
    BY <2>3, RequestStep DEF Materialize, TypeOK
  <2> QED BY <1>3, <2>1, <2>2, <2>3 DEF Arrive
<1>4. ASSUME NEW q \in Requests, Step(q)
      PROVE  TypeOK'
  <2>0. req[q] \in Request
    BY DEF TypeOK
  <2>1. CASE CreateRow(q)
    <3>1. rows' \in [Names -> Row \cup {NoRow}]
      <4>1. NewRow(q) \in Row
        BY <2>0 DEF TypeOK, Row, NewRow, Request
      <4>2. UNCHANGED rows \/ rows' = [rows EXCEPT ![req[q].on] = NewRow(q)]
        BY <2>1 DEF CreateRow
      <4> QED BY <4>1, <4>2 DEF TypeOK
    <3>2. req' \in [Requests -> Request]
      BY <2>1, RequestStep DEF CreateRow
    <3> QED BY <2>1, <3>1, <3>2 DEF CreateRow, TypeOK
  <2>2. CASE Stamp(q)
    <3>1. rows' \in [Names -> Row \cup {NoRow}]
      <4>1. \A n \in Names : rows[n] # NoRow => [rows[n] EXCEPT !.stamped = TRUE] \in Row
        BY DEF TypeOK, Row
      <4>2. \/ rows' = [rows EXCEPT ![req[q].on] = NoRow] /\ rows[req[q].on] = NoRow
            \/ /\ rows[req[q].on] # NoRow
               /\ rows' = [rows EXCEPT ![req[q].on] = [rows[req[q].on] EXCEPT !.stamped = TRUE]]
        BY <2>2 DEF Stamp
      <4> QED BY <4>1, <4>2 DEF TypeOK
    <3>2. req' \in [Requests -> Request]
      BY <2>2, RequestStep, ReturnStep DEF Stamp
    <3> QED BY <2>2, <3>1, <3>2 DEF Stamp, TypeOK
  <2>3. CASE AppendLabels(q)
    <3>1. Label(req[q]) \in Templates \cup Cves
      BY <2>3, NameParts DEF AppendLabels, Shaped, WellFormed, Label, Names
    <3>2. labels' \in [Names -> SUBSET (Templates \cup Cves)]
      <4>1. UNCHANGED labels \/ labels' = [labels EXCEPT ![req[q].on] = @ \cup {Label(req[q])}]
        BY <2>3 DEF AppendLabels
      <4> QED BY <3>1, <4>1 DEF TypeOK
    <3> QED BY <2>3, <3>2, RequestStep DEF AppendLabels, TypeOK
  <2>4. CASE BuildSource(q)
    <3>1. own' \in [Names -> Content \cup {Absent}] /\ req' \in [Requests -> Request]
      BY <2>4, TypeFetch DEF BuildSource
    <3> QED BY <2>4, <3>1 DEF BuildSource, TypeOK
  <2>5. CASE NeedBase(q)
    BY <2>5, CallStep DEF NeedBase, TypeOK
  <2>6. CASE Derive(q)
    <3>1. own' \in [Names -> Content \cup {Absent}] /\ since' \in [Derived -> Counts]
      BY <2>6, DerivingType, BrokenType, TypeBecomes DEF Derive, TypeOK
    <3> QED BY <2>6, <3>1, RequestStep DEF Derive, TypeOK
  <2> QED BY <1>4, <2>1, <2>2, <2>3, <2>4, <2>5, <2>6 DEF Step
<1> QED BY <1>1, <1>2, <1>3, <1>4 DEF Next

LEMMA ShapedInit == Init => Shaped
  BY DEF Init, Shaped, WellFormed, Idle

LEMMA ShapedStep == TypeOK /\ Shaped /\ [Next]_vars => Shaped'
<1> SUFFICES ASSUME TypeOK, Shaped, [Next]_vars PROVE Shaped'
  OBVIOUS
<1>1. CASE UNCHANGED vars
  BY <1>1 DEF vars, Shaped
<1>2. CASE Restart
  BY <1>2 DEF Restart, Shaped, WellFormed, Idle, Done
<1>3. ASSUME NEW q \in Requests, Arrive(q)
      PROVE  Shaped'
  <2>1. ASSUME NEW g \in Gits, NEW c \in Cves, Begin(q, "import", g, "create", c)
        PROVE  Shaped'
    BY <2>1 DEF Begin, Shaped, WellFormed, TypeOK
  <2>2. ASSUME NEW d \in Derived, Begin(q, "inject", d, "create", Nobody)
        PROVE  Shaped'
    BY <2>2 DEF Begin, Shaped, WellFormed, TypeOK
  <2>3. ASSUME NEW n \in Names, Begin(q, "materialize", n, "build", Nobody)
        PROVE  Shaped'
    BY <2>3 DEF Begin, Shaped, WellFormed, TypeOK
  <2> QED BY <1>3, <2>1, <2>2, <2>3 DEF Arrive, ImportFiles, InjectFiles, Materialize
<1>4. ASSUME NEW q \in Requests, Step(q)
      PROVE  Shaped'
  <2>0. req[q] \in Request /\ WellFormed(req[q])
    BY DEF TypeOK, Shaped
  <2>1. \A p \in Requests : p # q => req'[p] = req[p]
    BY <1>4 DEF Step, CreateRow, Stamp, AppendLabels, BuildSource, NeedBase, Derive, FetchTree,
                Goto, End, TypeOK
  <2>2. CASE End(q)
    BY <2>2 DEF End, Done, Idle, Shaped, WellFormed, TypeOK
  <2>3. CASE Goto(q, "stamp") /\ req[q].pc \in {"create", "build", "derive"}
    BY <2>0, <2>1, <2>3 DEF Goto, Shaped, WellFormed, TypeOK, Request
  <2>4. CASE Goto(q, "label") /\ req[q].pc = "stamp" /\ req[q].op # "materialize"
    BY <2>0, <2>1, <2>4 DEF Goto, Shaped, WellFormed, TypeOK, Request
  <2>5. CASE /\ req[q].op = "materialize"
             /\ req' = [req EXCEPT ![q] = [req[q] EXCEPT !.pc = "derive", !.on = Head(req[q].calls),
                                                         !.calls = Tail(req[q].calls)]]
    <3>2. req'[q].op = "materialize" /\ req'[q].pc = "derive"
      BY <2>0, <2>5 DEF TypeOK, Request
    <3>3. WellFormed(req'[q])
      BY <3>2 DEF WellFormed
    <3> QED BY <2>1, <3>3 DEF Shaped, WellFormed
  <2>6. CASE NeedBase(q)
    <3>1. req[q].pc = "build"
          /\ req' = [req EXCEPT ![q] = [req[q] EXCEPT !.on = BaseOf(req[q].on),
                                                      !.calls = <<req[q].on>> \o @]]
      BY <2>6 DEF NeedBase
    <3>2. req'[q].op = req[q].op /\ req'[q].pc = "build"
      BY <2>0, <3>1 DEF TypeOK, Request
    <3>3. WellFormed(req'[q])
      BY <2>0, <3>1, <3>2 DEF WellFormed
    <3> QED BY <2>1, <3>3 DEF Shaped, WellFormed
  <2>7. CASE CreateRow(q) \/ AppendLabels(q)
    BY <2>2, <2>3, <2>7 DEF CreateRow, AppendLabels
  <2>8. CASE BuildSource(q)
    BY <2>2, <2>3, <2>8 DEF BuildSource, FetchTree
  <2>9. CASE Derive(q)
    BY <2>2, <2>3, <2>9 DEF Derive, Deriving
  <2>10. CASE Stamp(q)
    BY <2>2, <2>4, <2>5, <2>10 DEF Stamp
  <2> QED BY <1>4, <2>6, <2>7, <2>8, <2>9, <2>10 DEF Step
<1> QED BY <1>1, <1>2, <1>3, <1>4 DEF Next

TypeInv == TypeOK /\ Shaped

LEMMA TypeInvStep == TypeInv /\ [Next]_vars => TypeInv'
  BY TypeStep, ShapedStep DEF TypeInv

\* Tables, trees and requests keep the shape the code gives them.
THEOREM TypeCorrect == Spec => []TypeOK
<1>1. Spec => []TypeInv
  <2>1. Init => TypeInv
    BY TypeInit, ShapedInit DEF TypeInv
  <2> QED BY <2>1, TypeInvStep, PTL DEF Spec
<1> QED BY <1>1, PTL DEF TypeInv

-----------------------------------------------------------------------------
(* How trees move *)

\* Trees and what was injected into them move together: a tree is marked once
\* more, a source tree appears, or a derived one becomes what its base is, with
\* its template at most once more.
Unmoved == own' = own /\ since' = since
TreeMarked(n, t) ==
    /\ own[n] # Absent /\ own' = [own EXCEPT ![n] = Marked(own[n], t)]
    /\ since' = [b \in Derived |-> IF b = n THEN [since[b] EXCEPT ![t] = @ + 1] ELSE since[b]]
SourceAppears(s, c) ==
    own[s] = Absent /\ own' = [own EXCEPT ![s] = c] /\ since' = since
Replayed(c, d) ==
    \A t \in Templates :
        c.marks[t] <= own[BaseOf(d)].marks[t] + (IF t = TemplateOf(d) THEN 1 ELSE 0)
DerivedBuilt(d, c) ==
    own[BaseOf(d)] # Absent /\ (c # Absent => Replayed(c, d)) /\ Becomes(d, c)
TreesMove == \/ Unmoved
             \/ \E n \in Names, t \in Templates : TreeMarked(n, t)
             \/ \E s \in Sources, c \in Content : SourceAppears(s, c)
             \/ \E d \in Derived, c \in Content \cup {Absent} : DerivedBuilt(d, c)

LEMMA CopyIsReplayed ==
    ASSUME TypeOK, NEW d \in Derived, own[BaseOf(d)] # Absent
    PROVE  /\ Marked(Copied(d), TemplateOf(d)) \in Content
           /\ Replayed(Marked(Copied(d), TemplateOf(d)), d)
           /\ \A c \in Broken(d) : c \in Content \cup {Absent} /\ (c # Absent => Replayed(c, d))
<1>1. d \in Names /\ BaseOf(d) \in Names /\ TemplateOf(d) \in Templates
  BY NameParts DEF Names
<1>2. Copied(d) \in Content /\ Copied(d) = own[BaseOf(d)]
  BY <1>1 DEF Copied, TypeOK
<1>3. Marked(Copied(d), TemplateOf(d)) \in Content
  BY <1>1, <1>2, Trees
<1>4. \A t \in Templates : Copied(d).marks[t] \in Nat
  BY <1>2 DEF Content, Counts
<1>5. \A t \in Templates : Marked(Copied(d), TemplateOf(d)).marks[t]
            = Copied(d).marks[t] + (IF t = TemplateOf(d) THEN 1 ELSE 0)
  BY <1>1, <1>2, <1>4 DEF Marked, Content, Counts
<1>6. [Copied(d) EXCEPT !.at = "partial"] \in Content
      /\ [Copied(d) EXCEPT !.at = "partial"].marks = Copied(d).marks
  BY <1>2 DEF Content
<1>7. \A t \in Templates : /\ own[BaseOf(d)].marks[t] \in Nat
                            /\ Copied(d).marks[t] = own[BaseOf(d)].marks[t]
  BY <1>2, <1>4
<1>8. Replayed(Marked(Copied(d), TemplateOf(d)), d)
  BY <1>5, <1>7 DEF Replayed
<1>9. Replayed(Copied(d), d) /\ Replayed([Copied(d) EXCEPT !.at = "partial"], d)
  BY <1>6, <1>7 DEF Replayed
<1> QED BY <1>2, <1>3, <1>6, <1>8, <1>9 DEF Broken

LEMMA MovesStep == TypeOK /\ [Next]_vars => TreesMove
<1> SUFFICES ASSUME TypeOK, [Next]_vars PROVE TreesMove
  OBVIOUS
<1>1. CASE UNCHANGED <<own, since>>
  BY <1>1 DEF TreesMove, Unmoved
<1>2. ASSUME NEW d \in Derived, Copying(d), NEW c \in Broken(d), Becomes(d, c)
      PROVE  TreesMove
  <2>1. own[BaseOf(d)] # Absent
    BY <1>2 DEF Copying, Deriving
  <2> QED BY <1>2, <2>1, CopyIsReplayed DEF TreesMove, DerivedBuilt
<1>3. CASE Restart
  BY <1>1, <1>2, <1>3, Trees
     DEF Restart, TearsOwn, Cloning, TreesMove, SourceAppears, Sources
<1>4. ASSUME NEW q \in Requests, NEW d \in Derived, InjectFiles(q, d)
      PROVE  TreesMove
  BY <1>4, NameParts DEF InjectFiles, TreesMove, TreeMarked, Names
<1>5. ASSUME NEW q \in Requests, BuildSource(q)
      PROVE  TreesMove
  BY <1>1, <1>5, Trees DEF BuildSource, FetchTree, TreesMove, SourceAppears, Names
<1>6. ASSUME NEW q \in Requests, Derive(q)
      PROVE  TreesMove
  <2>1. req[q].on \in Derived /\ own[BaseOf(req[q].on)] # Absent
    BY <1>6 DEF Derive, Deriving
  <2> QED BY <1>1, <1>6, <2>1, CopyIsReplayed DEF Derive, TreesMove, DerivedBuilt
<1> QED
  BY <1>1, <1>3, <1>4, <1>5, <1>6
     DEF Next, vars, Arrive, Step, ImportFiles, Materialize, CreateRow, Stamp,
         AppendLabels, NeedBase

\* Marks are counted with natural numbers, here and after the step.
MarksAreNat ==
    /\ \A n \in Names : own[n] # Absent => \A t \in Templates : own[n].marks[t] \in Nat
    /\ \A d \in Derived, t \in Templates : since[d][t] \in Nat
LEMMA Marks == TypeOK => MarksAreNat
  BY DEF TypeOK, MarksAreNat, Content, Counts

\* One tree, one template, one more.
LEMMA MarkedOnce ==
    ASSUME TypeOK, NEW n \in Names, NEW t \in Templates, TreeMarked(n, t)
    PROVE  /\ \A m \in Names : m # n => own'[m] = own[m]
           /\ own'[n] # Absent
           /\ \A u \in Templates : own'[n].marks[u] = own[n].marks[u] + (IF u = t THEN 1 ELSE 0)
           /\ \A b \in Derived, u \in Templates :
                 since'[b][u] = since[b][u] + (IF b = n /\ u = t THEN 1 ELSE 0)
<1>1. own[n] \in Content
  BY DEF TreeMarked, TypeOK
<1>2. own'[n] = Marked(own[n], t) /\ \A m \in Names : m # n => own'[m] = own[m]
  BY DEF TreeMarked, TypeOK
<1>3. Marked(own[n], t) # Absent
  BY <1>1, Trees, NullAssumption
<1>4. \A u \in Templates : Marked(own[n], t).marks[u] = own[n].marks[u] + (IF u = t THEN 1 ELSE 0)
  BY <1>1 DEF Marked, Content, Counts
<1>5. \A b \in Derived, u \in Templates :
         since'[b][u] = since[b][u] + (IF b = n /\ u = t THEN 1 ELSE 0)
  BY DEF TreeMarked, TypeOK, Counts
<1> QED BY <1>2, <1>3, <1>4, <1>5

\* A source tree that is there stays, and keeps what was injected.
SourcesGrow ==
    \A s \in Sources : own[s] # Absent =>
        own'[s] # Absent /\ \A t \in Templates : own'[s].marks[t] >= own[s].marks[t]

LEMMA SourcesOnlyGrow == TypeOK /\ TreesMove => SourcesGrow
<1> SUFFICES ASSUME TypeOK, TreesMove PROVE SourcesGrow
  OBVIOUS
<1>0. \A s \in Sources, t \in Templates : own[s] # Absent => own[s].marks[t] \in Nat
  BY Marks DEF MarksAreNat, Names
<1>1. CASE Unmoved
  BY <1>0, <1>1 DEF Unmoved, SourcesGrow
<1>2. ASSUME NEW n \in Names, NEW t \in Templates, TreeMarked(n, t)
      PROVE  SourcesGrow
  BY <1>0, <1>2, MarkedOnce DEF SourcesGrow, Names
<1>3. ASSUME NEW s \in Sources, NEW c \in Content, SourceAppears(s, c)
      PROVE  SourcesGrow
  BY <1>0, <1>3 DEF SourceAppears, SourcesGrow, TypeOK, Names
<1>4. ASSUME NEW d \in Derived, NEW c, DerivedBuilt(d, c)
      PROVE  SourcesGrow
  BY <1>0, <1>4, ConstantsAssumption DEF DerivedBuilt, Becomes, SourcesGrow, TypeOK, Names
<1> QED BY <1>1, <1>2, <1>3, <1>4 DEF TreesMove

-----------------------------------------------------------------------------
(* Recipes *)

RecipeInv == TypeInv /\ RecipeOnce
Within(d) == \A t \in Templates :
                own[d].marks[t] <= own[BaseOf(d)].marks[t] + since[d][t]
                                   + (IF t = TemplateOf(d) THEN 1 ELSE 0)

LEMMA RecipeStep == RecipeInv /\ [Next]_vars => RecipeInv'
<1> SUFFICES ASSUME RecipeInv, [Next]_vars PROVE RecipeInv'
  OBVIOUS
<1>1. TypeOK /\ TypeInv' /\ TreesMove /\ SourcesGrow
  BY TypeInvStep, MovesStep, SourcesOnlyGrow DEF RecipeInv, TypeInv
<1>2. ASSUME NEW d \in Derived, own'[d] # Absent, BaseOf(d) \in Sources
      PROVE  own'[BaseOf(d)] # Absent /\ Within(d)'
  <2>1. d \in Names /\ BaseOf(d) \in Names /\ d \notin Sources /\ d # BaseOf(d)
    BY <1>2, NameParts, ConstantsAssumption DEF Names
  <2>2. MarksAreNat /\ MarksAreNat'
    BY <1>1, Marks, TypeInvStep DEF MarksAreNat, TypeInv, TypeOK, Content, Counts
  <2>3. CASE own[d] # Absent /\ own'[d] = own[d] /\ since'[d] = since[d]
    <3>1. own[BaseOf(d)] # Absent /\ Within(d)
      BY <1>2, <2>3 DEF RecipeInv, RecipeOnce, Within
    <3>2. /\ own'[BaseOf(d)] # Absent
          /\ \A t \in Templates : own'[BaseOf(d)].marks[t] >= own[BaseOf(d)].marks[t]
      BY <1>1, <1>2, <3>1 DEF SourcesGrow
    <3> QED BY <1>2, <2>1, <2>2, <2>3, <3>1, <3>2 DEF Within, MarksAreNat
  <2>4. ASSUME NEW u \in Templates, TreeMarked(d, u)
        PROVE  own'[BaseOf(d)] # Absent /\ Within(d)'
    <3>1. own[BaseOf(d)] # Absent /\ Within(d)
      BY <1>2, <2>4 DEF TreeMarked, RecipeInv, RecipeOnce, Within
    <3>2. own'[BaseOf(d)] = own[BaseOf(d)]
      BY <1>1, <2>1, <2>4, MarkedOnce
    <3>3. \A t \in Templates :
            /\ own'[d].marks[t] = own[d].marks[t] + (IF t = u THEN 1 ELSE 0)
            /\ since'[d][t] = since[d][t] + (IF t = u THEN 1 ELSE 0)
      BY <1>1, <2>1, <2>4, MarkedOnce
    <3>4. own[d] # Absent
      BY <2>4 DEF TreeMarked
    <3> QED BY <1>2, <2>1, <2>2, <3>1, <3>2, <3>3, <3>4 DEF Within, MarksAreNat
  <2>5. ASSUME NEW c, DerivedBuilt(d, c)
        PROVE  own'[BaseOf(d)] # Absent /\ Within(d)'
    <3>1. own'[d] = c /\ own'[BaseOf(d)] = own[BaseOf(d)] /\ since'[d] = Zero
      BY <1>1, <2>1, <2>5 DEF DerivedBuilt, Becomes, TypeOK
    <3>2. own[BaseOf(d)] # Absent /\ Replayed(c, d)
      BY <1>2, <2>5, <3>1 DEF DerivedBuilt
    <3>3. \A t \in Templates : since'[d][t] = 0
      BY <3>1 DEF Zero
    <3> QED BY <1>2, <2>1, <2>2, <3>1, <3>2, <3>3 DEF Replayed, Within, MarksAreNat
  <2>6. ASSUME NEW n \in Names, n # d, NEW u \in Templates, TreeMarked(n, u)
        PROVE  own[d] # Absent /\ own'[d] = own[d] /\ since'[d] = since[d]
    BY <1>1, <1>2, <2>1, <2>6 DEF TreeMarked, TypeOK
  <2>7. ASSUME NEW s \in Sources, NEW c, SourceAppears(s, c)
        PROVE  own[d] # Absent /\ own'[d] = own[d] /\ since'[d] = since[d]
    BY <1>1, <1>2, <2>1, <2>7 DEF SourceAppears, TypeOK
  <2>8. ASSUME NEW x \in Derived, x # d, NEW c, DerivedBuilt(x, c)
        PROVE  own[d] # Absent /\ own'[d] = own[d] /\ since'[d] = since[d]
    BY <1>1, <1>2, <2>1, <2>8 DEF DerivedBuilt, Becomes, TypeOK
  <2>9. CASE Unmoved
    BY <1>2, <2>3, <2>9 DEF Unmoved
  <2> QED BY <1>1, <2>3, <2>4, <2>5, <2>6, <2>7, <2>8, <2>9 DEF TreesMove
<1> QED BY <1>1, <1>2 DEF RecipeInv, RecipeOnce, Within

LEMMA RecipeInit == Init => RecipeInv
  BY TypeInit, ShapedInit DEF Init, RecipeInv, TypeInv, RecipeOnce, Names

\* However a derived dataset is rebuilt, interrupted, raced or injected into, the
\* tree of one whose base is a git or archive dataset carries its recipe at most
\* once more than its base and what was put into it since.
THEOREM RecipesAreReplayedOnce == Spec => []RecipeOnce
<1>1. Spec => []RecipeInv
  BY RecipeInit, RecipeStep, PTL DEF Spec
<1> QED BY <1>1, PTL DEF RecipeInv

-----------------------------------------------------------------------------
(* Labels *)

\* The code a derived dataset's label speaks of is in its base, unless the base
\* was rebuilt since.
Evident(d) ==
    \/ own[BaseOf(d)] # Absent /\ own[BaseOf(d)].marks[TemplateOf(d)] > 0
    \/ BaseOf(d) \in Derived /\ since[BaseOf(d)][TemplateOf(d)] = 0

LEMMA EvidenceStays ==
    ASSUME TypeInv, [Next]_vars, NEW d \in Derived, Evident(d)
    PROVE  Evident(d)'
<1>1. TypeOK /\ TreesMove /\ MarksAreNat
  BY MovesStep, Marks DEF TypeInv
<1> DEFINE b == BaseOf(d)
           t == TemplateOf(d)
<1>2. b \in Names /\ t \in Templates /\ (b \in Sources \/ b \in Derived)
  BY NameParts DEF Names
<1>3. /\ own[b] # Absent => own[b].marks[t] \in Nat
      /\ b \in Derived => since[b][t] \in Nat
  BY <1>1, <1>2 DEF MarksAreNat
<1>4. \/ own[b] # Absent /\ own[b].marks[t] > 0
      \/ b \in Derived /\ since[b][t] = 0
  BY DEF Evident
<1>5. SUFFICES \/ own'[b] # Absent /\ own'[b].marks[t] > 0
               \/ b \in Derived /\ since'[b][t] = 0
  BY DEF Evident
<1> HIDE DEF b, t
<1>6. CASE Unmoved
  BY <1>4, <1>6 DEF Unmoved
<1>7. ASSUME NEW n \in Names, NEW u \in Templates, TreeMarked(n, u)
      PROVE  \/ own'[b] # Absent /\ own'[b].marks[t] > 0
             \/ b \in Derived /\ since'[b][t] = 0
  <2>1. CASE n # b
    <3>1. own'[b] = own[b]
      BY <1>1, <1>2, <1>7, <2>1, MarkedOnce
    <3>2. b \in Derived => since'[b][t] = since[b][t]
      BY <1>1, <1>2, <1>3, <1>7, <2>1, MarkedOnce
    <3> QED BY <1>4, <3>1, <3>2
  <2>2. CASE n = b
    <3>1. own'[b] # Absent /\ own[b] # Absent
          /\ own'[b].marks[t] = own[b].marks[t] + (IF t = u THEN 1 ELSE 0)
      <4>1. own[b] # Absent
        BY <1>7, <2>2 DEF TreeMarked
      <4>2. \A w \in Templates : own'[n].marks[w] = own[n].marks[w] + (IF w = u THEN 1 ELSE 0)
        BY <1>1, <1>7, MarkedOnce
      <4>3. own'[n] # Absent
        BY <1>1, <1>7, MarkedOnce
      <4> QED BY <1>2, <2>2, <4>1, <4>2, <4>3
    <3>2. b \in Derived => since'[b][t] = since[b][t] + (IF t = u THEN 1 ELSE 0)
      BY <1>1, <1>2, <1>7, <2>2, MarkedOnce
    <3> QED BY <1>3, <1>4, <3>1, <3>2
  <2> QED BY <2>1, <2>2
<1>8. ASSUME NEW s \in Sources, NEW c \in Content, SourceAppears(s, c)
      PROVE  \/ own'[b] # Absent /\ own'[b].marks[t] > 0
             \/ b \in Derived /\ since'[b][t] = 0
  BY <1>1, <1>2, <1>4, <1>8 DEF SourceAppears, TypeOK
<1>9. ASSUME NEW x \in Derived, NEW c, DerivedBuilt(x, c)
      PROVE  \/ own'[b] # Absent /\ own'[b].marks[t] > 0
             \/ b \in Derived /\ since'[b][t] = 0
  <2>1. CASE x # b
    BY <1>1, <1>2, <1>4, <1>9, <2>1 DEF DerivedBuilt, Becomes, TypeOK
  <2>2. CASE x = b
    BY <1>1, <1>2, <1>9, <2>2 DEF DerivedBuilt, Becomes, TypeOK, Zero
  <2> QED BY <2>1, <2>2
<1> QED BY <1>1, <1>6, <1>7, <1>8, <1>9 DEF TreesMove

\* What a request in the three writes at the end has behind it.
HasFiles(r) ==
    /\ r.op = "import" => r.cve \in targets[r.on]
    /\ (r.op = "import" /\ r.pc \in {"stamp", "label"}) =>
          rows[r.on] # NoRow /\ rows[r.on].cve = r.cve
    /\ r.op = "inject" => Evident(r.on)
Steps == {"create", "stamp", "label"}
FilesFirst == \A q \in Requests : req[q].pc \in Steps => HasFiles(req[q])

Behind(n) ==
    /\ (n \in Derived /\ TemplateOf(n) \in labels[n]) => Evident(n)
    /\ \A c \in labels[n] \cap Cves :
          rows[n] # NoRow /\ rows[n].cve = c /\ c \in targets[n]
LabelsBehind == \A n \in Names : Behind(n)

LabelInv == TypeInv /\ FilesFirst /\ LabelsBehind

LEMMA LabelInit == Init => LabelInv
  BY TypeInit, ShapedInit
     DEF Init, LabelInv, TypeInv, FilesFirst, LabelsBehind, Behind, Idle, Steps

\* Trees under targets/ are only added, and a row keeps its CVE.
TablesGrow ==
    /\ \A n \in Names : targets[n] \subseteq targets'[n]
    /\ \A n \in Names : rows[n] # NoRow => rows'[n] # NoRow /\ rows'[n].cve = rows[n].cve

LEMMA TablesStep == TypeInv /\ [Next]_vars => TablesGrow
<1> SUFFICES ASSUME TypeInv, [Next]_vars PROVE TablesGrow
  OBVIOUS
<1>1. \A n \in Names : targets[n] \subseteq targets'[n]
  BY DEF Next, vars, Arrive, Step, ImportFiles, InjectFiles, Materialize, CreateRow, Stamp,
         AppendLabels, BuildSource, NeedBase, Derive, Restart, TypeInv, TypeOK
<1>2. \/ UNCHANGED rows
      \/ \E q \in Requests : CreateRow(q) \/ Stamp(q)
  BY DEF Next, vars, Arrive, Step, ImportFiles, InjectFiles, Materialize,
         AppendLabels, BuildSource, NeedBase, Derive, Restart
<1>3. ASSUME NEW q \in Requests, CreateRow(q), NEW n \in Names, rows[n] # NoRow
      PROVE  rows'[n] = rows[n]
  BY <1>3 DEF CreateRow, TypeInv, TypeOK
<1>4. ASSUME NEW q \in Requests, Stamp(q), NEW n \in Names, rows[n] # NoRow
      PROVE  rows'[n] # NoRow /\ rows'[n].cve = rows[n].cve
  <2>1. rows[n] \in Row
    BY <1>4 DEF TypeInv, TypeOK
  <2>2. rows'[n] = rows[n] \/ rows'[n] = [rows[n] EXCEPT !.stamped = TRUE]
    BY <1>4 DEF Stamp, TypeInv, TypeOK
  <2>3. [rows[n] EXCEPT !.stamped = TRUE] \in Row
        /\ [rows[n] EXCEPT !.stamped = TRUE].cve = rows[n].cve
    BY <2>1 DEF Row
  <2> QED BY <1>4, <2>2, <2>3, NullAssumption
<1> QED BY <1>1, <1>2, <1>3, <1>4 DEF TablesGrow

LEMMA FilesStep == LabelInv /\ [Next]_vars => FilesFirst'
<1> SUFFICES ASSUME LabelInv, [Next]_vars, NEW p \in Requests, req'[p].pc \in Steps
             PROVE  HasFiles(req[p])'
  BY DEF FilesFirst
<1>0. TablesGrow /\ TypeOK /\ TypeOK' /\ WellFormed(req[p])
  BY TablesStep, TypeInvStep DEF LabelInv, TypeInv, Shaped
<1>1. ASSUME req'[p].op = req[p].op, req'[p].on = req[p].on, req'[p].cve = req[p].cve,
             HasFiles(req[p]),
             req[p].op = "import" /\ req'[p].pc \in {"stamp", "label"} =>
                rows'[req[p].on] # NoRow /\ rows'[req[p].on].cve = req[p].cve
      PROVE  HasFiles(req[p])'
  <2>1. req[p].op = "inject" => Evident(req[p].on)'
    BY <1>0, <1>1, EvidenceStays DEF LabelInv, HasFiles, WellFormed
  <2>2. req[p].op = "import" => req[p].cve \in targets'[req[p].on]
    BY <1>0, <1>1 DEF TablesGrow, HasFiles, WellFormed, Names, Sources
  <2> QED BY <1>1, <2>1, <2>2 DEF HasFiles, Evident
<1>2. CASE req'[p] = req[p]
  <2>1. HasFiles(req[p])
    BY <1>2 DEF LabelInv, FilesFirst
  <2>2. req[p].op = "import" /\ req'[p].pc \in {"stamp", "label"} =>
           rows'[req[p].on] # NoRow /\ rows'[req[p].on].cve = req[p].cve
    BY <1>0, <1>2, <2>1 DEF HasFiles, TablesGrow, WellFormed, Names, Sources
  <2> QED BY <1>1, <1>2, <2>1, <2>2
<1>3. CASE Restart
  BY <1>3 DEF Restart, Idle, Done, Steps
<1>4. ASSUME NEW g \in Gits, NEW c \in Cves, ImportFiles(p, g, c)
      PROVE  HasFiles(req[p])'
  <2>1. c \in targets'[g]
    BY <1>0, <1>4 DEF ImportFiles, TypeOK, Names, Sources
  <2>2. req'[p] = [pc |-> "create", op |-> "import", on |-> g, cve |-> c, calls |-> <<>>]
    BY <1>0, <1>4 DEF ImportFiles, Begin, TypeOK
  <2> QED BY <2>1, <2>2 DEF HasFiles
<1>5. ASSUME NEW d \in Derived, InjectFiles(p, d)
      PROVE  HasFiles(req[p])'
  <2>1. BaseOf(d) \in Names /\ TemplateOf(d) \in Templates
    BY NameParts DEF Names
  <2>2. TreeMarked(BaseOf(d), TemplateOf(d))
    BY <1>5 DEF InjectFiles, TreeMarked
  <2>3. own'[BaseOf(d)] # Absent /\ own[BaseOf(d)].marks[TemplateOf(d)] \in Nat
        /\ own'[BaseOf(d)].marks[TemplateOf(d)] = own[BaseOf(d)].marks[TemplateOf(d)] + 1
    <3>1. own[BaseOf(d)] # Absent
      BY <1>5 DEF InjectFiles
    <3>2. own[BaseOf(d)].marks[TemplateOf(d)] \in Nat
      BY <1>0, <2>1, <3>1, Marks DEF MarksAreNat
    <3> QED BY <1>0, <2>1, <2>2, <3>2, MarkedOnce
  <2>4. Evident(d)'
    BY <2>3 DEF Evident
  <2>5. req'[p] = [pc |-> "create", op |-> "inject", on |-> d, cve |-> Nobody, calls |-> <<>>]
    BY <1>0, <1>5 DEF InjectFiles, Begin, TypeOK
  <2> QED BY <2>4, <2>5 DEF HasFiles, Evident
<1>6. ASSUME NEW n \in Names, Materialize(p, n)
      PROVE  FALSE
  BY <1>0, <1>6 DEF Materialize, Begin, TypeOK, Steps
<1>7. CASE CreateRow(p)
  <2>1. /\ HasFiles(req[p])
        /\ rows' = [rows EXCEPT ![req[p].on] = NewRow(p)] /\ Goto(p, "stamp")
    BY <1>0, <1>7 DEF CreateRow, End, Done, Idle, TypeOK, LabelInv, FilesFirst, Steps
  <2>2. /\ req'[p].op = req[p].op /\ req'[p].on = req[p].on /\ req'[p].cve = req[p].cve
        /\ req'[p].pc = "stamp" /\ req[p] \in Request
    BY <1>0, <2>1 DEF Goto, TypeOK, Request
  <2>3. req[p].op = "import" => rows'[req[p].on] # NoRow /\ rows'[req[p].on].cve = req[p].cve
    <3>1. NewRow(p).cve = req[p].cve /\ NewRow(p) \in Row
      BY <1>0, <2>2 DEF NewRow, Row, TypeOK, Request
    <3> QED BY <1>0, <2>1, <3>1, NullAssumption DEF WellFormed, TypeOK, Names, Sources
  <2> QED BY <1>1, <2>1, <2>2, <2>3
<1>8. CASE Stamp(p)
  <2>1. HasFiles(req[p]) /\ req[p] \in Request
    BY <1>0, <1>8 DEF Stamp, LabelInv, FilesFirst, Steps, TypeOK
  <2>2. Goto(p, "label")
    <3>1. req'[p].pc # "derive"
      BY DEF Steps
    <3>2. ~End(p)
      BY <1>0, Rests DEF End, Steps, TypeOK
    <3>3. req'[p] # [req[p] EXCEPT !.pc = "derive", !.on = Head(req[p].calls),
                                   !.calls = Tail(req[p].calls)]
      BY <2>1, <3>1 DEF Request
    <3> QED BY <1>0, <1>8, <3>2, <3>3 DEF Stamp, TypeOK
  <2>3. /\ req'[p].op = req[p].op /\ req'[p].on = req[p].on /\ req'[p].cve = req[p].cve
    BY <1>0, <2>1, <2>2 DEF Goto, TypeOK, Request
  <2>4. req[p].op = "import" => rows'[req[p].on] # NoRow /\ rows'[req[p].on].cve = req[p].cve
    BY <1>0, <1>8, <2>1 DEF Stamp, HasFiles, TablesGrow, WellFormed, Names, Sources
  <2> QED BY <1>1, <2>1, <2>3, <2>4
<1>9. CASE AppendLabels(p)
  BY <1>0, <1>9 DEF AppendLabels, End, Done, Idle, TypeOK, Steps
<1>10. CASE BuildSource(p) \/ NeedBase(p) \/ Derive(p)
  <2>1. req[p].op = "materialize" /\ req[p] \in Request
    BY <1>0, <1>10 DEF BuildSource, NeedBase, Derive, Deriving, WellFormed, TypeOK
  <2>2. CASE NeedBase(p)
    <3>1. req'[p].op = "materialize"
      BY <1>0, <2>1, <2>2 DEF NeedBase, TypeOK, Request
    <3> QED BY <3>1 DEF HasFiles
  <2>3. CASE End(p) \/ Goto(p, "stamp")
    <3>1. req'[p] = Done \/ req'[p].op = "materialize"
      BY <1>0, <2>1, <2>3 DEF Goto, End, TypeOK, Request
    <3> QED BY <3>1, Rests DEF HasFiles, Steps
  <2> QED BY <1>10, <2>2, <2>3 DEF BuildSource, Derive, FetchTree
<1>11. ASSUME NEW q \in Requests, Arrive(q) \/ Step(q), q # p
       PROVE  req'[p] = req[p]
  BY <1>0, <1>11 DEF Arrive, ImportFiles, InjectFiles, Materialize, Step, CreateRow, Stamp,
               AppendLabels, BuildSource, NeedBase, Derive, FetchTree, Begin, Goto, End, TypeOK
<1>12. CASE UNCHANGED vars
  BY <1>2, <1>12 DEF vars
<1>13. CASE Arrive(p) \/ Step(p)
  BY <1>4, <1>5, <1>6, <1>7, <1>8, <1>9, <1>10, <1>13 DEF Arrive, Step
<1> QED BY <1>2, <1>3, <1>11, <1>12, <1>13 DEF Next

LEMMA LabelsStep == LabelInv /\ [Next]_vars => LabelsBehind'
<1> SUFFICES ASSUME LabelInv, [Next]_vars, NEW n \in Names
             PROVE  Behind(n)'
  BY DEF LabelsBehind
<1>0. TablesGrow /\ TypeOK /\ Behind(n)
  BY TablesStep DEF LabelInv, TypeInv, LabelsBehind
<1>1. /\ (n \in Derived /\ TemplateOf(n) \in labels[n]) => Evident(n)'
      /\ \A c \in labels[n] \cap Cves :
            rows'[n] # NoRow /\ rows'[n].cve = c /\ c \in targets'[n]
  BY <1>0, EvidenceStays DEF LabelInv, Behind, TablesGrow
<1>2. CASE labels'[n] = labels[n]
  BY <1>1, <1>2 DEF Behind, Evident
<1>3. ASSUME NEW q \in Requests, AppendLabels(q), labels'[n] # labels[n]
      PROVE  Behind(n)'
  <2>1. n = req[q].on /\ labels'[n] = labels[n] \cup {Label(req[q])}
    BY <1>0, <1>3 DEF AppendLabels
  <2>2. HasFiles(req[q]) /\ WellFormed(req[q]) /\ req[q].pc = "label"
    BY <1>3 DEF AppendLabels, LabelInv, TypeInv, Shaped, FilesFirst, Steps
  <2>3. CASE req[q].op = "import"
    <3>1. n \in Gits /\ n \notin Derived /\ Label(req[q]) = req[q].cve
      BY <2>1, <2>2, <2>3, ConstantsAssumption DEF WellFormed, Label, Sources
    <3>2. rows'[n] # NoRow /\ rows'[n].cve = req[q].cve /\ req[q].cve \in targets'[n]
      BY <1>0, <2>1, <2>2, <2>3 DEF HasFiles, TablesGrow
    <3> QED BY <1>1, <2>1, <3>1, <3>2 DEF Behind
  <2>4. CASE req[q].op # "import"
    <3>1. n \in Derived /\ Evident(n) /\ Label(req[q]) = TemplateOf(n)
      BY <2>1, <2>2, <2>4 DEF WellFormed, Label, HasFiles
    <3>2. TemplateOf(n) \notin Cves
      BY <3>1, NameParts, ConstantsAssumption DEF Names
    <3>3. Evident(n)'
      BY <3>1, EvidenceStays DEF LabelInv
    <3> QED BY <1>1, <2>1, <3>1, <3>2, <3>3 DEF Behind, Evident
  <2> QED BY <2>3, <2>4
<1>4. CASE \A q \in Requests : ~AppendLabels(q)
  <2>1. UNCHANGED labels
    BY <1>4 DEF Next, vars, Arrive, Step, ImportFiles, InjectFiles, Materialize, CreateRow, Stamp,
                BuildSource, NeedBase, Derive, Restart
  <2> QED BY <1>2, <2>1
<1> QED BY <1>2, <1>3, <1>4

LEMMA LabelAlways == Spec => []LabelInv
<1>1. LabelInv /\ [Next]_vars => LabelInv'
  BY TypeInvStep, FilesStep, LabelsStep DEF LabelInv
<1> QED BY LabelInit, <1>1, PTL DEF Spec

\* A label of a derived dataset speaks of code that was put into its base and is
\* there until the base, itself a derived one, is rebuilt.
THEOREM LabelsSpeakOfTrees == Spec => []LabelsAreReal
<1>1. LabelInv => LabelsAreReal
  BY DEF LabelInv, LabelsBehind, Behind, LabelsAreReal, Evident, Names
<1> QED BY <1>1, LabelAlways, PTL

\* All CVE labels of a dataset are of the CVE of its row, whose tree was laid
\* down, however imports of one name interleave, fail or are cut short.
THEOREM LabelsAreOfTheRow == Spec => []OneCvePerDataset
<1>1. LabelInv => OneCvePerDataset
  BY DEF LabelInv, LabelsBehind, Behind, OneCvePerDataset
<1> QED BY <1>1, LabelAlways, PTL
=============================================================================
