------------------------ MODULE ProviderCatalogProofs ------------------------
(***************************************************************************)
(* What the catalogue says of built-in and custom providers, for any       *)
(* number of providers, models, requests and restarts.                     *)
(***************************************************************************)
EXTENDS ProviderCatalog, TLAPS

-----------------------------------------------------------------------------
(* Types *)

RowOrNone == Row \cup {NoRow}

LEMMA NoRowIsNoRow == NoRow \notin Row
  BY ConstantsAssumption DEF NoRow, Row

LEMMA LimitIsNat == StaleLimit \in Nat /\ MaxRestarts \in Nat
  BY ConstantsAssumption

LEMMA BlankType ==
    ASSUME NEW s \in Good \cup {"disabled", "failed", "absent"}
    PROVE  Blank(s) \in Snapshot /\ Blank(s).status = s
<1>1. 0 \in 0..StaleLimit + 2
  BY LimitIsNat
<1>2. {} \in SUBSET Models
  OBVIOUS
<1>3. s \in Good \cup {"disabled", "failed", "absent"}
  OBVIOUS
<1> HIDE DEF Good
<1> QED BY <1>1, <1>2, <1>3 DEF Blank, Snapshot

LEMMA ListedType ==
    ASSUME NEW ms \in SUBSET Models
    PROVE  Listed(ms) \in Snapshot /\ Listed(ms).status = "fresh" /\ Listed(ms).age = 0
<1>1. 0 \in 0..StaleLimit + 2
  BY LimitIsNat
<1>2. "fresh" \in Good
  BY DEF Good
<1> QED BY <1>1, <1>2 DEF Listed, Snapshot

LEMMA ListingType ==
    ASSUME NEW row \in Row
    PROVE  Listing(row) \in Snapshot /\ Listing(row).status # "absent"
<1>1. CASE row.status = "none"
  <2>1. Listing(row) = Blank("disabled")
    BY <1>1 DEF Listing
  <2> QED BY <2>1, BlankType
<1>2. CASE row.status = "failed"
  <2>1. Listing(row) = Blank("failed")
    BY <1>2 DEF Listing
  <2> QED BY <2>1, BlankType
<1>3. CASE row.status = "fresh"
  <2>1. Listing(row) = Listed({row.cfg}) /\ {row.cfg} \in SUBSET Models
    BY <1>3 DEF Listing, Row
  <2> QED BY <2>1, ListedType
<1> QED BY <1>1, <1>2, <1>3 DEF Row

\* What a probe of a built-in provider may leave in the catalogue.
Probed == {s \in Snapshot : s.status # "absent" /\ (s.status \in Good => s.age <= StaleLimit)}

LEMMA ByPriorType ==
    ASSUME snap \in [Keys -> Snapshot], NEW p \in Builtins
    PROVE  ByPrior(p) \in Probed
<1>1. snap[p] \in Snapshot
  BY DEF Keys
<1>2. CASE snap[p].status \in Good /\ snap[p].age <= StaleLimit
  <2> DEFINE r == [snap[p] EXCEPT !.status = "stale"]
  <2>1. r \in Snapshot /\ r.status = "stale" /\ r.age = snap[p].age
    BY <1>1 DEF Snapshot, Good
  <2>2. ByPrior(p) = r
    BY <1>2 DEF ByPrior
  <2> HIDE DEF r
  <2> QED BY <1>2, <2>1, <2>2 DEF Probed
<1>3. CASE ~(snap[p].status \in Good /\ snap[p].age <= StaleLimit)
  <2>1. ByPrior(p) = Blank("failed")
    BY <1>3 DEF ByPrior
  <2> QED BY <2>1, BlankType DEF Probed, Good
<1> QED BY <1>2, <1>3

LEMMA ListedIsProbed == ASSUME NEW ms \in SUBSET Models PROVE Listed(ms) \in Probed
<1>1. 0 <= StaleLimit
  BY LimitIsNat
<1>2. Listed(ms) \in Snapshot /\ Listed(ms).status = "fresh" /\ Listed(ms).age = 0
  BY ListedType
<1> QED BY <1>1, <1>2 DEF Probed

LEMMA DisabledIsProbed == Blank("disabled") \in Probed
  BY BlankType DEF Probed, Good

LEMMA ProbeResultsType ==
    ASSUME snap \in [Keys -> Snapshot], NEW p \in Builtins
    PROVE  ProbeResults(p) \subseteq Probed
<1>1. \A ms \in Listings : Listed(ms) \in Probed
  BY ListedIsProbed, ConstantsAssumption
<1> QED BY <1>1, ByPriorType, DisabledIsProbed DEF ProbeResults

LEMMA MultiResultsType ==
    ASSUME snap \in [Keys -> Snapshot]
    PROVE  MultiResults \subseteq [Multis -> Probed]
<1>1. \A ms \in Listings : Listed(ms) \in Probed
  BY ListedIsProbed, ConstantsAssumption
<1>2. \A p \in Multis : ByPrior(p) \in Probed
  BY ByPriorType DEF Builtins
<1> HIDE DEF Probed
<1> QED BY <1>1, <1>2, DisabledIsProbed DEF MultiResults

-----------------------------------------------------------------------------
(* The refresh loop *)

CatalogType == /\ snap \in [Keys -> Snapshot] /\ got \in [Singles -> Snapshot]
               /\ phase \in {"singles", "multis", "sleep"}
               /\ serving \in {"probing", "loading", "up"}

\* Answers that wait are young; so is what was written in the round that runs.
Young(s) == s.status \in Good => s.age <= StaleLimit
AgeInv ==
    /\ CatalogType /\ ListingAgesOut
    /\ \A p \in Singles : Young(got[p])
    /\ phase = "multis" => \A p \in Singles : Young(snap[p])

\* What the loop leaves alone.
Apart == UNCHANGED <<rows, req, restarts, about, raced, mixed>>

LEMMA ProbedIsYoung == \A s \in Probed : s \in Snapshot /\ Young(s) /\ s.status # "absent"
  BY DEF Probed, Young

LEMMA AgesOf ==
    ASSUME NEW S \in [Keys -> Snapshot], NEW p \in Builtins
    PROVE  S[p] \in Snapshot /\ S[p].age \in Nat /\ (S[p].age <= StaleLimit => S[p].age <= StaleLimit + 1)
<1>1. S[p] \in Snapshot
  BY DEF Keys
<1>2. S[p].age \in 0..StaleLimit + 2
  BY <1>1 DEF Snapshot
<1> QED BY <1>1, <1>2, LimitIsNat

LEMMA SingleAnswersAge == ASSUME AgeInv, NEW p \in Singles, SingleAnswers(p) PROVE AgeInv'
<1>1. PICK s \in ProbeResults(p) : got' = [got EXCEPT ![p] = s]
  BY DEF SingleAnswers
<1>2. s \in Snapshot /\ Young(s)
  BY ProbeResultsType, ProbedIsYoung DEF AgeInv, CatalogType, Builtins
<1>3. UNCHANGED <<snap, phase, serving>>
  BY DEF SingleAnswers
<1>4. CatalogType'
  BY <1>1, <1>2, <1>3 DEF AgeInv, CatalogType
<1>5. \A o \in Singles : got'[o] = got[o] \/ got'[o] = s
  BY <1>1 DEF AgeInv, CatalogType
<1>6. \A o \in Singles : Young(got'[o])
  BY <1>2, <1>5 DEF AgeInv
<1> QED BY <1>3, <1>4, <1>6 DEF AgeInv, ListingAgesOut, Young

LEMMA WriteSinglesAge == ASSUME AgeInv, WriteSingles PROVE AgeInv'
<1>1. /\ phase = "singles" /\ phase' = "multis" /\ UNCHANGED serving
      /\ snap' = [k \in Keys |-> IF k \in Singles THEN got[k] ELSE snap[k]]
      /\ got' = [p \in Singles |-> Pending]
  BY DEF WriteSingles
<1>2. Pending \in Snapshot /\ Young(Pending)
  BY BlankType DEF Pending, Young, Good
<1>3. CatalogType'
  BY <1>1, <1>2 DEF AgeInv, CatalogType
<1>4. \A p \in Singles : snap'[p] = got[p] /\ got'[p] = Pending
  BY <1>1 DEF Keys, Builtins
<1>5. \A p \in Builtins : p \notin Singles => snap'[p] = snap[p]
  BY <1>1 DEF Keys
<1>6. \A p \in Singles : Young(snap'[p])
  BY <1>4 DEF AgeInv
<1>7. ListingAgesOut'
  <2> SUFFICES ASSUME NEW p \in Builtins, snap'[p].status \in Good
               PROVE  snap'[p].age <= StaleLimit + 1
    BY <1>1 DEF ListingAgesOut
  <2>1. CASE p \in Singles
    <3>1. snap'[p].age <= StaleLimit
      BY <1>6, <2>1 DEF Young
    <3> QED BY <3>1, <1>3, AgesOf DEF CatalogType
  <2>2. CASE p \notin Singles
    BY <1>1, <1>5, <2>2 DEF AgeInv, ListingAgesOut
  <2> QED BY <2>1, <2>2
<1> QED BY <1>2, <1>3, <1>4, <1>6, <1>7 DEF AgeInv, Young

LEMMA MultiAnswersAge == ASSUME AgeInv, MultiAnswers PROVE AgeInv'
<1>1. PICK result \in MultiResults :
        snap' = [k \in Keys |-> IF k \in Multis THEN result[k] ELSE snap[k]]
  BY DEF MultiAnswers
<1>2. result \in [Multis -> Probed]
  BY MultiResultsType DEF AgeInv, CatalogType
<1>3. \A p \in Multis : snap'[p] = result[p] /\ result[p] \in Snapshot /\ Young(result[p])
  BY <1>1, <1>2, ProbedIsYoung DEF Keys, Builtins
<1>4. \A p \in Builtins : p \notin Multis => snap'[p] = snap[p]
  BY <1>1 DEF Keys
<1>5. phase = "multis" /\ phase' = "sleep" /\ UNCHANGED got
      /\ serving' = IF serving = "probing" THEN "loading" ELSE serving
  BY DEF MultiAnswers
<1>6. CatalogType'
  BY <1>1, <1>3, <1>5 DEF AgeInv, CatalogType
<1>7. \A p \in Builtins : Young(snap'[p])
  BY <1>3, <1>4, <1>5 DEF AgeInv, Builtins
<1>8. ListingAgesOut'
  BY <1>5, <1>7 DEF ListingAgesOut, Young
<1> QED BY <1>5, <1>6, <1>8 DEF AgeInv

LEMMA WakeAge == ASSUME AgeInv, Wake PROVE AgeInv'
<1>1. /\ phase = "sleep" /\ phase' = "singles" /\ UNCHANGED <<got, serving>>
      /\ snap' = [k \in Keys |-> IF snap[k].status \in Good /\ k \in Builtins
                                 THEN Older(snap[k]) ELSE snap[k]]
  BY DEF Wake
<1>2. ASSUME NEW k \in Keys
      PROVE  /\ Older(snap[k]) \in Snapshot
             /\ k \in Builtins /\ snap[k].status \in Good =>
                   Older(snap[k]).age <= StaleLimit + 1
  <2> DEFINE a == IF snap[k].age < StaleLimit + 2 THEN snap[k].age + 1 ELSE snap[k].age
             r == [snap[k] EXCEPT !.age = a]
  <2>1. snap[k] \in Snapshot
    BY DEF AgeInv, CatalogType
  <2>2. snap[k].age \in 0..StaleLimit + 2
    BY <2>1 DEF Snapshot
  <2>3. a \in 0..StaleLimit + 2 /\ a <= snap[k].age + 1
    BY <2>2, LimitIsNat
  <2> HIDE DEF a
  <2>4. r \in Snapshot /\ r.age = a
    BY <2>1, <2>3 DEF Snapshot
  <2>5. Older(snap[k]) = r
    BY DEF Older, a
  <2>6. k \in Builtins /\ snap[k].status \in Good => snap[k].age <= StaleLimit
    BY <1>1 DEF AgeInv, ListingAgesOut
  <2> HIDE DEF r
  <2> QED BY <2>2, <2>3, <2>4, <2>5, <2>6, LimitIsNat
<1>3. \A k \in Keys : \/ snap'[k] = snap[k] /\ (k \in Builtins => snap[k].status \notin Good)
                      \/ snap'[k] = Older(snap[k]) /\ k \in Builtins /\ snap[k].status \in Good
  BY <1>1
<1>4. snap' \in [Keys -> Snapshot]
  BY <1>1, <1>2 DEF AgeInv, CatalogType
<1>5. ListingAgesOut'
  BY <1>1, <1>2, <1>3 DEF ListingAgesOut, Keys
<1> QED BY <1>1, <1>4, <1>5 DEF AgeInv, CatalogType

-----------------------------------------------------------------------------
(* Requests *)

\* What the place of a request says of the rest of it.
Shaped(r) ==
    /\ r.pc \notin {"idle", "done"} => r.id \in Ids
    /\ r.pc \notin {"idle", "done", "inject"} => r.row \in Row
    /\ r.pc = "update" => r.op \in {"patch", "switch"}
    /\ r.pc = "probe" => r.op \in {"create", "patch", "probe"}
    /\ r.pc = "forget" => r.op \in {"patch", "delete"}
    /\ r.pc = "delete" => r.op = "delete"
    /\ r.op = "patch" => r.to \in Models
TableType ==
    /\ rows \in [Ids -> RowOrNone]
    /\ about \in [Ids -> Models \cup {"unused"}]
    /\ req \in [Requests -> Request]
    /\ \A q \in Requests : Shaped(req[q])
    /\ restarts \in 0..MaxRestarts
    /\ raced \subseteq Names /\ mixed \subseteq Names
Typed == CatalogType /\ TableType

LEMMA TypedIsTyped == Typed => TypeOK
  BY DEF Typed, CatalogType, TableType, TypeOK, RowOrNone

\* A request that is after the rows of a name.
On(q, n) == InFlight(q) /\ req[q].row # NoRow /\ req[q].row.name = n
Gone(r) == r.op = "delete" /\ r.pc = "forget"

LEMMA BusyIsOn == \A n : Busy(n) <=> \E q \in Requests : On(q, n)
  BY DEF Busy, On

UniqueNames ==
    \A i, j \in Ids : rows[i] # NoRow /\ rows[j] # NoRow /\ rows[i].name = rows[j].name => i = j
\* A row that a request is after keeps its name.
SameName ==
    \A q \in Requests : InFlight(q) /\ req[q].row # NoRow /\ rows[req[q].id] # NoRow =>
        rows[req[q].id].name = req[q].row.name
UnusedIds ==
    \A i \in Ids : about[i] = "unused" =>
        rows[i] = NoRow /\ \A q \in Requests : InFlight(q) => req[q].id # i
\* A request that did not overlap another one on its name knows its row.
Alone ==
    \A q \in Requests, n \in Names \ raced : On(q, n) =>
        /\ \A p \in Requests : On(p, n) => p = q
        /\ IF Gone(req[q]) THEN RowsNamed(n) = {} ELSE rows[req[q].id] = req[q].row
BootInv ==
    /\ raced \subseteq mixed
    /\ serving # "up" =>
          /\ \A q \in Requests : ~InFlight(q)
          /\ \A n \in Names : snap[n].status = "absent"
\* Only a patch that is about to probe leaves a status behind its configuration.
StatusInv ==
    \A i \in Ids : rows[i] # NoRow /\ rows[i].status # "none" =>
        \/ rows[i].name \in mixed
        \/ about[i] = rows[i].cfg
        \/ \E q \in Requests : req[q].pc = "probe" /\ req[q].id = i

TableInv == UniqueNames /\ SameName /\ UnusedIds /\ Alone /\ BootInv /\ StatusInv
CatalogInv == Typed /\ TableInv /\ CatalogAgrees

LEMMA RowNames == \A row \in Row : row \in RowOrNone /\ row # NoRow /\ row.name \in Names
  BY NoRowIsNoRow DEF Row, RowOrNone

-----------------------------------------------------------------------------
(* A step of a request: its new record y, the new row x, the new catalogue *)

Step(q, x, y) ==
    LET r == req[q] IN
    /\ InFlight(q)
    /\ rows' = [rows EXCEPT ![r.id] = x] /\ x \in RowOrNone
    /\ req' = [req EXCEPT ![q] = y] /\ y \in Request /\ Shaped(y)
    /\ UNCHANGED <<serving, restarts, raced, mixed>>
    \* The row keeps its name; the request keeps the row.
    /\ x # NoRow => rows[r.id] # NoRow /\ x.name = rows[r.id].name
    /\ y.pc # "idle"
    /\ y.pc # "done" => /\ y.id = r.id
                        /\ y.row # NoRow => r.row # NoRow /\ y.row.name = r.row.name
    /\ r.row = NoRow => y.pc = "done" /\ x = rows[r.id] /\ about' = about
    \* One that knows its row goes on knowing it,
    /\ ~Gone(r) /\ rows[r.id] = r.row /\ r.row # NoRow /\ y.pc # "done" =>
          /\ y.row # NoRow
          /\ IF Gone(y) THEN x = NoRow ELSE x = y.row
    \* and when it ends the catalogue says what it knows.
    /\ y.pc = "done" => x = rows[r.id]
    /\ \A n \in Names : r.row = NoRow \/ n # r.row.name => snap'[n] = snap[n]
    /\ y.pc = "done" /\ r.row # NoRow =>
          IF Gone(r) THEN snap'[r.row.name].status \in {"absent", "disabled"}
                     ELSE snap'[r.row.name] = Listing(r.row)
    \* The status is about what was probed.
    /\ about' \in [Ids -> Models \cup {"unused"}]
    /\ Gone(r) => y.pc = "done"
    /\ \A i \in Ids : i # r.id => about'[i] = about[i]
    /\ about'[r.id] = "unused" => about[r.id] = "unused"
    /\ \/ y.pc = "probe"
       \/ /\ about' = about /\ r.pc # "probe"
          /\ x # NoRow => x.cfg = rows[r.id].cfg /\ x.status = rows[r.id].status
       \/ rows[r.id] = r.row /\ x # NoRow => about'[r.id] = x.cfg

LEMMA StepFacts ==
    ASSUME CatalogInv, NEW q \in Requests, NEW x, NEW y, Step(q, x, y)
    PROVE  /\ req[q].id \in Ids
           /\ rows'[req[q].id] = x /\ \A i \in Ids : i # req[q].id => rows'[i] = rows[i]
           /\ req'[q] = y /\ \A p \in Requests : p # q => req'[p] = req[p]
           /\ \A p \in Requests : p # q => (InFlight(p)' <=> InFlight(p))
           /\ InFlight(q)' <=> y.pc # "done"
<1>1. Shaped(req[q]) /\ req[q].pc \notin {"idle", "done"} /\ y.pc # "idle"
  BY DEF CatalogInv, Typed, TableType, Step, InFlight
<1>2. req[q].id \in Ids
  BY <1>1 DEF Shaped
<1>3. rows' = [rows EXCEPT ![req[q].id] = x] /\ req' = [req EXCEPT ![q] = y]
  BY DEF Step
<1>4. /\ rows'[req[q].id] = x /\ \A i \in Ids : i # req[q].id => rows'[i] = rows[i]
      /\ req'[q] = y /\ \A p \in Requests : p # q => req'[p] = req[p]
  BY <1>2, <1>3 DEF CatalogInv, Typed, TableType
<1> QED BY <1>1, <1>2, <1>4 DEF InFlight

LEMMA StepTypes ==
    ASSUME CatalogInv, NEW q \in Requests, NEW x, NEW y, Step(q, x, y)
    PROVE  TableType'
<1>1. rows' \in [Ids -> RowOrNone] /\ req' \in [Requests -> Request]
  BY DEF CatalogInv, Typed, TableType, Step
<1>2. \A p \in Requests : Shaped(req'[p])
  BY StepFacts DEF CatalogInv, Typed, TableType, Step
<1>3. about' \in [Ids -> Models \cup {"unused"}] /\ UNCHANGED <<restarts, raced, mixed>>
  BY DEF Step
<1> QED BY <1>1, <1>2, <1>3 DEF CatalogInv, Typed, TableType, Shaped

LEMMA StepNames ==
    ASSUME CatalogInv, NEW q \in Requests, NEW x, NEW y, Step(q, x, y)
    PROVE  UniqueNames' /\ SameName' /\ UnusedIds'
<1> DEFINE i == req[q].id
<1>1. /\ i \in Ids /\ rows'[i] = x /\ \A j \in Ids : j # i => rows'[j] = rows[j]
      /\ req'[q] = y /\ \A p \in Requests : p # q => req'[p] = req[p]
      /\ \A p \in Requests : p # q => (InFlight(p)' <=> InFlight(p))
      /\ InFlight(q)' <=> y.pc # "done"
  BY StepFacts
<1>2. \A j \in Ids : rows'[j] # NoRow => rows[j] # NoRow /\ rows'[j].name = rows[j].name
  BY <1>1 DEF Step
<1>3. UniqueNames'
  BY <1>2 DEF UniqueNames, CatalogInv, TableInv
<1>4. SameName'
  <2> SUFFICES ASSUME NEW p \in Requests, InFlight(p)', req'[p].row # NoRow, rows'[req'[p].id] # NoRow
               PROVE  rows'[req'[p].id].name = req'[p].row.name
    BY DEF SameName
  <2>1. CASE p = q
    <3>1. y.id = i /\ req[q].row # NoRow /\ y.row.name = req[q].row.name /\ InFlight(q)
      BY <1>1, <2>1 DEF Step
    <3> QED BY <1>1, <1>2, <2>1, <3>1 DEF CatalogInv, TableInv, SameName
  <2>2. CASE p # q
    <3>1. req'[p] = req[p] /\ InFlight(p) /\ req[p].id \in Ids
      BY <1>1, <2>2 DEF CatalogInv, Typed, TableType, Shaped, InFlight
    <3> QED BY <1>2, <3>1 DEF CatalogInv, TableInv, SameName
  <2> QED BY <2>1, <2>2
<1>5. UnusedIds'
  <2> SUFFICES ASSUME NEW j \in Ids, about'[j] = "unused"
               PROVE  rows'[j] = NoRow /\ \A p \in Requests : InFlight(p)' => req'[p].id # j
    BY DEF UnusedIds
  <2>1. about[j] = "unused"
    BY DEF Step
  <2>2. rows[j] = NoRow /\ \A p \in Requests : InFlight(p) => req[p].id # j
    BY <2>1 DEF CatalogInv, TableInv, UnusedIds
  <2>3. InFlight(q) /\ (y.pc # "done" => y.id = i)
    BY DEF Step
  <2> QED BY <1>1, <1>2, <2>2, <2>3
<1> QED BY <1>3, <1>4, <1>5

\* A step changes the rows and the requests of one name only.
LEMMA StepElsewhere ==
    ASSUME CatalogInv, NEW q \in Requests, NEW x, NEW y, Step(q, x, y),
           NEW n \in Names, req[q].row = NoRow \/ req[q].row.name # n
    PROVE  /\ \A p \in Requests : On(p, n)' <=> On(p, n)
           /\ \A p \in Requests : On(p, n) => p # q /\ req'[p] = req[p]
           /\ \A i \in Ids : (rows'[i] # NoRow /\ rows'[i].name = n)
                             <=> (rows[i] # NoRow /\ rows[i].name = n)
           /\ \A i \in Ids : rows[i] # NoRow /\ rows[i].name = n => rows'[i] = rows[i]
           /\ snap'[n] = snap[n]
<1> DEFINE i == req[q].id
<1>1. /\ i \in Ids /\ rows'[i] = x /\ \A j \in Ids : j # i => rows'[j] = rows[j]
      /\ req'[q] = y /\ \A p \in Requests : p # q => req'[p] = req[p]
      /\ \A p \in Requests : p # q => (InFlight(p)' <=> InFlight(p))
      /\ InFlight(q)' <=> y.pc # "done"
  BY StepFacts
<1>2. ~On(q, n) /\ ~On(q, n)'
  BY <1>1 DEF Step, On
<1>3. \A p \in Requests : On(p, n)' <=> On(p, n)
  BY <1>1, <1>2 DEF On
<1>4. x = rows[i] \/ (rows[i] # NoRow => rows[i].name # n)
  BY DEF Step, CatalogInv, TableInv, SameName
<1>5. x # NoRow => rows[i] # NoRow /\ x.name = rows[i].name
  BY DEF Step
<1>6. snap'[n] = snap[n]
  BY DEF Step
<1> QED BY <1>1, <1>2, <1>3, <1>4, <1>5, <1>6

LEMMA StepAlone ==
    ASSUME CatalogInv, NEW q \in Requests, NEW x, NEW y, Step(q, x, y)
    PROVE  Alone' /\ BootInv'
<1> DEFINE i == req[q].id
<1>1. /\ i \in Ids /\ rows'[i] = x /\ \A j \in Ids : j # i => rows'[j] = rows[j]
      /\ req'[q] = y /\ \A p \in Requests : p # q => req'[p] = req[p]
      /\ \A p \in Requests : p # q => (InFlight(p)' <=> InFlight(p))
      /\ InFlight(q)' <=> y.pc # "done"
  BY StepFacts
<1>2. InFlight(q) /\ UNCHANGED <<serving, raced, mixed>> /\ serving = "up"
  BY DEF Step, CatalogInv, TableInv, BootInv
<1>3. BootInv'
  BY <1>2 DEF BootInv, CatalogInv, TableInv
<1>4. ASSUME NEW p \in Requests, NEW n \in Names \ raced, On(p, n)'
      PROVE  /\ \A o \in Requests : On(o, n)' => o = p
             /\ IF Gone(req'[p]) THEN RowsNamed(n)' = {} ELSE rows'[req'[p].id] = req'[p].row
  <2>1. CASE req[q].row = NoRow \/ req[q].row.name # n
    <3>1. On(p, n) /\ req'[p] = req[p]
      BY <1>4, <2>1, StepElsewhere
    <3>2. /\ \A o \in Requests : On(o, n)' => o = p
          /\ IF Gone(req[p]) THEN RowsNamed(n) = {} ELSE rows[req[p].id] = req[p].row
      BY <2>1, <3>1, StepElsewhere DEF CatalogInv, TableInv, Alone
    <3>3. RowsNamed(n) = {} => RowsNamed(n)' = {}
      BY <2>1, StepElsewhere DEF RowsNamed
    <3>4. req[p].id \in Ids /\ req[p].row # NoRow /\ req[p].row.name = n
      BY <3>1 DEF On, InFlight, CatalogInv, Typed, TableType, Shaped
    <3>5. rows[req[p].id] = req[p].row => rows'[req[p].id] = rows[req[p].id]
      BY <2>1, <3>4, StepElsewhere
    <3> QED BY <3>1, <3>2, <3>3, <3>5
  <2>2. CASE req[q].row # NoRow /\ req[q].row.name = n
    <3>1. On(q, n)
      BY <1>2, <2>2 DEF On
    <3>2. \A o \in Requests : On(o, n) => o = q
      BY <3>1 DEF CatalogInv, TableInv, Alone
    <3>3. \A o \in Requests : On(o, n)' => o = q
      BY <1>1, <3>2 DEF On
    <3>4. p = q /\ y.pc # "done" /\ y.row # NoRow
      BY <1>1, <1>4, <3>3 DEF On
    <3>5. IF Gone(req[q]) THEN RowsNamed(n) = {} ELSE rows[i] = req[q].row
      BY <3>1 DEF CatalogInv, TableInv, Alone
    <3>6. CASE Gone(req[q])
      BY <3>4, <3>6 DEF Step
    <3>7. CASE ~Gone(req[q])
      <4>1. IF Gone(y) THEN x = NoRow ELSE x = y.row /\ y.id = i
        BY <2>2, <3>4, <3>5, <3>7 DEF Step
      <4>2. x = NoRow => RowsNamed(n)' = {}
        BY <1>1, <2>2, <3>5, <3>7 DEF RowsNamed, CatalogInv, TableInv, UniqueNames
      <4> QED BY <1>1, <3>3, <3>4, <4>1, <4>2
    <3> QED BY <3>6, <3>7
  <2> QED BY <2>1, <2>2
<1>5. Alone'
  BY <1>2, <1>4 DEF Alone
<1> QED BY <1>3, <1>5

LEMMA StepStatus ==
    ASSUME CatalogInv, NEW q \in Requests, NEW x, NEW y, Step(q, x, y)
    PROVE  StatusInv'
<1> DEFINE i == req[q].id
<1>1. /\ i \in Ids /\ rows'[i] = x /\ \A j \in Ids : j # i => rows'[j] = rows[j]
      /\ req'[q] = y /\ \A p \in Requests : p # q => req'[p] = req[p]
  BY StepFacts
<1>2. UNCHANGED <<raced, mixed>> /\ \A j \in Ids : j # i => about'[j] = about[j]
  BY DEF Step
<1> SUFFICES ASSUME NEW j \in Ids, rows'[j] # NoRow, rows'[j].status # "none",
                    rows'[j].name \notin mixed
             PROVE  \/ about'[j] = rows'[j].cfg
                    \/ \E p \in Requests : req'[p].pc = "probe" /\ req'[p].id = j
  BY <1>2 DEF StatusInv
<1>3. CASE j # i
  <2>1. rows'[j] = rows[j] /\ about'[j] = about[j]
    BY <1>1, <1>2, <1>3
  <2>2. \/ about[j] = rows[j].cfg
        \/ \E p \in Requests : req[p].pc = "probe" /\ req[p].id = j
    BY <2>1 DEF CatalogInv, TableInv, StatusInv
  <2> QED BY <1>1, <1>3, <2>1, <2>2
<1>4. CASE j = i
  <2> DEFINE n == req[q].row.name
  <2>1. x # NoRow /\ rows[i] # NoRow /\ rows'[j].name = rows[i].name
    BY <1>1, <1>4 DEF Step
  <2>2. \A p \in Requests : req[p].pc = "probe" /\ req[p].id = i =>
          /\ InFlight(p) /\ req[p].row # NoRow /\ req[p].row.name = rows[i].name
    BY <2>1, RowNames DEF CatalogInv, Typed, TableType, Shaped, InFlight, TableInv, SameName
  <2>3. CASE req[q].row = NoRow
    <3>1. y.pc = "done" /\ x = rows[i] /\ req[q].pc # "probe"
      BY <2>3, RowNames DEF Step, CatalogInv, Typed, TableType, Shaped
    <3>2. about' = about
      BY <2>3 DEF Step
    <3>3. \/ about[i] = rows[i].cfg
          \/ \E p \in Requests : req[p].pc = "probe" /\ req[p].id = i
      BY <1>1, <1>4, <3>1, <2>1 DEF CatalogInv, TableInv, StatusInv
    <3> QED BY <1>1, <1>4, <2>1, <2>3, <3>1, <3>2, <3>3
  <2>4. CASE req[q].row # NoRow
    <3>1. rows[i].name = n /\ InFlight(q) /\ On(q, n) /\ n \notin raced
      BY <1>4, <2>1, <2>4 DEF Step, CatalogInv, TableInv, SameName, BootInv, On
    <3>2. n \in Names
      BY <2>1, <3>1, <1>1, RowNames DEF CatalogInv, Typed, TableType, RowOrNone
    <3>3. \A p \in Requests : On(p, n) => p = q
      BY <3>1, <3>2 DEF CatalogInv, TableInv, Alone
    <3>4. rows[i] = req[q].row
      BY <1>1, <2>1, <3>1, <3>2 DEF CatalogInv, TableInv, Alone, RowsNamed
    <3>5. \A p \in Requests : req[p].pc = "probe" /\ req[p].id = i => p = q
      BY <2>2, <3>1, <3>3 DEF On
    <3>6. CASE y.pc = "probe"
      BY <1>1, <1>4, <3>6 DEF Step
    <3>7. CASE /\ about' = about /\ req[q].pc # "probe"
               /\ x # NoRow => x.cfg = rows[i].cfg /\ x.status = rows[i].status
      <4>1. rows[i].status # "none" /\ x.cfg = rows[i].cfg
        BY <1>1, <1>4, <2>1, <3>7
      <4>2. about[i] = rows[i].cfg
        BY <1>1, <1>4, <2>1, <3>5, <3>7, <4>1 DEF CatalogInv, TableInv, StatusInv
      <4> QED BY <1>1, <1>4, <3>7, <4>1, <4>2
    <3>8. CASE rows[i] = req[q].row /\ x # NoRow => about'[i] = x.cfg
      BY <1>1, <1>4, <2>1, <3>4, <3>8
    <3> QED BY <3>6, <3>7, <3>8 DEF Step
  <2> QED BY <2>3, <2>4
<1> QED BY <1>3, <1>4

LEMMA StepAgrees ==
    ASSUME CatalogInv, NEW q \in Requests, NEW x, NEW y, Step(q, x, y)
    PROVE  CatalogAgrees'
<1> DEFINE i == req[q].id
<1>1. /\ i \in Ids /\ rows'[i] = x /\ \A j \in Ids : j # i => rows'[j] = rows[j]
      /\ req'[q] = y /\ \A p \in Requests : p # q => req'[p] = req[p]
      /\ InFlight(q)' <=> y.pc # "done"
  BY StepFacts
<1>2. InFlight(q) /\ serving = "up" /\ UNCHANGED <<serving, raced>>
  BY DEF Step, CatalogInv, TableInv, BootInv
<1> SUFFICES ASSUME NEW n \in Names \ raced, ~Busy(n)'
             PROVE  IF RowsNamed(n)' = {} THEN snap'[n].status \in {"absent", "disabled"}
                    ELSE \A j \in RowsNamed(n)' :
                            \/ snap'[n] = Listing(rows'[j])
                            \/ ~rows'[j].enabled /\ snap'[n].status = "absent"
  BY <1>2 DEF CatalogAgrees
<1>3. \A p \in Requests : ~On(p, n)'
  BY DEF Busy, On
<1>4. CASE req[q].row = NoRow \/ req[q].row.name # n
  <2>1. ~Busy(n)
    BY <1>3, <1>4, StepElsewhere, BusyIsOn
  <2>2. RowsNamed(n)' = RowsNamed(n) /\ \A j \in RowsNamed(n) : rows'[j] = rows[j]
    BY <1>4, StepElsewhere DEF RowsNamed
  <2>3. snap'[n] = snap[n]
    BY <1>4, StepElsewhere
  <2> QED BY <1>2, <2>1, <2>2, <2>3 DEF CatalogInv, CatalogAgrees
<1>5. CASE req[q].row # NoRow /\ req[q].row.name = n
  <2>1. On(q, n)
    BY <1>2, <1>5 DEF On
  <2>2. IF Gone(req[q]) THEN RowsNamed(n) = {} ELSE rows[i] = req[q].row
    BY <2>1 DEF CatalogInv, TableInv, Alone
  <2>3. y.pc = "done"
    <3> SUFFICES ASSUME y.pc # "done" PROVE FALSE
      OBVIOUS
    <3>1. ~Gone(req[q]) /\ y.row # NoRow /\ y.row.name = n
      BY <1>5, <2>2 DEF Step
    <3> QED BY <1>1, <1>3, <3>1 DEF On
  <2>4. x = rows[i] /\ rows' = rows
    BY <1>1, <2>3 DEF Step, CatalogInv, Typed, TableType
  <2>5. RowsNamed(n)' = RowsNamed(n)
    BY <2>4 DEF RowsNamed
  <2>6. CASE Gone(req[q])
    BY <1>5, <2>2, <2>3, <2>5, <2>6 DEF Step
  <2>7. CASE ~Gone(req[q])
    <3>1. snap'[n] = Listing(rows[i])
      BY <1>5, <2>2, <2>3, <2>7 DEF Step
    <3>2. RowsNamed(n) = {i}
      BY <1>1, <1>5, <2>2, <2>7 DEF RowsNamed, CatalogInv, TableInv, UniqueNames
    <3> QED BY <2>4, <2>5, <3>1, <3>2
  <2> QED BY <2>6, <2>7
<1> QED BY <1>4, <1>5

-----------------------------------------------------------------------------
(* Every action of a request is such a step *)

LEMMA PatchedRow ==
    ASSUME NEW row \in Row, NEW op, NEW to, op = "patch" => to \in Models
    PROVE  /\ Patched(row, op, to) \in Row /\ Patched(row, op, to).name = row.name
           /\ Patched(row, op, to).status = row.status
           /\ op # "patch" => Patched(row, op, to).cfg = row.cfg
<1>1. CASE op = "patch"
  <2> DEFINE r == [row EXCEPT !.cfg = to]
  <2>1. r \in Row /\ r.name = row.name /\ r.status = row.status
    BY <1>1 DEF Row
  <2>2. Patched(row, op, to) = r
    BY <1>1 DEF Patched
  <2> HIDE DEF r
  <2> QED BY <1>1, <2>1, <2>2
<1>2. CASE op # "patch"
  <2> DEFINE e == (to = "enable")
             r == [row EXCEPT !.enabled = e]
  <2>1. e \in BOOLEAN
    OBVIOUS
  <2> HIDE DEF e
  <2>2. r \in Row /\ r.name = row.name /\ r.status = row.status /\ r.cfg = row.cfg
    BY <2>1 DEF Row
  <2>3. Patched(row, op, to) = r
    BY <1>2 DEF Patched, e
  <2> HIDE DEF r
  <2> QED BY <2>2, <2>3
<1> QED BY <1>1, <1>2

LEMMA AtRequest ==
    ASSUME CatalogInv, NEW q \in Requests, req[q].pc \notin {"idle", "done"}
    PROVE  /\ req[q] \in Request /\ Shaped(req[q]) /\ InFlight(q) /\ req[q].id \in Ids
           /\ rows[req[q].id] \in RowOrNone /\ req[q].row \in RowOrNone
           /\ req[q].pc # "inject" => req[q].row \in Row /\ req[q].row # NoRow
<1>1. req[q] \in Request /\ Shaped(req[q]) /\ InFlight(q)
  BY DEF CatalogInv, Typed, TableType, InFlight
<1>2. req[q].id \in Ids /\ req[q].row \in RowOrNone
  BY <1>1 DEF Shaped, Request, RowOrNone
<1>3. req[q].pc # "inject" => req[q].row \in Row
  BY <1>1 DEF Shaped
<1> QED BY <1>1, <1>2, <1>3, RowNames DEF CatalogInv, Typed, TableType

LEMMA UpdateIsStep ==
    ASSUME CatalogInv, NEW q \in Requests, Update(q)
    PROVE  \E x, y : Step(q, x, y)
<1> DEFINE r == req[q]
           old == rows[r.id]
           x == IF old = NoRow THEN NoRow ELSE Patched(old, r.op, r.to)
           w == Patched(r.row, r.op, r.to)
           pc == IF r.op = "patch" THEN "probe" ELSE "read"
           y == [r EXCEPT !.pc = pc, !.row = w]
<1>1. /\ r.pc = "update" /\ r \in Request /\ Shaped(r) /\ InFlight(q) /\ r.id \in Ids
      /\ old \in RowOrNone /\ r.row \in Row /\ r.row # NoRow
  BY AtRequest DEF Update
<1>2. r.op = "patch" => r.to \in Models
  BY <1>1 DEF Shaped
<1>3. w \in Row /\ w # NoRow /\ w.name = r.row.name /\ w.status = r.row.status
      /\ (r.op # "patch" => w.cfg = r.row.cfg)
  BY <1>1, <1>2, PatchedRow, RowNames
<1>4. old # NoRow => /\ old \in Row /\ x \in Row /\ x # NoRow /\ x.name = old.name
                     /\ x.status = old.status /\ (r.op # "patch" => x.cfg = old.cfg)
  BY <1>1, <1>2, PatchedRow, RowNames DEF RowOrNone
<1>5. x \in RowOrNone /\ (x # NoRow => old # NoRow)
  BY <1>4 DEF RowOrNone
<1>6. pc \in {"probe", "read"} /\ (r.op = "patch" => pc = "probe") /\ (r.op # "patch" => pc = "read")
  OBVIOUS
<1>7. old = r.row => x = w
  BY <1>1
<1>8. rows' = [rows EXCEPT ![r.id] = x] /\ req' = [req EXCEPT ![q] = y]
      /\ UNCHANGED <<catalogVars, serving, restarts, about, historyVars>>
  <2>1. r.id \in Ids /\ rows \in [Ids -> RowOrNone]
    BY <1>1 DEF CatalogInv, Typed, TableType
  <2> QED BY <2>1 DEF Update
<1> HIDE DEF w, x, pc
<1>9. /\ y \in Request /\ y.pc = pc /\ y.row = w /\ y.id = r.id /\ y.op = r.op /\ y.to = r.to
  BY <1>1, <1>3, <1>6 DEF Request, RowOrNone
<1>10. Shaped(y) /\ ~Gone(y)
  BY <1>1, <1>3, <1>6, <1>9 DEF Shaped, Gone
<1>11. ~Gone(r)
  BY <1>1 DEF Gone
<1> HIDE DEF y
<1>12. Step(q, x, y)
  <2>1. about' = about /\ about \in [Ids -> Models \cup {"unused"}]
    BY <1>8 DEF CatalogInv, Typed, TableType
  <2>2. snap' = snap /\ UNCHANGED <<serving, restarts, raced, mixed>>
    BY <1>8 DEF catalogVars, historyVars
  <2>3. y.pc = "probe" \/ (x # NoRow => x.cfg = old.cfg /\ x.status = old.status)
    BY <1>4, <1>5, <1>6, <1>9
  <2> QED BY <1>1, <1>3, <1>4, <1>5, <1>6, <1>7, <1>8, <1>9, <1>10, <1>11, <2>1, <2>2, <2>3 DEF Step
<1> QED BY <1>12

LEMMA ProbeIsStep ==
    ASSUME CatalogInv, NEW q \in Requests, Probe(q)
    PROVE  \E x, y : Step(q, x, y)
<1> DEFINE r == req[q]
           old == rows[r.id]
<1>1. /\ r.pc = "probe" /\ r \in Request /\ Shaped(r) /\ InFlight(q) /\ r.id \in Ids
      /\ old \in RowOrNone /\ r.row \in Row /\ r.row # NoRow
  BY AtRequest DEF Probe
<1>2. PICK res \in {"fresh", "failed"} :
         /\ rows' = [rows EXCEPT ![r.id] = IF @ = NoRow THEN @ ELSE [@ EXCEPT !.status = res]]
         /\ req' = [req EXCEPT ![q].pc = AfterProbe(r.op), ![q].row = [@ EXCEPT !.status = res]]
  BY DEF Probe
<1> DEFINE x == IF old = NoRow THEN NoRow ELSE [old EXCEPT !.status = res]
           w == [r.row EXCEPT !.status = res]
           pc == AfterProbe(r.op)
           y == [r EXCEPT !.pc = pc, !.row = w]
<1>3. w \in Row /\ w # NoRow /\ w.name = r.row.name /\ w.cfg = r.row.cfg
  <2>1. w \in Row /\ w.name = r.row.name /\ w.cfg = r.row.cfg
    BY <1>1 DEF Row
  <2> QED BY <2>1, RowNames
<1>4. old # NoRow => x \in Row /\ x # NoRow /\ x.name = old.name
  <2> SUFFICES ASSUME old # NoRow PROVE x \in Row /\ x # NoRow /\ x.name = old.name
    OBVIOUS
  <2>1. old \in Row
    BY <1>1 DEF RowOrNone
  <2>2. x \in Row /\ x.name = old.name
    BY <2>1 DEF Row
  <2> QED BY <2>2, RowNames
<1>5. x \in RowOrNone /\ (x # NoRow => old # NoRow)
  BY <1>4 DEF RowOrNone
<1>6. pc \in {"inject", "forget", "read"} /\ (pc = "forget" => r.op = "patch")
  BY <1>1 DEF AfterProbe, Shaped
<1>7. old = r.row => x = w
  BY <1>1
<1>8. /\ rows' = [rows EXCEPT ![r.id] = x] /\ req' = [req EXCEPT ![q] = y]
      /\ UNCHANGED <<catalogVars, serving, restarts, historyVars>>
      /\ about' = [about EXCEPT ![r.id] = r.row.cfg]
  <2>1. r.id \in Ids /\ rows \in [Ids -> RowOrNone]
    BY <1>1 DEF CatalogInv, Typed, TableType
  <2>2. rows' = [rows EXCEPT ![r.id] = x]
    BY <1>2, <2>1
  <2>3. req' = [req EXCEPT ![q] = y]
    BY <1>2
  <2> QED BY <2>2, <2>3 DEF Probe
<1> HIDE DEF w, x, pc
<1>9. /\ y \in Request /\ y.pc = pc /\ y.row = w /\ y.id = r.id /\ y.op = r.op /\ y.to = r.to
  BY <1>1, <1>3, <1>6 DEF Request, RowOrNone
<1>10. Shaped(y) /\ ~Gone(y)
  BY <1>1, <1>3, <1>6, <1>9 DEF Shaped, Gone
<1>11. ~Gone(r)
  BY <1>1 DEF Gone
<1> HIDE DEF y
<1>12. Step(q, x, y)
  <2>1. /\ about' \in [Ids -> Models \cup {"unused"}] /\ about'[r.id] = r.row.cfg
        /\ r.row.cfg \in Models /\ \A i \in Ids : i # r.id => about'[i] = about[i]
    BY <1>1, <1>8 DEF CatalogInv, Typed, TableType, Row
  <2>2. snap' = snap /\ UNCHANGED <<serving, restarts, raced, mixed>>
    BY <1>8 DEF catalogVars, historyVars
  <2>3. about'[r.id] # "unused"
    BY <2>1, ConstantsAssumption
  <2>4. old = r.row => about'[r.id] = x.cfg
    BY <1>3, <1>7, <2>1
  <2> QED BY <1>1, <1>3, <1>4, <1>5, <1>6, <1>7, <1>8, <1>9, <1>10, <1>11, <2>1, <2>2, <2>3, <2>4 DEF Step
<1> QED BY <1>12

LEMMA DeleteIsStep ==
    ASSUME CatalogInv, NEW q \in Requests, Delete(q)
    PROVE  \E x, y : Step(q, x, y)
<1> DEFINE r == req[q]
           y == [r EXCEPT !.pc = "forget"]
<1>1. /\ r.pc = "delete" /\ r \in Request /\ Shaped(r) /\ InFlight(q) /\ r.id \in Ids
      /\ r.row \in Row /\ r.row # NoRow /\ r.op = "delete"
  BY AtRequest DEF Delete, Shaped
<1>2. /\ y \in Request /\ y.pc = "forget" /\ y.row = r.row /\ y.id = r.id /\ y.op = r.op /\ y.to = r.to
  BY <1>1 DEF Request
<1>3. Shaped(y) /\ Gone(y) /\ ~Gone(r)
  BY <1>1, <1>2 DEF Shaped, Gone
<1>4. /\ rows' = [rows EXCEPT ![r.id] = NoRow] /\ req' = [req EXCEPT ![q] = y]
      /\ snap' = snap /\ UNCHANGED <<serving, restarts, about, raced, mixed>>
  BY DEF Delete, CatalogInv, Typed, TableType, catalogVars, historyVars
<1>5. about \in [Ids -> Models \cup {"unused"}]
  BY DEF CatalogInv, Typed, TableType
<1> HIDE DEF y
<1>6. Step(q, NoRow, y)
  BY <1>1, <1>2, <1>3, <1>4, <1>5 DEF Step, RowOrNone
<1> QED BY <1>6

LEMMA DoneShape == Done \in Request /\ Done.pc = "done" /\ Shaped(Done) /\ ~Gone(Done)
<1>1. Idle \in Request /\ Idle.op = "none"
  BY DEF Idle, Request
<1>2. Done \in Request /\ Done.pc = "done" /\ Done.op = "none"
  BY <1>1 DEF Done, Request
<1> QED BY <1>2 DEF Shaped, Gone

\* A step that leaves the rows alone.
LEMMA RowsStay ==
    ASSUME CatalogInv, NEW q \in Requests, rows' = rows
    PROVE  rows' = [rows EXCEPT ![req[q].id] = rows[req[q].id]]
  BY DEF CatalogInv, Typed, TableType

LEMMA ForgetIsStep ==
    ASSUME CatalogInv, NEW q \in Requests, Forget(q)
    PROVE  \E x, y : Step(q, x, y)
<1> DEFINE r == req[q]
           old == rows[r.id]
           n == r.row.name
           y == IF r.op = "delete" THEN Done ELSE [r EXCEPT !.pc = "read"]
<1>1. /\ r.pc = "forget" /\ r \in Request /\ Shaped(r) /\ InFlight(q) /\ r.id \in Ids
      /\ old \in RowOrNone /\ r.row \in Row /\ r.row # NoRow /\ n \in Names
  BY AtRequest, RowNames DEF Forget
<1>2. /\ snap' = [snap EXCEPT ![n] = IF @.status = "absent" THEN @ ELSE Blank("disabled")]
      /\ UNCHANGED <<phase, got, serving, rows, about, restarts, raced, mixed>>
  BY DEF Forget, dbVars, historyVars
<1>3. req' = [req EXCEPT ![q] = y]
  BY DEF Forget
<1>4. about \in [Ids -> Models \cup {"unused"}] /\ snap \in [Keys -> Snapshot] /\ n \in Keys
  BY <1>1 DEF CatalogInv, Typed, TableType, CatalogType, Keys
<1>5. /\ \A o \in Names : o # n => snap'[o] = snap[o]
      /\ snap'[n].status \in {"absent", "disabled"}
  <2>1. \A o \in Names : o # n => snap'[o] = snap[o]
    BY <1>2, <1>4 DEF Keys
  <2>2. Blank("disabled").status = "disabled"
    BY BlankType
  <2>3. snap'[n] = IF snap[n].status = "absent" THEN snap[n] ELSE Blank("disabled")
    BY <1>2, <1>4
  <2> QED BY <2>1, <2>2, <2>3
<1>6. CASE r.op = "delete"
  <2>1. y = Done
    BY <1>6
  <2>2. Gone(r)
    BY <1>1, <1>6 DEF Gone
  <2>3. rows' = [rows EXCEPT ![r.id] = old]
    BY <1>2, RowsStay
  <2> HIDE DEF y
  <2>4. Step(q, old, y)
    BY <1>1, <1>2, <1>3, <1>4, <1>5, <2>1, <2>2, <2>3, DoneShape DEF Step
  <2> QED BY <2>4
<1>7. CASE r.op # "delete"
  <2>1. /\ y \in Request /\ y.pc = "read" /\ y.row = r.row /\ y.id = r.id /\ y.op = r.op /\ y.to = r.to
    BY <1>1, <1>7 DEF Request
  <2>2. Shaped(y) /\ ~Gone(y) /\ ~Gone(r)
    BY <1>1, <1>7, <2>1 DEF Shaped, Gone
  <2>3. rows' = [rows EXCEPT ![r.id] = old]
    BY <1>2, RowsStay
  <2> HIDE DEF y
  <2>4. Step(q, old, y)
    BY <1>1, <1>2, <1>3, <1>4, <1>5, <2>1, <2>2, <2>3 DEF Step
  <2> QED BY <2>4
<1> QED BY <1>6, <1>7

LEMMA ReadBackIsStep ==
    ASSUME CatalogInv, NEW q \in Requests, ReadBack(q)
    PROVE  \E x, y : Step(q, x, y)
<1> DEFINE r == req[q]
           old == rows[r.id]
           y == [r EXCEPT !.pc = "inject", !.row = old]
<1>1. /\ r.pc = "read" /\ r \in Request /\ Shaped(r) /\ InFlight(q) /\ r.id \in Ids
      /\ old \in RowOrNone /\ r.row \in Row /\ r.row # NoRow
  BY AtRequest DEF ReadBack
<1>2. /\ y \in Request /\ y.pc = "inject" /\ y.row = old /\ y.id = r.id /\ y.op = r.op /\ y.to = r.to
  BY <1>1 DEF Request, RowOrNone
<1>3. Shaped(y) /\ ~Gone(y) /\ ~Gone(r)
  BY <1>1, <1>2 DEF Shaped, Gone
<1>4. /\ req' = [req EXCEPT ![q] = y] /\ snap' = snap
      /\ UNCHANGED <<serving, rows, about, restarts, raced, mixed>>
  BY DEF ReadBack, CatalogInv, Typed, TableType, catalogVars, dbVars, historyVars
<1>5. about \in [Ids -> Models \cup {"unused"}] /\ (old # NoRow => old.name = r.row.name)
  BY <1>1 DEF CatalogInv, Typed, TableType, TableInv, SameName
<1>6. rows' = [rows EXCEPT ![r.id] = old]
  BY <1>4, RowsStay
<1> HIDE DEF y
<1>7. Step(q, old, y)
  BY <1>1, <1>2, <1>3, <1>4, <1>5, <1>6 DEF Step
<1> QED BY <1>7

LEMMA InjectIsStep ==
    ASSUME CatalogInv, NEW q \in Requests, Inject(q)
    PROVE  \E x, y : Step(q, x, y)
<1> DEFINE r == req[q]
           old == rows[r.id]
<1>1. /\ r.pc = "inject" /\ r \in Request /\ InFlight(q) /\ r.id \in Ids
      /\ old \in RowOrNone /\ r.row \in RowOrNone
  BY AtRequest DEF Inject
<1>2. /\ req' = [req EXCEPT ![q] = Done] /\ ~Gone(r)
      /\ UNCHANGED <<serving, rows, about, restarts, raced, mixed>>
  BY <1>1 DEF Inject, CatalogInv, Typed, TableType, dbVars, historyVars, Gone
<1>3. about \in [Ids -> Models \cup {"unused"}] /\ snap \in [Keys -> Snapshot]
  BY DEF CatalogInv, Typed, TableType, CatalogType
<1>4. rows' = [rows EXCEPT ![r.id] = old]
  BY <1>2, RowsStay
<1>5. \A n \in Names : r.row = NoRow \/ n # r.row.name => snap'[n] = snap[n]
  BY <1>3 DEF Inject, Keys
<1>6. r.row # NoRow => snap'[r.row.name] = Listing(r.row)
  <2>1. r.row # NoRow => r.row.name \in Keys
    BY <1>1, RowNames DEF RowOrNone, Keys
  <2> QED BY <1>3, <2>1 DEF Inject
<1>7. Step(q, old, Done)
  BY <1>1, <1>2, <1>3, <1>4, <1>5, <1>6, DoneShape DEF Step
<1> QED BY <1>7

\* The catalogue after a request's step: only entries of custom providers change.
LEMMA AdvanceCatalog ==
    ASSUME CatalogInv, NEW q \in Requests, Advance(q)
    PROVE  /\ CatalogType' /\ UNCHANGED <<phase, got, serving>>
           /\ \A p \in Builtins : snap'[p] = snap[p]
<1>1. snap \in [Keys -> Snapshot]
  BY DEF CatalogInv, Typed, CatalogType
<1>2. CASE Update(q) \/ Probe(q) \/ Delete(q) \/ ReadBack(q)
  BY <1>2 DEF Update, Probe, Delete, ReadBack, catalogVars, CatalogInv, Typed, CatalogType
<1>3. ASSUME NEW n \in Names, NEW s \in Snapshot, snap' = [snap EXCEPT ![n] = s],
             UNCHANGED <<phase, got, serving>>
      PROVE  /\ CatalogType' /\ UNCHANGED <<phase, got, serving>>
             /\ \A p \in Builtins : snap'[p] = snap[p]
  <2>1. n \notin Builtins
    BY ConstantsAssumption DEF Builtins
  <2> QED BY <1>1, <1>3, <2>1 DEF CatalogInv, Typed, CatalogType, Keys
<1>4. CASE Forget(q)
  <2> DEFINE n == req[q].row.name
             s == IF snap[n].status = "absent" THEN snap[n] ELSE Blank("disabled")
  <2>1. n \in Names /\ n \in Keys
    BY <1>4, AtRequest, RowNames DEF Forget, Keys
  <2>2. s \in Snapshot
    BY <1>1, <2>1, BlankType
  <2>3. snap' = [snap EXCEPT ![n] = s] /\ UNCHANGED <<phase, got, serving>>
    BY <1>4, <1>1 DEF Forget
  <2> HIDE DEF n, s
  <2> QED BY <1>3, <2>1, <2>2, <2>3
<1>5. CASE Inject(q)
  <2> DEFINE row == req[q].row
  <2>1. row \in RowOrNone /\ UNCHANGED <<phase, got, serving>>
    BY <1>5, AtRequest DEF Inject
  <2>2. CASE row = NoRow
    BY <1>5, <2>1, <2>2 DEF Inject, CatalogInv, Typed, CatalogType
  <2>3. CASE row # NoRow
    <3>1. row \in Row /\ row.name \in Names /\ Listing(row) \in Snapshot
      BY <2>1, <2>3, RowNames, ListingType DEF RowOrNone
    <3>2. snap' = [snap EXCEPT ![row.name] = Listing(row)]
      BY <1>5, <2>3 DEF Inject
    <3> HIDE DEF row
    <3> QED BY <1>3, <2>1, <3>1, <3>2
  <2> QED BY <2>2, <2>3
<1> QED BY <1>2, <1>4, <1>5 DEF Advance

LEMMA AdvanceKeeps ==
    ASSUME CatalogInv, NEW q \in Requests, Advance(q)
    PROVE  CatalogInv'
<1>1. PICK x, y : Step(q, x, y)
  BY UpdateIsStep, ProbeIsStep, DeleteIsStep, ForgetIsStep, ReadBackIsStep, InjectIsStep DEF Advance
<1>2. Typed'
  BY <1>1, StepTypes, AdvanceCatalog DEF Typed
<1>3. TableInv'
  BY <1>1, StepNames, StepAlone, StepStatus DEF TableInv
<1>4. CatalogAgrees'
  BY <1>1, StepAgrees
<1> QED BY <1>2, <1>3, <1>4 DEF CatalogInv

-----------------------------------------------------------------------------
(* A request arrives *)

Arrives(q, y) ==
    LET m == y.row.name IN
    /\ req[q].pc = "idle" /\ serving = "up" /\ UNCHANGED <<serving, restarts, snap, phase, got>>
    /\ req' = [req EXCEPT ![q] = y] /\ y \in Request /\ Shaped(y)
    /\ y.pc \in {"update", "probe", "delete"} /\ y.row \in Row /\ y.id \in Ids
    /\ Observe(m)
    /\ \/ /\ UNCHANGED <<rows, about>> /\ rows[y.id] = y.row
       \/ /\ RowsNamed(m) = {} /\ about[y.id] = "unused" /\ y.row.status = "none"
          /\ rows' = [rows EXCEPT ![y.id] = y.row]
          /\ \E c \in Models : about' = [about EXCEPT ![y.id] = c]

LEMMA ArriveFacts ==
    ASSUME CatalogInv, NEW q \in Requests, NEW y, Arrives(q, y)
    PROVE  /\ rows' \in [Ids -> RowOrNone] /\ rows'[y.id] = y.row
           /\ about' \in [Ids -> Models \cup {"unused"}] /\ about'[y.id] # "unused"
           /\ \A j \in Ids : rows[j] # NoRow => rows'[j] = rows[j] /\ about'[j] = about[j]
           /\ \A j \in Ids : j # y.id => rows'[j] = rows[j] /\ about'[j] = about[j]
           /\ \A j \in Ids : rows'[j] # NoRow =>
                 \/ rows[j] # NoRow
                 \/ j = y.id /\ about[j] = "unused" /\ y.row.status = "none" /\ RowsNamed(y.row.name) = {}
           /\ ~InFlight(q) /\ req'[q] = y /\ InFlight(q)' /\ On(q, y.row.name)'
           /\ \A p \in Requests : p # q => req'[p] = req[p] /\ (InFlight(p)' <=> InFlight(p))
           /\ y.row # NoRow /\ y.row.name \in Names
<1>1. y.row # NoRow /\ y.row.name \in Names /\ y.row \in RowOrNone
  BY RowNames DEF Arrives
<1>2. /\ ~InFlight(q) /\ req'[q] = y
      /\ \A p \in Requests : p # q => req'[p] = req[p]
  BY DEF Arrives, InFlight, CatalogInv, Typed, TableType
<1>3. /\ InFlight(q)' /\ On(q, y.row.name)'
      /\ \A p \in Requests : p # q => (InFlight(p)' <=> InFlight(p))
  BY <1>1, <1>2 DEF Arrives, InFlight, On
<1>4. y.id \in Ids /\ rows \in [Ids -> RowOrNone] /\ about \in [Ids -> Models \cup {"unused"}]
  BY DEF Arrives, CatalogInv, Typed, TableType
<1>5. CASE UNCHANGED <<rows, about>> /\ rows[y.id] = y.row
  <2>1. about[y.id] # "unused"
    BY <1>1, <1>4, <1>5 DEF CatalogInv, TableInv, UnusedIds
  <2> QED BY <1>1, <1>2, <1>3, <1>4, <1>5, <2>1
<1>6. CASE /\ RowsNamed(y.row.name) = {} /\ about[y.id] = "unused" /\ y.row.status = "none"
           /\ rows' = [rows EXCEPT ![y.id] = y.row]
           /\ \E c \in Models : about' = [about EXCEPT ![y.id] = c]
  <2>1. rows[y.id] = NoRow
    BY <1>4, <1>6 DEF CatalogInv, TableInv, UnusedIds
  <2>2. PICK c \in Models : about' = [about EXCEPT ![y.id] = c]
    BY <1>6
  <2>3. c # "unused"
    BY ConstantsAssumption
  <2>4. rows' \in [Ids -> RowOrNone] /\ rows'[y.id] = y.row /\ \A j \in Ids : j # y.id => rows'[j] = rows[j]
    BY <1>1, <1>4, <1>6
  <2>5. /\ about' \in [Ids -> Models \cup {"unused"}] /\ about'[y.id] # "unused"
        /\ \A j \in Ids : j # y.id => about'[j] = about[j]
    BY <1>4, <2>2, <2>3
  <2> QED BY <1>1, <1>2, <1>3, <1>4, <1>6, <2>1, <2>4, <2>5
<1> QED BY <1>5, <1>6 DEF Arrives

LEMMA ArriveKeeps ==
    ASSUME CatalogInv, NEW q \in Requests, NEW y, Arrives(q, y)
    PROVE  CatalogInv'
<1> DEFINE m == y.row.name
<1>1. /\ rows' \in [Ids -> RowOrNone] /\ rows'[y.id] = y.row
      /\ about' \in [Ids -> Models \cup {"unused"}] /\ about'[y.id] # "unused"
      /\ \A j \in Ids : rows[j] # NoRow => rows'[j] = rows[j] /\ about'[j] = about[j]
      /\ \A j \in Ids : j # y.id => rows'[j] = rows[j] /\ about'[j] = about[j]
      /\ \A j \in Ids : rows'[j] # NoRow =>
            \/ rows[j] # NoRow
            \/ j = y.id /\ about[j] = "unused" /\ y.row.status = "none" /\ RowsNamed(m) = {}
      /\ ~InFlight(q) /\ req'[q] = y /\ InFlight(q)' /\ On(q, m)'
      /\ \A p \in Requests : p # q => req'[p] = req[p] /\ (InFlight(p)' <=> InFlight(p))
      /\ y.row # NoRow /\ m \in Names
  BY ArriveFacts
<1>2. y.id \in Ids /\ serving = "up" /\ UNCHANGED <<serving, restarts, snap, phase, got>>
      /\ Shaped(y) /\ y.pc \in {"update", "probe", "delete"} /\ y \in Request
  BY DEF Arrives
<1>3. /\ raced' = raced \cup (IF Busy(m) THEN {m} ELSE {})
      /\ mixed' = mixed \cup (IF Busy(m) THEN {m} ELSE {})
  BY DEF Arrives, Observe
<1>4. Typed'
  <2>1. CatalogType'
    BY <1>2 DEF CatalogInv, Typed, CatalogType
  <2>2. req' \in [Requests -> Request] /\ \A p \in Requests : Shaped(req'[p])
    BY <1>1, <1>2 DEF Arrives, CatalogInv, Typed, TableType
  <2>3. TableType'
    BY <1>1, <1>2, <1>3, <2>2 DEF CatalogInv, Typed, TableType, Shaped
  <2> QED BY <2>1, <2>3 DEF Typed
<1>5. UniqueNames'
  BY <1>1 DEF CatalogInv, TableInv, UniqueNames, RowsNamed
<1>6. SameName' /\ UnusedIds'
  <2>1. \A p \in Requests : InFlight(p) => req[p].id \in Ids
    BY DEF CatalogInv, Typed, TableType, Shaped, InFlight
  <2>2. SameName'
    BY <1>1, <2>1 DEF CatalogInv, TableInv, SameName, UnusedIds
  <2>3. UnusedIds'
    BY <1>1 DEF CatalogInv, TableInv, UnusedIds
  <2> QED BY <2>2, <2>3
<1>7. BootInv'
  BY <1>2, <1>3 DEF CatalogInv, TableInv, BootInv
\* What does not concern the name of the new request stays.
<1>8. ASSUME NEW n \in Names, n # m
      PROVE  /\ \A p \in Requests : On(p, n)' => On(p, n) /\ p # q /\ req'[p] = req[p]
             /\ \A p \in Requests : On(p, n) => On(p, n)'
             /\ RowsNamed(n)' = RowsNamed(n)
  <2>1. \A p \in Requests : On(p, n)' => On(p, n) /\ p # q /\ req'[p] = req[p]
    BY <1>1, <1>8 DEF On
  <2>2. \A p \in Requests : On(p, n) => On(p, n)'
    BY <1>1 DEF On
  <2>3. RowsNamed(n)' = RowsNamed(n)
    BY <1>1, <1>8 DEF RowsNamed
  <2> QED BY <2>1, <2>2, <2>3
<1>9. Alone'
  <2> SUFFICES ASSUME NEW p \in Requests, NEW n \in Names \ raced', On(p, n)'
               PROVE  /\ \A o \in Requests : On(o, n)' => o = p
                      /\ IF Gone(req'[p]) THEN RowsNamed(n)' = {} ELSE rows'[req'[p].id] = req'[p].row
    BY DEF Alone
  <2>1. CASE n = m
    <3>1. \A o \in Requests : ~On(o, m)
      BY <1>3, <2>1, BusyIsOn
    <3>2. \A o \in Requests : On(o, m)' => o = q
      BY <1>1, <3>1 DEF On
    <3>3. ~Gone(y)
      BY <1>2 DEF Gone
    <3> QED BY <1>1, <2>1, <3>2, <3>3
  <2>2. CASE n # m
    <3>1. On(p, n) /\ req'[p] = req[p] /\ n \notin raced
      BY <1>3, <1>8, <2>2
    <3>2. /\ \A o \in Requests : On(o, n) => o = p
          /\ IF Gone(req[p]) THEN RowsNamed(n) = {} ELSE rows[req[p].id] = req[p].row
      BY <3>1 DEF CatalogInv, TableInv, Alone
    <3>3. req[p].id \in Ids /\ req[p].row # NoRow
      BY <3>1 DEF On, InFlight, CatalogInv, Typed, TableType, Shaped
    <3> QED BY <1>1, <1>8, <2>2, <3>1, <3>2, <3>3
  <2> QED BY <2>1, <2>2
<1>10. StatusInv'
  <2> SUFFICES ASSUME NEW j \in Ids, rows'[j] # NoRow, rows'[j].status # "none",
                      rows'[j].name \notin mixed'
               PROVE  \/ about'[j] = rows'[j].cfg
                      \/ \E p \in Requests : req'[p].pc = "probe" /\ req'[p].id = j
    BY DEF StatusInv
  <2>1. rows'[j] = rows[j] /\ rows[j] # NoRow /\ about'[j] = about[j]
    BY <1>1
  <2>2. \/ about[j] = rows[j].cfg
        \/ \E p \in Requests : req[p].pc = "probe" /\ req[p].id = j
    BY <1>3, <2>1 DEF CatalogInv, TableInv, StatusInv
  <2>3. \A p \in Requests : req[p].pc = "probe" => req'[p] = req[p]
    BY <1>1 DEF Arrives
  <2> QED BY <2>1, <2>2, <2>3
<1>11. CatalogAgrees'
  <2> SUFFICES ASSUME NEW n \in Names \ raced', ~Busy(n)'
               PROVE  IF RowsNamed(n)' = {} THEN snap'[n].status \in {"absent", "disabled"}
                      ELSE \A j \in RowsNamed(n)' :
                              \/ snap'[n] = Listing(rows'[j])
                              \/ ~rows'[j].enabled /\ snap'[n].status = "absent"
    BY DEF CatalogAgrees
  <2>1. \A p \in Requests : ~On(p, n)'
    BY DEF Busy, On
  <2>2. n # m
    BY <1>1, <2>1
  <2>3. ~Busy(n) /\ n \notin raced
    BY <1>3, <1>8, <2>1, <2>2, BusyIsOn
  <2>4. RowsNamed(n)' = RowsNamed(n) /\ \A j \in RowsNamed(n) : rows'[j] = rows[j]
    BY <1>1, <1>8, <2>2 DEF RowsNamed
  <2> QED BY <1>2, <2>3, <2>4 DEF CatalogInv, CatalogAgrees
<1>12. TableInv'
  BY <1>5, <1>6, <1>7, <1>9, <1>10 DEF TableInv
<1> QED BY <1>4, <1>11, <1>12 DEF CatalogInv

LEMMA FetchArrives ==
    ASSUME CatalogInv, NEW q \in Requests, NEW i \in Ids, NEW op \in {"patch", "switch", "delete", "probe"},
           NEW to \in Models \cup {"enable", "disable", "-"}, op = "patch" => to \in Models,
           Fetch(q, i, op, to)
    PROVE  \E y : Arrives(q, y)
<1> DEFINE pc == FirstStep(op)
           y == [Idle EXCEPT !.pc = pc, !.op = op, !.id = i, !.row = rows[i], !.to = to]
<1>1. rows[i] \in Row
  BY DEF Fetch, CatalogInv, Typed, TableType, RowOrNone
<1>2. /\ pc \in {"update", "delete", "probe"} /\ (pc = "update" => op \in {"patch", "switch"})
      /\ (pc = "delete" => op = "delete") /\ (pc = "probe" => op = "probe")
  BY DEF FirstStep
<1> HIDE DEF pc
<1>3. y \in Request /\ y.pc = pc /\ y.op = op /\ y.id = i /\ y.row = rows[i] /\ y.to = to
  BY <1>1, <1>2 DEF Idle, Request
<1>4. Shaped(y)
  BY <1>1, <1>2, <1>3 DEF Shaped
<1>5. /\ req[q].pc = "idle" /\ serving = "up" /\ req' = [req EXCEPT ![q] = y] /\ Observe(rows[i].name)
      /\ UNCHANGED <<snap, phase, got, rows, about, serving, restarts>>
  BY DEF Fetch, Accepts, catalogVars, dbVars, pc
<1> HIDE DEF y
<1>6. Arrives(q, y)
  BY <1>1, <1>2, <1>3, <1>4, <1>5 DEF Arrives
<1> QED BY <1>6

LEMMA CreateArrives ==
    ASSUME CatalogInv, NEW q \in Requests, NEW n \in Names, NEW c \in NewModels, Create(q, n, c)
    PROVE  \E y : Arrives(q, y)
<1> DEFINE row == [name |-> n, cfg |-> c, enabled |-> TRUE, status |-> "none"]
<1>1. PICK i \in Ids :
         /\ about[i] = "unused"
         /\ rows' = [rows EXCEPT ![i] = row]
         /\ about' = [about EXCEPT ![i] = c]
         /\ req' = [req EXCEPT ![q] = [Idle EXCEPT !.pc = "probe", !.op = "create",
                                                   !.id = i, !.row = row]]
  BY DEF Create
<1> DEFINE y == [Idle EXCEPT !.pc = "probe", !.op = "create", !.id = i, !.row = row]
<1>2. c \in Models
  BY ConstantsAssumption
<1>3. row \in Row /\ row.name = n /\ row.status = "none"
  BY <1>2 DEF Row
<1> HIDE DEF row
<1>4. y \in Request /\ y.pc = "probe" /\ y.op = "create" /\ y.id = i /\ y.row = row
  BY <1>3 DEF Idle, Request
<1>5. Shaped(y)
  BY <1>3, <1>4 DEF Shaped
<1>6. /\ req[q].pc = "idle" /\ serving = "up" /\ RowsNamed(n) = {} /\ Observe(n)
      /\ UNCHANGED <<snap, phase, got, serving, restarts>>
  BY DEF Create, Accepts, catalogVars
<1>7. req' = [req EXCEPT ![q] = y]
  BY <1>1
<1> HIDE DEF y
<1>8. Arrives(q, y)
  BY <1>1, <1>2, <1>3, <1>4, <1>5, <1>6, <1>7 DEF Arrives
<1> QED BY <1>8

-----------------------------------------------------------------------------
(* The refresh loop and the lifespan beside the requests *)

LEMMA RefreshApart ==
    ASSUME CatalogInv, Refresh
    PROVE  /\ UNCHANGED <<rows, req, restarts, about, raced, mixed>>
           /\ serving' = "up" <=> serving = "up"
           /\ \A n \in Names : snap'[n] = snap[n]
<1>1. \A n \in Names : n \in Keys /\ n \notin Singles /\ n \notin Multis /\ n \notin Builtins
  BY ConstantsAssumption DEF Keys, Builtins
<1>2. CASE \E p \in Singles : SingleAnswers(p)
  BY <1>2 DEF SingleAnswers
<1>3. CASE WriteSingles
  BY <1>1, <1>3 DEF WriteSingles
<1>4. CASE MultiAnswers
  BY <1>1, <1>4 DEF MultiAnswers
<1>5. CASE Wake
  BY <1>1, <1>5 DEF Wake
<1> QED BY <1>2, <1>3, <1>4, <1>5 DEF Refresh

LEMMA RefreshAge == ASSUME AgeInv, Refresh PROVE AgeInv'
  BY SingleAnswersAge, WriteSinglesAge, MultiAnswersAge, WakeAge DEF Refresh

\* Without a change of rows and requests, and none in the catalogue's custom
\* entries, the invariant stays.
LEMMA TableStays ==
    ASSUME CatalogInv, UNCHANGED <<rows, req, restarts, about, raced, mixed>>,
           CatalogType', serving' = "up" <=> serving = "up",
           \A n \in Names : snap'[n] = snap[n]
    PROVE  CatalogInv'
<1>1. Typed'
  BY DEF CatalogInv, Typed, TableType, Shaped
<1>2. UniqueNames' /\ SameName' /\ UnusedIds' /\ Alone' /\ StatusInv'
  BY DEF CatalogInv, TableInv, UniqueNames, SameName, UnusedIds, Alone, StatusInv,
         InFlight, On, Gone, RowsNamed
<1>3. BootInv'
  BY DEF CatalogInv, TableInv, BootInv, InFlight
<1>4. CatalogAgrees'
  BY DEF CatalogInv, CatalogAgrees, Busy, InFlight, RowsNamed
<1> QED BY <1>1, <1>2, <1>3, <1>4 DEF CatalogInv, TableInv

\* The rows are loaded when nothing custom is in the catalogue.
LEMMA LoadRowsKeeps == ASSUME CatalogInv, AgeInv, LoadRows PROVE CatalogInv' /\ AgeInv'
<1>1. /\ serving = "loading" /\ serving' = "up"
      /\ UNCHANGED <<phase, got, rows, req, restarts, about, raced, mixed>>
      /\ snap' = [k \in Keys |->
            IF \E i \in Ids : rows[i] # NoRow /\ rows[i].name = k /\ rows[i].enabled
            THEN Listing(rows[CHOOSE i \in Ids : rows[i] # NoRow /\ rows[i].name = k])
            ELSE snap[k]]
  BY DEF LoadRows
<1>2. ASSUME NEW k \in Keys, NEW i \in Ids, rows[i] # NoRow, rows[i].name = k, rows[i].enabled
      PROVE  /\ snap'[k] = Listing(rows[i]) /\ rows[i] \in Row
             /\ \A j \in RowsNamed(k) : j = i
  <2>1. \A j \in RowsNamed(k) : j = i
    BY <1>2 DEF RowsNamed, CatalogInv, TableInv, UniqueNames
  <2> DEFINE j == CHOOSE j \in Ids : rows[j] # NoRow /\ rows[j].name = k
  <2>2. j \in Ids /\ rows[j] # NoRow /\ rows[j].name = k
    BY <1>2
  <2>3. j = i
    BY <2>1, <2>2 DEF RowsNamed
  <2>4. rows[i] \in Row
    BY <1>2 DEF CatalogInv, Typed, TableType, RowOrNone
  <2>5. snap'[k] = Listing(rows[j])
    BY <1>1, <1>2
  <2> QED BY <2>1, <2>3, <2>4, <2>5
<1>3. ASSUME NEW k \in Keys, ~\E i \in Ids : rows[i] # NoRow /\ rows[i].name = k /\ rows[i].enabled
      PROVE  snap'[k] = snap[k]
  BY <1>1, <1>3
<1>4. \A k \in Keys : snap'[k] \in Snapshot
  BY <1>2, <1>3, ListingType DEF CatalogInv, Typed, CatalogType
<1>5. CatalogType'
  <2>1. snap' \in [Keys -> Snapshot]
    BY <1>1, <1>4
  <2> QED BY <1>1, <2>1 DEF CatalogInv, Typed, CatalogType
<1>6. \A p \in Builtins : snap'[p] = snap[p]
  <2> SUFFICES ASSUME NEW p \in Builtins PROVE snap'[p] = snap[p]
    OBVIOUS
  <2>1. \A i \in Ids : rows[i] # NoRow => rows[i].name # p
    BY RowNames, ConstantsAssumption DEF Builtins, CatalogInv, Typed, TableType, RowOrNone
  <2> QED BY <1>3, <2>1 DEF Keys
<1>7. AgeInv'
  BY <1>1, <1>5, <1>6 DEF AgeInv, ListingAgesOut, Young, Builtins
<1>8. TableInv'
  <2>1. UniqueNames' /\ SameName' /\ UnusedIds' /\ Alone' /\ StatusInv'
    BY <1>1 DEF CatalogInv, TableInv, UniqueNames, SameName, UnusedIds, Alone, StatusInv,
           InFlight, On, Gone, RowsNamed
  <2>2. BootInv'
    BY <1>1 DEF CatalogInv, TableInv, BootInv
  <2> QED BY <2>1, <2>2 DEF TableInv
<1>9. Typed'
  BY <1>1, <1>5 DEF CatalogInv, Typed, TableType, Shaped
<1>10. CatalogAgrees'
  <2> SUFFICES ASSUME NEW n \in Names
               PROVE  IF RowsNamed(n)' = {} THEN snap'[n].status \in {"absent", "disabled"}
                      ELSE \A j \in RowsNamed(n)' :
                              \/ snap'[n] = Listing(rows'[j])
                              \/ ~rows'[j].enabled /\ snap'[n].status = "absent"
    BY DEF CatalogAgrees
  <2>1. RowsNamed(n)' = RowsNamed(n) /\ rows' = rows /\ snap[n].status = "absent" /\ n \in Keys
    BY <1>1 DEF RowsNamed, CatalogInv, TableInv, BootInv, Keys
  <2>2. CASE \E i \in Ids : rows[i] # NoRow /\ rows[i].name = n /\ rows[i].enabled
    BY <1>2, <2>1, <2>2 DEF RowsNamed
  <2>3. CASE ~\E i \in Ids : rows[i] # NoRow /\ rows[i].name = n /\ rows[i].enabled
    <3>1. \A j \in RowsNamed(n) : ~rows[j].enabled
      BY <2>3 DEF RowsNamed
    <3> QED BY <1>3, <2>1, <2>3, <3>1
  <2> QED BY <2>2, <2>3
<1> QED BY <1>7, <1>8, <1>9, <1>10 DEF CatalogInv

LEMMA AtStartType ==
    /\ AtStart \in [Keys -> Snapshot]
    /\ \A p \in Builtins : AtStart[p].status = "disabled"
    /\ \A n \in Names : AtStart[n].status = "absent"
<1>1. \A n \in Names : n \notin Builtins
  BY ConstantsAssumption DEF Builtins
<1>2. Blank("disabled") \in Snapshot /\ Blank("disabled").status = "disabled"
  BY BlankType
<1>3. Blank("absent") \in Snapshot /\ Blank("absent").status = "absent"
  BY BlankType
<1> QED BY <1>1, <1>2, <1>3 DEF AtStart, Keys

\* Nothing but the table outlives a restart.
LEMMA StartedAfresh ==
    ASSUME snap' = AtStart, phase' = "singles", got' = [p \in Singles |-> Pending],
           serving' = "probing"
    PROVE  CatalogType' /\ AgeInv' /\ (\A n \in Names : snap'[n].status = "absent")
<1>1. Pending \in Snapshot /\ Young(Pending)
  BY BlankType DEF Pending, Young, Good
<1>2. CatalogType'
  BY <1>1, AtStartType DEF CatalogType
<1>3. AgeInv'
  BY <1>1, <1>2, AtStartType DEF AgeInv, ListingAgesOut, Young, Good
<1> QED BY <1>2, <1>3, AtStartType

LEMMA RestartKeeps == ASSUME CatalogInv, Restart PROVE CatalogInv' /\ AgeInv'
<1>1. /\ CatalogType' /\ AgeInv' /\ serving' = "probing"
      /\ \A n \in Names : snap'[n].status = "absent"
  BY StartedAfresh DEF Restart
<1>2. /\ UNCHANGED <<rows, about>> /\ raced' = {} /\ mixed' = mixed \cup {n \in Names : Busy(n)}
      /\ req' = [q \in Requests |-> IF InFlight(q) THEN Done ELSE req[q]]
  BY DEF Restart, dbVars
<1>3. \A q \in Requests : ~InFlight(q)' /\ req'[q] \in Request /\ Shaped(req'[q])
  BY <1>2, DoneShape DEF InFlight, CatalogInv, Typed, TableType
<1>4. restarts' \in 0..MaxRestarts
  <2>1. MaxRestarts \in Nat
    BY LimitIsNat
  <2> QED BY <2>1 DEF Restart, CatalogInv, Typed, TableType
<1>5. TableType'
  BY <1>2, <1>3, <1>4 DEF CatalogInv, Typed, TableType, Shaped
<1>6. UniqueNames' /\ SameName' /\ UnusedIds' /\ Alone' /\ BootInv'
  BY <1>1, <1>2, <1>3 DEF CatalogInv, TableInv, UniqueNames, SameName, UnusedIds, Alone, BootInv, On
<1>7. StatusInv'
  <2> SUFFICES ASSUME NEW j \in Ids, rows[j] # NoRow, rows[j].status # "none",
                      rows[j].name \notin mixed'
               PROVE  about[j] = rows[j].cfg
    BY <1>2 DEF StatusInv
  <2>1. rows[j].name \in Names
    BY RowNames DEF CatalogInv, Typed, TableType, RowOrNone
  <2>2. ~Busy(rows[j].name) /\ rows[j].name \notin mixed
    BY <1>2, <2>1
  <2>3. \A q \in Requests : req[q].pc = "probe" /\ req[q].id = j => On(q, rows[j].name)
    BY AtRequest DEF On, CatalogInv, TableInv, SameName
  <2> QED BY <2>2, <2>3, BusyIsOn DEF CatalogInv, TableInv, StatusInv
<1>8. CatalogAgrees'
  BY <1>1 DEF CatalogAgrees
<1> QED BY <1>1, <1>5, <1>6, <1>7, <1>8 DEF CatalogInv, TableInv, Typed

Inv == CatalogInv /\ AgeInv

LEMMA InvInit == Init => Inv
<1> SUFFICES ASSUME Init PROVE Inv
  OBVIOUS
<1>1. Pending \in Snapshot /\ Young(Pending)
  BY BlankType DEF Pending, Young, Good
<1>2. CatalogType
  BY <1>1, AtStartType DEF Init, CatalogType
<1>3. AgeInv
  BY <1>1, <1>2, AtStartType DEF Init, AgeInv, ListingAgesOut, Young, Good
<1>4. Idle \in Request /\ Shaped(Idle) /\ Idle.pc = "idle"
  BY DEF Idle, Request, Shaped
<1>5. \A q \in Requests : ~InFlight(q) /\ req[q].pc # "probe"
  BY <1>4 DEF Init, InFlight
<1>6. TableType
  <2>1. 0 \in 0..MaxRestarts
    BY LimitIsNat
  <2> QED BY <1>4, <2>1 DEF Init, TableType, RowOrNone
<1>7. TableInv
  BY <1>5, AtStartType DEF Init, TableInv, UniqueNames, SameName, UnusedIds, Alone, BootInv, StatusInv, On
<1>8. CatalogAgrees
  BY DEF Init, CatalogAgrees
<1> QED BY <1>2, <1>3, <1>6, <1>7, <1>8 DEF Inv, CatalogInv, Typed

LEMMA InvNext == ASSUME Inv, [Next]_vars PROVE Inv'
<1>1. CASE UNCHANGED vars
  <2>1. CatalogType'
    BY <1>1 DEF vars, Inv, AgeInv, CatalogType
  <2>2. CatalogInv'
    BY <1>1, <2>1, TableStays DEF vars, Inv
  <2> QED BY <1>1, <2>1, <2>2 DEF vars, Inv, AgeInv, ListingAgesOut, Young
<1>2. CASE Refresh
  <2>1. AgeInv'
    BY <1>2, RefreshAge DEF Inv
  <2>2. CatalogType'
    BY <2>1 DEF AgeInv
  <2> QED BY <1>2, <2>1, <2>2, RefreshApart, TableStays DEF Inv
<1>3. CASE LoadRows
  BY <1>3, LoadRowsKeeps DEF Inv
<1>4. CASE Restart
  BY <1>4, RestartKeeps DEF Inv
<1>5. ASSUME NEW q \in Requests, Arrive(q) PROVE Inv'
  <2>1. \E y : Arrives(q, y)
    BY <1>5, CreateArrives, FetchArrives DEF Arrive, Inv
  <2>2. CatalogInv'
    BY <2>1, ArriveKeeps DEF Inv
  <2>3. UNCHANGED <<snap, phase, got, serving>>
    BY <2>1 DEF Arrives
  <2> QED BY <2>2, <2>3 DEF Inv, AgeInv, CatalogType, ListingAgesOut, Young
<1>6. ASSUME NEW q \in Requests, Advance(q) PROVE Inv'
  <2>1. CatalogInv'
    BY <1>6, AdvanceKeeps DEF Inv
  <2>2. CatalogType' /\ UNCHANGED <<phase, got, serving>> /\ \A p \in Builtins : snap'[p] = snap[p]
    BY <1>6, AdvanceCatalog DEF Inv
  <2> QED BY <2>1, <2>2 DEF Inv, AgeInv, ListingAgesOut, Young, Builtins
<1> QED BY <1>1, <1>2, <1>3, <1>4, <1>5, <1>6 DEF Next

LEMMA InvAlways == Spec => []Inv
<1>1. Init => Inv
  BY InvInit
<1>2. Inv /\ [Next]_vars => Inv'
  BY InvNext
<1> QED BY <1>1, <1>2, PTL DEF Spec

\* Every variable keeps the shape the code gives it (catalog.py, llm_providers.py).
THEOREM TypeCorrect == Spec => []TypeOK
<1>1. Inv => TypeOK
  BY TypedIsTyped DEF Inv, CatalogInv
<1> QED BY <1>1, InvAlways, PTL

\* No listing of a built-in provider is served beyond the limit and the interval
\* it takes to notice, however often its probes fail (ProviderCatalog._safe_probe).
THEOREM ListingsAgeOut == Spec => []ListingAgesOut
<1>1. Inv => ListingAgesOut
  BY DEF Inv, AgeInv
<1> QED BY <1>1, InvAlways, PTL

\* Where requests on a custom provider did not overlap since the start, the
\* catalogue says what its row says once they are over (llm_providers.py).
THEOREM CatalogFollowsTable == Spec => []CatalogAgrees
<1>1. Inv => CatalogAgrees
  BY DEF Inv, CatalogInv
<1> QED BY <1>1, InvAlways, PTL

\* A probe status is about the configuration in its row, unless requests on it
\* overlapped or a restart cut one short (patch_llm_provider).
THEOREM StatusIsOfConfig == Spec => []ProbedConfig
<1>1. Inv => ProbedConfig
  <2> SUFFICES ASSUME Inv, NEW i \in Ids, rows[i] # NoRow, rows[i].status # "none",
                      rows[i].name \notin mixed, about[i] # rows[i].cfg
               PROVE  Busy(rows[i].name)
    BY DEF ProbedConfig
  <2>1. CatalogInv
    BY DEF Inv
  <2>2. PICK q \in Requests : req[q].pc = "probe" /\ req[q].id = i
    BY <2>1 DEF CatalogInv, TableInv, StatusInv
  <2>3. On(q, rows[i].name)
    BY <2>1, <2>2, AtRequest DEF On, CatalogInv, TableInv, SameName
  <2> QED BY <2>3, BusyIsOn
<1> QED BY <1>1, InvAlways, PTL
=============================================================================
