-------------------------- MODULE ProviderCatalog --------------------------
(***************************************************************************)
(* The model catalogue of the coordinator: snapshots of what each provider *)
(* lists, kept by a refresh loop for the built-in providers and by the     *)
(* endpoints of the custom ones, beside the llm_providers table.           *)
(* A handler is cut where it awaits: on the database and on a probe.       *)
(***************************************************************************)
EXTENDS Naturals, FiniteSets

CONSTANTS
    Singles,      \* built-in providers with a probe of their own
    Multis,       \* built-in providers that share one probe
    Configured,   \* those whose key or address is in the environment
    Names,        \* names of custom providers
    Models,       \* model ids; the configuration of a custom provider is one
    NewModels,    \* the configurations a creation may bring
    Listings,     \* what a built-in provider may answer: sets of models
    Ids,          \* database ids: bounds the creations
    Requests,     \* requests on custom providers, numbered as they arrive (a bound)
    StaleLimit,   \* how many refresh intervals a listing may be reused
    MaxRestarts   \* bound: restarts of the coordinator

ASSUME ConstantsAssumption ==
    /\ Configured \subseteq Singles \cup Multis
    /\ Listings \subseteq SUBSET Models /\ NewModels \subseteq Models
    /\ Singles \cap Multis = {} /\ Names \cap (Singles \cup Multis) = {}
    /\ "no row" \notin Names /\ "unused" \notin Models
    /\ StaleLimit \in Nat /\ MaxRestarts \in Nat /\ Ids \subseteq Nat /\ Requests \subseteq Nat

VARIABLES
    snap,      \* _snapshots: what the catalogue says of each provider
    phase,     \* of _run_probes: "singles", "multis", or the loop's "sleep"
    got,       \* answers of the single probes, gathered but not yet written
    serving,   \* lifespan: "probing", "loading", then "up"
    rows,      \* the llm_providers table
    req,       \* the requests and where each one is
    restarts,
    about,     \* history: the configuration each row's probe status speaks of
    raced,     \* history: names with overlapping requests since the last start
    mixed      \* history: names with overlapping or interrupted requests

catalogVars == <<snap, phase, got>>
dbVars == <<rows, about>>
historyVars == <<raced, mixed>>
vars == <<snap, phase, got, serving, rows, req, restarts, about, raced, mixed>>

Builtins == Singles \cup Multis
Keys == Builtins \cup Names
Good == {"fresh", "stale"}

\* ProviderSnapshot; "absent" is a key that is not in the map. The age counts
\* refresh intervals since fetched_at; beyond StaleLimit + 1 it no longer matters.
Snapshot == [status : Good \cup {"disabled", "failed", "absent"},
             models : SUBSET Models, age : 0..StaleLimit + 2]
Blank(s) == [status |-> s, models |-> {}, age |-> 0]
Listed(ms) == [status |-> "fresh", models |-> ms, age |-> 0]
Pending == Blank("absent")

Row == [name : Names, cfg : Models, enabled : BOOLEAN,
        status : {"none", "fresh", "failed"}]
NoRow == [name |-> "no row"]
Request == [pc : {"idle", "update", "probe", "forget", "read",
                  "inject", "delete", "done"},
            op : {"none", "create", "patch", "switch", "delete", "probe"},
            id : Ids \cup {0}, row : Row \cup {NoRow},
            to : Models \cup {"enable", "disable", "-"}]
Idle == [pc |-> "idle", op |-> "none", id |-> 0, row |-> NoRow, to |-> "-"]
Done == [Idle EXCEPT !.pc = "done"]

-----------------------------------------------------------------------------
(* The refresh loop *)

\* Mutant: the age of the prior snapshot is not looked at.
ByPriorOfAnyAge(p) ==
    IF snap[p].status \in Good THEN [snap[p] EXCEPT !.status = "stale"] ELSE Blank("failed")

\* The result for p of a probe that raised: the prior snapshot, read after the
\* probe, is kept as stale unless there is nothing usable or it is too old.
ByPrior(p) ==
    IF snap[p].status \in Good /\ snap[p].age <= StaleLimit
    THEN [snap[p] EXCEPT !.status = "stale"]
    ELSE Blank("failed")

ProbeResults(p) ==
    IF p \in Configured THEN {Listed(ms) : ms \in Listings} \cup {ByPrior(p)}
                        ELSE {Blank("disabled")}

SingleAnswers(p) ==
    /\ phase = "singles" /\ got[p] = Pending
    /\ \E s \in ProbeResults(p) : got' = [got EXCEPT ![p] = s]
    /\ UNCHANGED <<snap, phase, serving, rows, req, restarts, about, raced, mixed>>

WriteSingles ==
    /\ phase = "singles" /\ \A p \in Singles : got[p] # Pending
    /\ snap' = [k \in Keys |-> IF k \in Singles THEN got[k] ELSE snap[k]]
    /\ got' = [p \in Singles |-> Pending]
    /\ phase' = "multis"
    /\ UNCHANGED <<serving, rows, req, restarts, about, raced, mixed>>

\* probe_many: one call for every key; it lists the keys it has credentials for,
\* and when it raises each key falls back on its own prior snapshot.
MultiResults ==
    IF Configured \cap Multis = {} THEN {[p \in Multis |-> Blank("disabled")]}
    ELSE {[p \in Multis |-> IF p \in Configured THEN Listed(f[p]) ELSE Blank("disabled")]
             : f \in [Multis -> Listings]}
         \cup {[p \in Multis |-> ByPrior(p)]}

MultiAnswers ==
    /\ phase = "multis"
    /\ \E result \in MultiResults :
          snap' = [k \in Keys |-> IF k \in Multis THEN result[k] ELSE snap[k]]
    /\ phase' = "sleep"
    /\ serving' = IF serving = "probing" THEN "loading" ELSE serving
    /\ UNCHANGED <<got, rows, req, restarts, about, raced, mixed>>

Older(s) == [s EXCEPT !.age = IF @ < StaleLimit + 2 THEN @ + 1 ELSE @]

Wake ==
    /\ phase = "sleep"
    /\ phase' = "singles"
    /\ snap' = [k \in Keys |-> IF snap[k].status \in Good /\ k \in Builtins
                               THEN Older(snap[k]) ELSE snap[k]]
    /\ UNCHANGED <<got, serving, rows, req, restarts, about, raced, mixed>>

-----------------------------------------------------------------------------
(* Custom providers *)

InFlight(q) == req[q].pc \notin {"idle", "done"}
Busy(n) == \E q \in Requests : InFlight(q) /\ req[q].row # NoRow /\ req[q].row.name = n
RowsNamed(n) == {i \in Ids : rows[i] # NoRow /\ rows[i].name = n}

\* _inject_custom_into_catalog: the snapshot a row stands for.
Listing(row) ==
    CASE row.status = "none"   -> Blank("disabled")
      [] row.status = "failed" -> Blank("failed")
      [] row.status = "fresh"  -> Listed({row.cfg})

Observe(n) == /\ raced' = IF Busy(n) THEN raced \cup {n} ELSE raced
              /\ mixed' = IF Busy(n) THEN mixed \cup {n} ELSE mixed

Accepts(q) == /\ serving = "up" /\ req[q].pc = "idle"
              /\ \A p \in Requests : p < q => req[p].pc # "idle"

\* create_llm_provider up to its insert, with the UNIQUE constraint on the name.
Create(q, n, c) ==
    /\ Accepts(q) /\ RowsNamed(n) = {}
    /\ \E i \in Ids :
          /\ about[i] = "unused" /\ \A j \in Ids : j < i => about[j] # "unused"
          /\ LET row == [name |-> n, cfg |-> c, enabled |-> TRUE, status |-> "none"] IN
               /\ rows' = [rows EXCEPT ![i] = row]
               /\ about' = [about EXCEPT ![i] = c]
               /\ req' = [req EXCEPT ![q] = [Idle EXCEPT !.pc = "probe", !.op = "create",
                                                         !.id = i, !.row = row]]
    /\ Observe(n)
    /\ UNCHANGED <<catalogVars, serving, restarts>>

FirstStep(op) == CASE op \in {"patch", "switch"} -> "update"
                   [] op = "delete" -> "delete"
                   [] op = "probe" -> "probe"

\* The other handlers begin by reading the row; without one they answer 404.
Fetch(q, i, op, to) ==
    /\ Accepts(q) /\ rows[i] # NoRow
    /\ req' = [req EXCEPT ![q] = [Idle EXCEPT !.pc = FirstStep(op), !.op = op, !.id = i,
                                              !.row = rows[i], !.to = to]]
    /\ Observe(rows[i].name)
    /\ UNCHANGED <<catalogVars, dbVars, serving, restarts>>

Patched(row, op, to) == IF op = "patch" THEN [row EXCEPT !.cfg = to]
                                        ELSE [row EXCEPT !.enabled = (to = "enable")]

\* Mutant: what is probed is the row as it was read.
UpdateProbesOld(q) ==
    LET r == req[q] IN
    /\ r.pc = "update"
    /\ rows' = [rows EXCEPT ![r.id] = IF @ = NoRow THEN @ ELSE Patched(@, r.op, r.to)]
    /\ req' = [req EXCEPT ![q].pc = IF r.op = "patch" THEN "probe" ELSE "read"]
    /\ UNCHANGED <<catalogVars, serving, restarts, about, historyVars>>

\* patch_llm_provider writes its fields; "merged" is made from the row it read
\* before. An UPDATE of a row that is gone changes nothing.
Update(q) ==
    LET r == req[q] IN
    /\ r.pc = "update"
    /\ rows' = [rows EXCEPT ![r.id] = IF @ = NoRow THEN @ ELSE Patched(@, r.op, r.to)]
    /\ req' = [req EXCEPT ![q].pc = IF r.op = "patch" THEN "probe" ELSE "read",
                          ![q].row = Patched(@, r.op, r.to)]
    /\ UNCHANGED <<catalogVars, serving, restarts, about, historyVars>>

AfterProbe(op) == CASE op = "create" -> "inject"
                     [] op = "patch" -> "forget"
                     [] op = "probe" -> "read"

\* _probe_custom_provider succeeds, raises or times out after 15 s, and the
\* handler writes the outcome to whatever the row is by then. The probe itself asks
\* a server about the row in hand: it shares nothing, so it is one step with the
\* write, whatever other handlers do in the meantime.
Probe(q) ==
    LET r == req[q] IN
    /\ r.pc = "probe"
    /\ \E res \in {"fresh", "failed"} :
          /\ rows' = [rows EXCEPT ![r.id] = IF @ = NoRow THEN @ ELSE [@ EXCEPT !.status = res]]
          /\ req' = [req EXCEPT ![q].pc = AfterProbe(r.op), ![q].row = [@ EXCEPT !.status = res]]
    /\ about' = [about EXCEPT ![r.id] = r.row.cfg]
    /\ UNCHANGED <<catalogVars, serving, restarts, historyVars>>

Delete(q) ==
    /\ req[q].pc = "delete"
    /\ rows' = [rows EXCEPT ![req[q].id] = NoRow]
    /\ req' = [req EXCEPT ![q].pc = "forget"]
    /\ UNCHANGED <<catalogVars, serving, restarts, about, historyVars>>

\* Mutant: the catalogue is not told of a deletion.
ForgetOnPatch(q) ==
    LET n == req[q].row.name IN
    /\ req[q].pc = "forget"
    /\ snap' = [snap EXCEPT ![n] = IF req[q].op = "delete" THEN @ ELSE Blank("disabled")]
    /\ req' = [req EXCEPT ![q] = IF @.op = "delete" THEN Done ELSE [@ EXCEPT !.pc = "read"]]
    /\ UNCHANGED <<phase, got, serving, dbVars, restarts, historyVars>>

\* _invalidate_catalog_for_custom, by the name read at the start.
Forget(q) ==
    LET n == req[q].row.name IN
    /\ req[q].pc = "forget"
    /\ snap' = [snap EXCEPT ![n] = IF @.status = "absent" THEN @ ELSE Blank("disabled")]
    /\ req' = [req EXCEPT ![q] = IF @.op = "delete" THEN Done ELSE [@ EXCEPT !.pc = "read"]]
    /\ UNCHANGED <<phase, got, serving, dbVars, restarts, historyVars>>

ReadBack(q) ==
    /\ req[q].pc = "read"
    /\ req' = [req EXCEPT ![q].pc = "inject", ![q].row = rows[req[q].id]]
    /\ UNCHANGED <<catalogVars, dbVars, serving, restarts, historyVars>>

\* The row read back (or, in create, built before the probe) goes to the
\* catalogue; when it is gone the handler raises and answers 500.
Inject(q) ==
    LET row == req[q].row IN
    /\ req[q].pc = "inject"
    /\ snap' = IF row = NoRow THEN snap ELSE [snap EXCEPT ![row.name] = Listing(row)]
    /\ req' = [req EXCEPT ![q] = Done]
    /\ UNCHANGED <<phase, got, serving, dbVars, restarts, historyVars>>

-----------------------------------------------------------------------------
(* The coordinator's lifespan *)

AtStart == [k \in Keys |-> Blank(IF k \in Builtins THEN "disabled" ELSE "absent")]

\* The last step of start-up: the enabled rows are loaded into the catalogue.
LoadRows ==
    /\ serving = "loading"
    /\ serving' = "up"
    /\ snap' = [k \in Keys |->
          IF \E i \in Ids : rows[i] # NoRow /\ rows[i].name = k /\ rows[i].enabled
          THEN Listing(rows[CHOOSE i \in Ids : rows[i] # NoRow /\ rows[i].name = k])
          ELSE snap[k]]
    /\ UNCHANGED <<phase, got, rows, req, restarts, about, raced, mixed>>

\* Everything but the table is lost, the requests in flight included.
Restart ==
    /\ restarts < MaxRestarts
    /\ restarts' = restarts + 1
    /\ snap' = AtStart /\ phase' = "singles" /\ serving' = "probing"
    /\ got' = [p \in Singles |-> Pending]
    /\ req' = [q \in Requests |-> IF InFlight(q) THEN Done ELSE req[q]]
    /\ raced' = {}
    /\ mixed' = mixed \cup {n \in Names : Busy(n)}
    /\ UNCHANGED dbVars

Init ==
    /\ snap = AtStart /\ phase = "singles" /\ serving = "probing"
    /\ got = [p \in Singles |-> Pending]
    /\ rows = [i \in Ids |-> NoRow]
    /\ about = [i \in Ids |-> "unused"]
    /\ req = [q \in Requests |-> Idle]
    /\ restarts = 0 /\ raced = {} /\ mixed = {}

Refresh == (\E p \in Singles : SingleAnswers(p)) \/ WriteSingles \/ MultiAnswers \/ Wake

Advance(q) == \/ Update(q) \/ Probe(q) \/ Delete(q)
              \/ Forget(q) \/ ReadBack(q) \/ Inject(q)

Arrive(q) ==
    \/ \E n \in Names, c \in NewModels : Create(q, n, c)
    \/ \E i \in Ids, c \in Models : Fetch(q, i, "patch", c)
    \/ \E i \in Ids, to \in {"enable", "disable"} : Fetch(q, i, "switch", to)
    \/ \E i \in Ids, op \in {"delete", "probe"} : Fetch(q, i, op, "-")

Next == Refresh \/ LoadRows \/ Restart \/ \E q \in Requests : Arrive(q) \/ Advance(q)

Spec == Init /\ [][Next]_vars

-----------------------------------------------------------------------------
(* Properties *)

\* Every variable keeps the shape the code gives it.
TypeOK ==
    /\ snap \in [Keys -> Snapshot]
    /\ phase \in {"singles", "multis", "sleep"}
    /\ got \in [Singles -> Snapshot]
    /\ serving \in {"probing", "loading", "up"}
    /\ rows \in [Ids -> Row \cup {NoRow}]
    /\ about \in [Ids -> Models \cup {"unused"}]
    /\ req \in [Requests -> Request]
    /\ restarts \in 0..MaxRestarts
    /\ raced \subseteq Names /\ mixed \subseteq Names

\* Once its requests are over, what the catalogue says of a custom provider is
\* what its row says, unless requests on it overlapped since the start: a
\* deleted one lists nothing, and one loaded at start-up is there if enabled
\* (llm_providers.py's handlers against lifespan's load).
CatalogAgrees ==
    serving = "up" =>
        \A n \in Names \ raced : ~Busy(n) =>
            IF RowsNamed(n) = {} THEN snap[n].status \in {"absent", "disabled"}
            ELSE \A i \in RowsNamed(n) :
                    \/ snap[n] = Listing(rows[i])
                    \/ ~rows[i].enabled /\ snap[n].status = "absent"

\* A row's probe status is about the configuration in that row, unless requests
\* on it overlapped or a restart cut one short (patch_llm_provider probes what
\* it merged from the row it read first).
ProbedConfig ==
    \A i \in Ids : rows[i] # NoRow /\ rows[i].status # "none" =>
        \/ rows[i].name \in mixed \/ Busy(rows[i].name)
        \/ about[i] = rows[i].cfg

\* No listing of a built-in provider is served beyond the limit and the one
\* interval it takes to notice (max_stale_seconds is looked at only when a
\* probe fails).
ListingAgesOut ==
    \A p \in Builtins : snap[p].status \in Good =>
        snap[p].age <= IF phase = "sleep" THEN StaleLimit ELSE StaleLimit + 1
=============================================================================
