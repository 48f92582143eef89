---------------------------- MODULE DatasetStore ----------------------------
(***************************************************************************)
(* Ground-truth datasets: the datasets and dataset_labels tables beside    *)
(* the repositories on disk, and the requests that fill both: import of a  *)
(* CVE, injection of a vulnerability, and (re)materialisation of git,      *)
(* archive and derived datasets. Everything between two awaits is one step *)
(* of the event loop, the git subprocesses included.                       *)
(***************************************************************************)
EXTENDS Naturals, FiniteSets, Sequences

CONSTANTS
    Gits,        \* datasets of kind git
    Archives,    \* datasets of kind archive
    Derived,     \* derived datasets <<base, template>>, "<base>_injected_<template>" (a bound)
    Registered,  \* those that have a row from the start, imported with a bundle or made here
    Templates,   \* injection templates
    Cves,        \* vulnerabilities that are imported, each fixed by a commit
    Versions,    \* values of templates_version, fixed by a deployment
    Requests,    \* requests, numbered as they arrive (a bound)
    MaxRestarts, \* bound: restarts of the coordinator
    NoRow, Absent, Nobody

Sources == Gits \cup Archives
Names == Sources \cup Derived
BaseOf(d) == d[1]
TemplateOf(d) == d[2]

ASSUME ConstantsAssumption ==
    /\ Registered \subseteq Names /\ Gits \cap Archives = {}
    /\ Derived \subseteq Names \X Templates /\ Sources \cap Derived = {}
    /\ Cves \cap Templates = {}
    /\ Requests \subseteq Nat /\ IsFiniteSet(Requests) /\ MaxRestarts \in Nat

VARIABLES
    rows,      \* the datasets table
    labels,    \* the dataset_labels table: what each dataset's labels speak of
    own,       \* datasets/<name>/repo, where materialize_dataset builds
    targets,   \* datasets/targets/<name>/repo, where import_cve builds and a worker reads
    version,   \* templates_version of this deployment
    req,
    restarts,
    since      \* history: what was injected into a derived tree since it was last built

vars == <<rows, labels, own, targets, version, req, restarts, since>>

Row == [stamped : BOOLEAN, version : Versions, cve : Cves \cup {Nobody}]
Counts == [Templates -> Nat]
Zero == [t \in Templates |-> 0]
\* A working tree: the commit it is at and how often each template was applied.
\* "partial" is a copy that stopped half way.
Content == [at : {"origin", "tip", "archive", "partial"}, marks : Counts]
\* What lies under targets/: the vulnerable trees copied there, one over the other;
\* "torn" is a copy that was cut short.
Target == SUBSET (Cves \cup {"torn"})
Clean(commit) == [at |-> commit, marks |-> Zero]
Pristine(n) == Clean(IF n \in Archives THEN "archive" ELSE "origin")
Marked(c, t) == [c EXCEPT !.marks[t] = @ + 1]

\* on is the dataset at work, calls the derived ones that wait for it in
\* recursive calls of materialize_dataset, the innermost first.
Request == [pc : {"idle", "create", "stamp", "label", "build", "derive", "done"},
            op : {"none", "import", "inject", "materialize"},
            on : Names \cup {Nobody}, cve : Cves \cup {Nobody}, calls : Seq(Derived)]
Idle == [pc |-> "idle", op |-> "none", on |-> Nobody, cve |-> Nobody, calls |-> <<>>]

ASSUME NullAssumption ==
    /\ NoRow \notin Row /\ Absent \notin Content
    /\ Nobody \notin Names \cup Cves /\ "torn" \notin Cves

Done == [Idle EXCEPT !.pc = "done"]

Accepts(q) == /\ req[q].pc = "idle"
              /\ \A p \in Requests : p < q => req[p].pc # "idle"
Begin(q, op, n, pc, c) ==
    req' = [req EXCEPT ![q] = [pc |-> pc, op |-> op, on |-> n, cve |-> c, calls |-> <<>>]]
Goto(q, pc) == req' = [req EXCEPT ![q].pc = pc]
End(q) == req' = [req EXCEPT ![q] = Done]

-----------------------------------------------------------------------------
(* import_cve and inject_vuln: the files first, then three writes *)

\* import_from_spec: clone, check out the parent of the fix, copy over whatever
\* targets/ holds under the name the client chose, then look at the table. A
\* resolver or git failure leaves nothing behind and is not a step.
ImportFiles(q, g, c) ==
    /\ Accepts(q)
    /\ targets' = [targets EXCEPT ![g] = @ \cup {c}]
    /\ Begin(q, "import", g, "create", c)
    /\ UNCHANGED <<rows, labels, own, version, restarts, since>>

\* VulnInjector.inject on the repository of the dataset that was named, of any
\* kind, and in place; its row is not looked at.
InjectFiles(q, d) ==
    /\ Accepts(q) /\ own[BaseOf(d)] # Absent
    /\ own' = [own EXCEPT ![BaseOf(d)] = Marked(@, TemplateOf(d))]
    /\ since' = [b \in Derived |-> IF b = BaseOf(d)
                                    THEN [since[b] EXCEPT ![TemplateOf(d)] = @ + 1]
                                    ELSE since[b]]
    /\ Begin(q, "inject", d, "create", Nobody)
    /\ UNCHANGED <<rows, labels, targets, version, restarts>>

\* create_dataset, with the primary key and the foreign key on base_dataset.
HasBase(n) == n \in Derived => rows[BaseOf(n)] # NoRow

NewRow(q) == [stamped |-> FALSE, version |-> version, cve |-> req[q].cve]

\* Mutant: INSERT OR IGNORE, as for the datasets of a bundle.
CreateRowOrIgnore(q) ==
    LET n == req[q].on IN
    /\ req[q].pc = "create"
    /\ rows' = [rows EXCEPT ![n] = IF @ = NoRow /\ HasBase(n) THEN NewRow(q) ELSE @]
    /\ Goto(q, "stamp")
    /\ UNCHANGED <<labels, own, targets, version, restarts, since>>

CreateRow(q) ==
    LET n == req[q].on IN
    /\ req[q].pc = "create"
    /\ \/ /\ rows[n] = NoRow /\ HasBase(n)
          /\ rows' = [rows EXCEPT ![n] = NewRow(q)]
          /\ Goto(q, "stamp")
       \/ /\ rows[n] # NoRow \/ ~HasBase(n)
          /\ End(q)
          /\ UNCHANGED rows
    /\ UNCHANGED <<labels, own, targets, version, restarts, since>>

\* update_dataset_materialized_at; a recursive call returns to its caller.
Stamp(q) ==
    LET r == req[q] IN
    /\ r.pc = "stamp"
    /\ rows' = [rows EXCEPT ![r.on] = IF @ = NoRow THEN @ ELSE [@ EXCEPT !.stamped = TRUE]]
    /\ \/ r.op # "materialize" /\ Goto(q, "label")
       \/ r.op = "materialize" /\ r.calls = <<>> /\ End(q)
       \/ /\ r.op = "materialize" /\ r.calls # <<>>
          /\ req' = [req EXCEPT ![q] = [r EXCEPT !.pc = "derive", !.on = Head(r.calls),
                                                  !.calls = Tail(r.calls)]]
    /\ UNCHANGED <<labels, own, targets, version, restarts, since>>

\* append_dataset_labels, with its foreign key on the dataset.
Label(r) == IF r.op = "import" THEN r.cve ELSE TemplateOf(r.on)

AppendLabels(q) ==
    LET n == req[q].on IN
    /\ req[q].pc = "label"
    /\ labels' = IF rows[n] = NoRow THEN labels
                 ELSE [labels EXCEPT ![n] = @ \cup {Label(req[q])}]
    /\ End(q)
    /\ UNCHANGED <<rows, own, targets, version, restarts, since>>

-----------------------------------------------------------------------------
(* materialize_dataset *)

Materialize(q, n) ==
    /\ Accepts(q) /\ rows[n] # NoRow
    /\ Begin(q, "materialize", n, "build", Nobody)
    /\ UNCHANGED <<rows, labels, own, targets, version, restarts, since>>

\* Mutant: a tree that is there is fetched again.
FetchTreeAnew(q, n, next) ==
    \/ /\ own' = [own EXCEPT ![n] = Pristine(n)]
       /\ Goto(q, next)
    \/ /\ own[n] = Absent
       /\ End(q)
       /\ UNCHANGED own

\* A tree that is there is taken as it is. Otherwise it is cloned and checked
\* out, or downloaded, verified, extracted beside and renamed into place; when
\* that fails nothing is left and the request ends.
FetchTree(q, n, next) ==
    \/ /\ own[n] # Absent
       /\ Goto(q, next)
       /\ UNCHANGED own
    \/ /\ own[n] = Absent
       /\ own' = [own EXCEPT ![n] = Pristine(n)]
       /\ Goto(q, next)
    \/ /\ own[n] = Absent
       /\ End(q)
       /\ UNCHANGED own

BuildSource(q) ==
    /\ req[q].pc = "build" /\ req[q].on \in Sources
    /\ FetchTree(q, req[q].on, "stamp")
    /\ UNCHANGED <<rows, labels, targets, version, restarts, since>>

\* The recursive call for a base that is not on disk; it looks again. Its row is
\* there: no dataset is ever deleted, and base_dataset is a foreign key.
NeedBase(q) ==
    LET r == req[q] IN
    /\ r.pc = "build" /\ r.on \in Derived /\ own[BaseOf(r.on)] = Absent
    /\ req' = [req EXCEPT ![q] = [r EXCEPT !.on = BaseOf(r.on), !.calls = <<r.on>> \o @]]
    /\ UNCHANGED <<rows, labels, own, targets, version, restarts, since>>

Deriving(q) == /\ req[q].on \in Derived /\ own[BaseOf(req[q].on)] # Absent
               /\ req[q].pc \in {"build", "derive"}

\* Mutant: the recipe is replayed on the derived tree when it is there.
CopiedOnce(d) == IF own[d] # Absent THEN own[d] ELSE own[BaseOf(d)]

\* What the recipe is replayed on.
Copied(d) == own[BaseOf(d)]

\* What a rebuild that fails leaves: nothing yet, a part of the copy, or the bare
\* copy when the recipe cannot be replayed (the target file is gone).
Broken(d) == {Absent, Copied(d), [Copied(d) EXCEPT !.at = "partial"]}

\* The tree of d is another one now.
Becomes(d, c) == /\ own' = [own EXCEPT ![d] = c]
                 /\ since' = [since EXCEPT ![d] = Zero]

\* The old tree is removed, the base is copied and the recipe replayed.
Derive(q) ==
    LET d == req[q].on IN
    /\ Deriving(q)
    /\ \/ /\ rows[d].version = version
          /\ Becomes(d, Marked(Copied(d), TemplateOf(d)))
          /\ Goto(q, "stamp")
       \/ /\ rows[d].version = version
          /\ \E c \in Broken(d) : Becomes(d, c)
          /\ End(q)
       \/ /\ rows[d].version # version     \* 409
          /\ End(q)
          /\ UNCHANGED <<own, since>>
    /\ UNCHANGED <<rows, labels, targets, version, restarts>>

-----------------------------------------------------------------------------
(* Restart: with another set of templates, or the same *)

\* A crash inside a step. A clone may be there and not checked out; a rebuild
\* stops like one that fails; an archive is renamed into place when it is
\* complete; the copy of an import may stop half way.
Cloning(n) == /\ n \in Gits /\ own[n] = Absent
              /\ \E q \in Requests : req[q].pc = "build" /\ req[q].on = n
Copying(d) == \E q \in Requests : /\ req[q].on = d /\ Deriving(q)
                                  /\ rows[d].version = version

TearsOwn == \/ \E n \in Gits : /\ Cloning(n)
                              /\ own' = [own EXCEPT ![n] = Clean("tip")]
                              /\ UNCHANGED since
            \/ \E d \in Derived : Copying(d) /\ \E c \in Broken(d) : Becomes(d, c)

Restart ==
    /\ restarts < MaxRestarts
    /\ restarts' = restarts + 1
    /\ TearsOwn \/ UNCHANGED <<own, since>>
    /\ \/ UNCHANGED targets
       \/ \E g \in Gits : targets' = [targets EXCEPT ![g] = @ \cup {"torn"}]
    /\ version' \in Versions
    /\ req' = [q \in Requests |-> IF req[q].pc = "idle" THEN Idle ELSE Done]
    /\ UNCHANGED <<rows, labels>>

Init ==
    /\ version \in Versions
    /\ rows = [n \in Names |-> IF n \in Registered
                               THEN [stamped |-> FALSE, version |-> version, cve |-> Nobody]
                               ELSE NoRow]
    /\ labels = [n \in Names |-> {}]
    /\ own = [n \in Names |-> Absent]
    /\ targets = [n \in Names |-> {}]
    /\ req = [q \in Requests |-> Idle]
    /\ restarts = 0
    /\ since = [d \in Derived |-> Zero]

Step(q) == \/ CreateRow(q) \/ Stamp(q) \/ AppendLabels(q)
           \/ BuildSource(q) \/ NeedBase(q) \/ Derive(q)

Arrive(q) == \/ \E g \in Gits, c \in Cves : ImportFiles(q, g, c)
             \/ \E d \in Derived : InjectFiles(q, d)
             \/ \E n \in Names : Materialize(q, n)

Next == Restart \/ \E q \in Requests : Arrive(q) \/ Step(q)

Spec == Init /\ [][Next]_vars

-----------------------------------------------------------------------------
(* Properties *)

\* Every variable keeps the shape the code gives it.
TypeOK ==
    /\ rows \in [Names -> Row \cup {NoRow}]
    /\ labels \in [Names -> SUBSET (Templates \cup Cves)]
    /\ own \in [Names -> Content \cup {Absent}]
    /\ targets \in [Names -> Target]
    /\ version \in Versions
    /\ req \in [Requests -> Request]
    /\ restarts \in 0..MaxRestarts
    /\ since \in [Derived -> Counts]

\* The label of a derived dataset speaks of code that was put into its base, and
\* that is still there whatever was lost or repeated since: a base of kind git or
\* archive keeps it for good, a derived one until it is rebuilt from its own recipe
\* (inject_vuln writes the label last; materialize_dataset removes old trees).
LabelsAreReal ==
    \A d \in Derived : TemplateOf(d) \in labels[d] =>
        LET b == BaseOf(d) IN
        \/ own[b] # Absent /\ own[b].marks[TemplateOf(d)] > 0
        \/ b \in Derived /\ since[b][TemplateOf(d)] = 0

\* All CVE labels of a dataset are of the one CVE its row names, and the
\* vulnerable tree of that CVE was laid down whole under the name, however many
\* imports were given the name and however they interleave (import_cve).
OneCvePerDataset ==
    \A n \in Names : \A c \in labels[n] \cap Cves :
        /\ rows[n] # NoRow /\ rows[n].cve = c
        /\ c \in targets[n]

\* A tree derived from a git or archive dataset never carries a template more than
\* once over what its base has, apart from what was injected into the tree itself
\* since it was built, however often it is rebuilt or interrupted.
RecipeOnce ==
    \A d \in Derived : (own[d] # Absent /\ BaseOf(d) \in Sources) =>
        /\ own[BaseOf(d)] # Absent
        /\ \A t \in Templates :
              own[d].marks[t] <= own[BaseOf(d)].marks[t] + since[d][t]
                                 + (IF t = TemplateOf(d) THEN 1 ELSE 0)

=============================================================================
