-------------------------- MODULE ExperimentBoard --------------------------
(***************************************************************************)
(* What the experiments page promises about one experiment: rows only move *)
(* forward and a row that has ended stays as it is; the experiment ends    *)
(* once, after all its rows; a run is billed at most once, only when it    *)
(* has ended, and never after the experiment has.                          *)
(***************************************************************************)
EXTENDS Naturals, FiniteSets

CONSTANT Runs

VARIABLES
    rows,       \* status of each run
    status,     \* status of the experiment
    bill        \* runs charged so far

boardVars == <<rows, status, bill>>

Ended == {"completed", "failed", "cancelled"}
Step(s) == CASE s = "absent"  -> {"pending"}
             [] s = "pending" -> {"running"} \cup Ended
             [] s = "running" -> Ended
             [] OTHER -> {}

Open == /\ rows = [r \in Runs |-> "absent"]
        /\ status = "absent"
        /\ bill = 0

Announce == /\ status = "absent"
            /\ status' = "pending"
            /\ UNCHANGED <<rows, bill>>

Move == /\ status = "pending"
        /\ \E r \in Runs : \E s \in Step(rows[r]) : rows' = [rows EXCEPT ![r] = s]
        /\ UNCHANGED <<status, bill>>

Bill == /\ status = "pending"
        /\ bill < Cardinality({r \in Runs : rows[r] \in Ended})
        /\ bill' = bill + 1
        /\ UNCHANGED <<rows, status>>

Close == /\ status = "pending"
         /\ \A r \in Runs : rows[r] \in Ended
         /\ status' \in {"completed", "cancelled"}
         /\ UNCHANGED <<rows, bill>>

BoardNext == Announce \/ Move \/ Bill \/ Close

(* The coordinator keeps working on an experiment until it is closed.      *)
BoardSpec == Open /\ [][BoardNext]_boardVars /\ WF_boardVars(Announce \/ Move \/ Close)
=============================================================================
