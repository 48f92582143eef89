----------------------- MODULE MCExperimentLifecycle -----------------------
(* Runs of one model.                                                      *)
EXTENDS ExperimentLifecycle

CONSTANT m1

OneModel == {m1}
AllOnModel == [r \in Runs |-> m1]
CapOne == [m \in Models |-> 1]
CapTwo == [m \in Models |-> 2]
=============================================================================
