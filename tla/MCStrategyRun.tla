---------------------------- MODULE MCStrategyRun ----------------------------
(* Inputs with a specialist each, all of one model; of the last one the    *)
(* registry may know nothing.                                              *)
EXTENDS StrategyRun

CONSTANTS sqli, xss, rce, sqliRole, xssRole, rceRole, m1

TwoRoles == {sqliRole, xssRole}
ThreeInputs == {sqli, xss, rce}
ThreeRoles == {sqliRole, xssRole, rceRole}
SeededSpecialist ==
    [x \in Inputs |-> CASE x = sqli -> sqliRole [] x = xss -> xssRole [] OTHER -> Unknown]
OneModel == {m1}
AllOnModel == [r \in Roles |-> m1]
=============================================================================
