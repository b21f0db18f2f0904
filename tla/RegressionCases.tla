-------------------------- MODULE RegressionCases --------------------------
(* The regression cases of tools/regression_cases.py, which the runner     *)
(* executes and CI selects from.                                           *)
EXTENDS FiniteSets

CONSTANT Case

ASSUME CasesAssumption == IsFiniteSet(Case) /\ Case # {}

=============================================================================
