--------------------------- MODULE MCRegression ---------------------------
(* Instances of the regression runners: two of them over two cases that    *)
(* share the compiled BEAMs, or one over cases with a longer recipe.       *)
EXTENDS RegressionRunner

CONSTANTS r1, r2

Runners == {r1, r2}
OneRunner == {r1}

No == [rejection |-> FALSE, nonempty |-> FALSE, product |-> FALSE, witness |-> FALSE]

CommandStep(beam, generated, demand, stdout) ==
    [kind |-> "command", beam |-> beam, generated |-> generated, demand |-> demand, stdout |-> stdout]

Beam == CommandStep(TRUE, FALSE, No, "stdout.log")
Copied == [kind |-> "copy"]
Table(each) == [kind |-> "rows", each |-> each]

Built == CommandStep(FALSE, TRUE, [No EXCEPT !.product = TRUE], "stdout.log")
Converted == CommandStep(FALSE, FALSE, [No EXCEPT !.nonempty = TRUE], "product")
Rejected == CommandStep(FALSE, FALSE, [No EXCEPT !.rejection = TRUE], "stdout.log")
Simulated == CommandStep(FALSE, FALSE, [No EXCEPT !.witness = TRUE], "stdout.log")

Recipes == <<
    <<Copied, Beam, Built>>,
    <<Beam, Table(Rejected), Converted, Simulated>> >>

All == [exit |-> "zero", matches |-> TRUE, stdout |-> TRUE, product |-> TRUE, witness |-> TRUE]
Silent == [exit |-> "zero", matches |-> FALSE, stdout |-> FALSE, product |-> FALSE, witness |-> FALSE]

Results == {All, Silent, [All EXCEPT !.exit = "positive"], [All EXCEPT !.exit = "signal"]}

(* For the diagnostics: steps that fail and steps that pass. *)
FewRecipes == << <<Copied, Built>>, <<Rejected, Table(Converted), Copied, Copied>> >>
FewResults == {All, [All EXCEPT !.exit = "positive"]}
===========================================================================
