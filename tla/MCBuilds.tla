----------------------------- MODULE MCBuilds ------------------------------
(***************************************************************************)
(* One at a time: two builds on a flat output and on a bundle that share a *)
(* cache, and what CI uploads of the cases that one runner left.           *)
(***************************************************************************)
EXTENDS BuildExecutor, MCRegression, CiDiagnostics

CONSTANTS b1, b2, flat, bundled, x

Builds == {b1, b2}
Outputs == {flat, bundled}
Bundles == {bundled}
OneInput == {x}

VARIABLE part   \* which one runs

OnBuild(A) == part = "build" /\ A /\ UNCHANGED <<part, regression>>
OnRegression(A) == part = "regression" /\ A /\ UNCHANGED <<part, vars>>

BuildsInit == part \in {"build", "regression"} /\ Init /\ RunnerInit

BuildsNext == OnBuild(Next) \/ OnRegression(RunnerNext)

(* A build that does not run has not started, and none of its steps is     *)
(* enabled.                                                                *)
BuildsSpec ==
    /\ BuildsInit /\ [][BuildsNext]_<<part, vars, regression>>
    /\ \A b \in Build : WF_vars(Step(b))
===========================================================================
