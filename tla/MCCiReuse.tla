----------------------------- MODULE MCCiReuse -----------------------------
(* An instance of CiQualification. *)
EXTENDS CiQualification

CONSTANTS alpha, beta, core, doc, caseA, caseB, caseL       \* paths and cases

(* CI: alpha and beta are fixtures, core is shared, doc is documentation;  *)
(* case L is local only.  Content 1 breaks whoever reads it.               *)
MCPath == {alpha, beta, core, doc}
MCProse == {doc}
MCCase == {caseA, caseB, caseL}
MCGroup == {"test", "topology"}
MCGroupOf == [c \in MCCase |-> CASE c = caseA -> "test" [] c = caseB -> "topology" [] c = caseL -> Missing]
MCFixtures == [c \in MCCase |-> IF c = caseB THEN {beta} ELSE {alpha}]
MCShared == {core}
MCBad == {<<p, 1>> : p \in MCPath}
MCEntry == {Absent, [mode |-> "regular", content |-> 0], [mode |-> "regular", content |-> 1],
            [mode |-> "executable", content |-> 1]}

=============================================================================
