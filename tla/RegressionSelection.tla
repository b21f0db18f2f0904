------------------------- MODULE RegressionSelection -------------------------
(***************************************************************************)
(* tools/regression_inventory.py and tools/ci_plan.py: which regression    *)
(* cases a change selects, locally and in CI, and the fingerprint of the   *)
(* inputs.  A tree maps every path to its entry: absent, or a mode and a   *)
(* content.                                                                *)
(***************************************************************************)
EXTENDS RegressionCases, Integers

CONSTANTS
    Path, Prose,     \* paths, and those whose names say documentation
    Group,           \* CI groups
    GroupOf,         \* GroupOf[c]: a group, or Missing for a local-only case
    Fixtures,        \* Fixtures[c]: the exact paths the inventory lists
    Entry,           \* what may lie at a path: Absent, or a mode and a content
    Missing

ASSUME ProseAssumption == Prose \subseteq Path

(* load_inventory(): groups are known, and only listed fixtures that are   *)
(* not documentation may narrow a selection; plan() needs the group "test". *)
ASSUME InventoryAssumption ==
    /\ "test" \in Group
    /\ \A c \in Case : GroupOf[c] \in Group \cup {Missing}
    /\ \A c \in Case : Fixtures[c] \subseteq Path \ Prose

Absent == [mode |-> "absent", content |-> 0]
Passive(tree, p) == p \in Prose /\ tree[p].mode \in {"regular", "absent"}

Changed(old, new) == {p \in Path : old[p] # new[p]}

-----------------------------------------------------------------------------
(* regression_inventory.py.  "paths" is a set, or Missing when history    *)
(* is missing or a name is not what it says.                               *)

(* Mutant: a path that no case lists selects nothing. *)
SelectListed(paths, full) ==
    IF full \/ paths = {Missing} THEN Case
    ELSE {c \in Case : \E p \in paths \ Prose : p \in Fixtures[c]}

(* select_cases(): the listed consumers of each path, or everything. *)
SelectCases(paths, full) ==
    IF full \/ paths = {Missing} THEN Case
    ELSE LET Consumers(p) == {c \in Case : p \in Fixtures[c]}
         IN UNION {IF Consumers(p) = {} THEN Case ELSE Consumers(p) : p \in paths \ Prose}

(* Mutant: documentation is known by its name alone. *)
ChangedNames(base, head) == IF base = Missing THEN {Missing} ELSE Changed(base, head)

(* changed_paths(): between two commits, unless documentation among them   *)
(* is executable or a link on either side.                                 *)
ChangedPaths(base, head) ==
    IF base = Missing THEN {Missing}
    ELSE IF \E p \in Changed(base, head) \cap Prose : ~(Passive(base, p) /\ Passive(head, p))
         THEN {Missing}
         ELSE Changed(base, head)

(* paths_since(): also what differs between HEAD and the working tree,     *)
(* files unknown to Git included.                                          *)
PathsSince(base, head, work) ==
    LET committed == ChangedPaths(base, head)
        paths == committed \cup Changed(head, work)
    IN IF committed = {Missing} THEN {Missing}
       ELSE IF \E p \in paths \cap Prose : ~(Passive(head, p) /\ Passive(work, p)) THEN {Missing}
       ELSE paths

-----------------------------------------------------------------------------
(* ci_plan.py.                                                             *)

(* source_fingerprint(): everything but regular documentation. *)
Fingerprint(tree) ==
    {<<p, tree[p]>> : p \in {q \in Path : tree[q] # Absent /\ ~(q \in Prose /\ tree[q].mode = "regular")}}

(* plan(): the groups to run and their cases; the base checks of "test"    *)
(* follow every change that is not documentation.                          *)
CiPlan(paths, manual) ==
    LET cases == SelectCases(paths, manual)
        selected == [g \in Group |->
                       \/ \E c \in cases : GroupOf[c] = g
                       \/ g = "test" /\ (manual \/ paths = {Missing} \/ paths \ Prose # {})]
    IN [groups |-> {g \in Group : selected[g]},
        cases |-> {c \in cases : GroupOf[c] # Missing},
        reusable |-> paths # {Missing} /\ ~manual]

=============================================================================
