-------------------------- MODULE CiQualification --------------------------
(***************************************************************************)
(* CI over the history of one branch: every push starts a run that plans   *)
(* against the preceding commit, is skipped when its inputs are on record, *)
(* and records them when its jobs succeed (tools/ci_plan.py with           *)
(* .github/workflows/ci.yml).  A newer run cancels the one before it.      *)
(*                                                                         *)
(* Whether a case passes is determined by the tree: by what it reads, and  *)
(* by documentation that is no mere documentation.                         *)
(***************************************************************************)
EXTENDS RegressionSelection

CONSTANTS
    Shared,      \* paths every case and the base checks read
    Bad,         \* contents that break whoever reads them, as <<path, content>>
    MaxPushes    \* bound: commits pushed

(* "only enumerated fixture consumers may narrow coverage": what every     *)
(* case reads is neither one of those fixtures nor documentation.          *)
ASSUME SharedAssumption ==
    /\ Shared \subseteq Path \ Prose
    /\ \A c \in Case : Shared \cap Fixtures[c] = {}

VARIABLES
    head,        \* the tree of the branch
    run,         \* the latest CI run
    records,     \* the fingerprints on record
    pushes

ci == <<head, run, records, pushes>>

(* A tree in which nothing is broken. *)
Good(tree, S) == \A p \in S : <<p, tree[p].content>> \notin Bad
Odd(tree) == {p \in Prose : ~Passive(tree, p)}

Passes(c, tree) == Good(tree, Fixtures[c] \cup Shared \cup Odd(tree))
BaseChecks(tree) == Good(tree, Shared \cup Odd(tree))
AllPass(tree) == BaseChecks(tree) /\ \A c \in Case : GroupOf[c] # Missing => Passes(c, tree)

NoRun == [base |-> Missing, plan |-> CiPlan({}, FALSE), status |-> "none"]

CiInit ==
    /\ head = [p \in Path |-> [mode |-> "regular", content |-> 0]]
    /\ run = NoRun
    /\ records = {}
    /\ pushes = 0

(* A commit changes one path.  The run of the commit before may be         *)
(* cancelled by it; the history is missing after a branch was rewritten.   *)
Push(p, entry, known) ==
    /\ pushes < MaxPushes
    /\ head[p] # entry
    /\ pushes' = pushes + 1
    /\ head' = [head EXCEPT ![p] = entry]
    /\ LET base == IF known THEN head ELSE Missing IN
       run' = [base |-> base, plan |-> CiPlan(ChangedPaths(base, head'), FALSE), status |-> "planned"]
    /\ UNCHANGED records

Dispatch ==
    /\ run.status \in {"success", "failure"}
    /\ run' = [base |-> Missing, plan |-> CiPlan({}, TRUE), status |-> "planned"]
    /\ UNCHANGED <<head, records, pushes>>

(* select: nothing to do, or the same inputs are on record. *)
Skip ==
    /\ run.status = "planned"
    /\ \/ run.plan.groups = {} /\ run' = [run EXCEPT !.status = "nothing"]
       \/ /\ run.plan.groups # {}
          /\ run.plan.reusable
          /\ Fingerprint(head) \in records
          /\ run' = [run EXCEPT !.status = "reused"]
    /\ UNCHANGED <<head, records, pushes>>

(* The jobs of the selected groups, then qualify. *)
Succeeds ==
    /\ \A c \in run.plan.cases : GroupOf[c] \in run.plan.groups => Passes(c, head)
    /\ run.plan.groups # {} => BaseChecks(head)

Jobs ==
    /\ run.status = "planned"
    /\ run.plan.groups # {}
    /\ ~(run.plan.reusable /\ Fingerprint(head) \in records)
    /\ IF Succeeds
       THEN /\ run' = [run EXCEPT !.status = "success"]
            /\ records' = records \cup {Fingerprint(head)}
       ELSE /\ run' = [run EXCEPT !.status = "failure"]
            /\ UNCHANGED records
    /\ UNCHANGED <<head, pushes>>

(* Records are evicted from the cache. *)
Evict ==
    /\ \E r \in records : records' = records \ {r}
    /\ UNCHANGED <<head, run, pushes>>

CiNext ==
    \/ \E p \in Path, entry \in Entry, known \in BOOLEAN : Push(p, entry, known)
    \/ Dispatch \/ Skip \/ Jobs \/ Evict

CiSpec == CiInit /\ [][CiNext]_ci /\ WF_ci(Skip) /\ WF_ci(Jobs)

-----------------------------------------------------------------------------
(* Properties.                                                             *)

(* Narrowing loses nothing.  A run that tested its selection, or found     *)
(* nothing to test, says everything about the commit when the commit it    *)
(* was compared with was good; the local selection of paths_since() says   *)
(* the same about a working tree; equal fingerprints mean equal verdicts.  *)
(* (Renames, modes and unlisted paths: select_cases(), changed_paths().)   *)
SelectionSafe ==
    /\ /\ run.status \in {"success", "nothing"}
       /\ run.base # Missing => AllPass(run.base)
       => AllPass(head)
    /\ run.base # Missing =>
         \A p \in Path, entry \in Entry :
           LET work == [head EXCEPT ![p] = entry]
               cases == SelectCases(PathsSince(run.base, head, work), FALSE)
           IN /\ \A c \in Case : Passes(c, run.base)
              /\ \A c \in cases : Passes(c, work)
              => \A c \in Case : Passes(c, work)
    /\ run.base # Missing /\ Fingerprint(run.base) = Fingerprint(head) =>
         \A c \in Case : Passes(c, run.base) = Passes(c, head)

(* .github/workflows/ci.yml:56: "These exact source, dependency, test and  *)
(* workflow inputs already passed; reusing that qualification."            *)
ReuseIsQualified ==
    run.status = "reused" => \A c \in run.plan.cases : Passes(c, head)

=============================================================================
