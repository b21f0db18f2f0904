--------------------------- MODULE CiDiagnostics ---------------------------
(***************************************************************************)
(* tools/ci_diagnostics.py: what of the stages a regression run left is    *)
(* uploaded.  The bundle is bounded in files, in bytes of a file and in    *)
(* bytes in all, so receipts of failed cases and the logs of the step that *)
(* failed go first.  Sizes are in units; a file is where it lies and how   *)
(* long it is.                                                             *)
(***************************************************************************)
EXTENDS RegressionRunner

CONSTANTS FileBytes, TotalBytes, FileCount   \* FILE_BYTES, TOTAL_BYTES, FILE_COUNT

ASSUME DiagnosticsAssumption ==
    FileBytes \in Nat /\ TotalBytes \in Nat /\ FileCount \in Nat /\ Stage \subseteq Nat

(* The files of all stages, as the workflow's patterns match them.  A step *)
(* leaves four files in its log directory; stdout may go to the stage.     *)
(* Beside the steps lies result.json, a copy of the last receipt.          *)
Names == <<"regression.json", "command.json", "stderr.log", "stdout.log", "time.json", "product", "result.json">>
IsLog(name) == name \in {"stderr.log", "stdout.log"}

File(d, n, name, size) == [stage |-> d, step |-> n, name |-> name, size |-> size]

StepFiles(d, n) ==
    LET f == disk[d].files[n]
        stdout == disk[d].receipt.rows[n].entry.step.stdout
    IN IF ~f.ran THEN {} ELSE
       {File(d, n, "command.json", 1), File(d, n, "stderr.log", 1),
        File(d, n, "time.json", 1), File(d, n, stdout, f.output)}

(* A receipt grows with its rows. *)
ReceiptSize(receipt) == 1 + Len(receipt.rows) \div 2

StageFiles(d) ==
    IF disk[d].receipt = Nothing THEN {} ELSE
    {File(d, 0, "regression.json", ReceiptSize(disk[d].receipt))}
      \cup UNION {StepFiles(d, n) : n \in DOMAIN disk[d].files}
      \cup (IF disk[d].receipt.status = "running" THEN {} ELSE
            {File(d, Len(disk[d].files) + 1, "result.json", ReceiptSize(disk[d].receipt))})

Files == UNION {StageFiles(d) : d \in Stage}

(* Sorting by size, then by path. *)
NameRank(name) == CHOOSE k \in DOMAIN Names : Names[k] = name
PathRank(f) == (f.stage * 100 + f.step) * 10 + NameRank(f.name)
Before(f, g) == f.size < g.size \/ (f.size = g.size /\ PathRank(f) < PathRank(g))

Sorted(S, lt(_, _)) ==
    SortSeq(FoldSet(LAMBDA f, seq : Append(seq, f), << >>, S), lt)

(* record(): one JSON object is read when it fits the file limit and what  *)
(* is left of the budget all records share; matched(): only known files.   *)
Readable(f, left) == f.size <= FileBytes /\ f.size <= left

Prefer(priority, S, level) == [f \in DOMAIN priority |-> IF f \in S THEN level ELSE priority[f]]

FailedStep(receipt) ==
    LET failed == {n \in DOMAIN receipt.rows : receipt.rows[n].status \in {"failed", "running"}}
    IN IF failed = {} THEN 0 ELSE Max(failed)

(* Mutant: the stdout named by the command record is not followed. *)
PrioritizeLogsOnly(state, f) ==
    LET receipt == disk[f.stage].receipt
        n == FailedStep(receipt)
        log == {g \in DOMAIN state.priority : g.stage = f.stage /\ g.step = n /\ n # 0 /\ g.name # "product"}
    IN IF ~Readable(f, state.left) \/ receipt.status # "failed" THEN state
       ELSE [left |-> state.left - f.size,
             priority |-> Prefer(Prefer(state.priority, {f}, 0), log, 1)]

(* One receipt of regression_priorities(). *)
Prioritize(state, f) ==
    LET receipt == disk[f.stage].receipt
        n == FailedStep(receipt)
        near == {g \in DOMAIN state.priority : g.stage = f.stage /\ g.step = n /\ n # 0}
        command == {g \in near : g.name = "command.json"}
        left == state.left - f.size
        readable == command # {} /\ \A g \in command : Readable(g, left)
        log == {g \in near : g.name # "product"}
        stdout == {g \in near : readable /\ g.name = "product"}
    IN IF ~Readable(f, state.left) THEN state
       ELSE IF receipt.status # "failed" THEN [state EXCEPT !.left = left]
       ELSE [left |-> IF readable THEN left - 1 ELSE left,
             priority |-> Prefer(Prefer(state.priority, {f}, 0), log \cup stdout, 1)]

(* regression_priorities(): everything else comes last. *)
Priorities(files) ==
    LET receipts == {f \in files : f.name = "regression.json"}
        start == [left |-> TotalBytes,
                  priority |-> [f \in files |-> IF f \in receipts THEN 2 ELSE 3]]
    IN FoldLeft(Prioritize, start, Sorted(receipts, Before)).priority

(* collect(): files in order of priority while they fit; a long log keeps  *)
(* its tail, any other long file is left out.                              *)
Kept(f) == Min({f.size, FileBytes})
Admissible(f) == IsLog(f.name) \/ f.size <= FileBytes

Retain(bundle, f) ==
    IF Admissible(f) /\ bundle.bytes + Kept(f) <= TotalBytes
    THEN [bytes |-> bundle.bytes + Kept(f), files |-> bundle.files \cup {f}]
    ELSE bundle

Collect(files) ==
    LET priority == Priorities(files)
        ordered == Sorted(files, LAMBDA f, g :
                     priority[f] < priority[g] \/ (priority[f] = priority[g] /\ Before(f, g)))
        listed == SubSeq(ordered, 1, Min({Len(ordered), FileCount}))
    IN FoldLeft(Retain, [bytes |-> 0, files |-> {}], listed)

-----------------------------------------------------------------------------
(* What an upload owes the reader: the receipt of every failed case and    *)
(* all that the failed step itself left.                                   *)
Failed == {d \in Stage : disk[d].receipt # Nothing /\ disk[d].receipt.status = "failed"}
Owed(d) == {f \in StageFiles(d) : f.step \in {0, FailedStep(disk[d].receipt)}}
Evidence == UNION {Owed(d) : d \in Failed}

Weight(S) == MapThenSumSet(Kept, S)

(* The evidence that may be uploaded at all, when it fits the limits. *)
Fitting ==
    LET owed == {f \in Evidence : Admissible(f)} IN
    IF Cardinality(Evidence) <= FileCount /\ Weight(owed) <= TotalBytes THEN owed ELSE {}

(* What is read to find the evidence: every receipt that is not too long,  *)
(* of passed cases as well, and the command record of a failed step.       *)
Metadata ==
    {f \in Files : f.name = "regression.json" /\ f.size <= FileBytes}
      \cup {f \in Evidence : f.name = "command.json"}

(* Only receipts within the file limit are read and uploaded. *)
ReceiptsShort == \A f \in Evidence : f.name = "regression.json" => f.size <= FileBytes

Quiet == \A r \in Runner : runner[r].at = "idle"

(* An upload never exceeds its limits.  When the evidence fits them, all   *)
(* of it is uploaded (a file over the limit only if it is a log), however  *)
(* many logs and products the cases left, provided that the evidence can   *)
(* be found: the receipts and the command records of failed steps together *)
(* fit the budget they are read from, and no receipt of a failed case is   *)
(* over the file limit.  (regression_priorities() and collect(), once no   *)
(* runner is active: passed receipts spend the same budget.)               *)
DiagnosticsUseful ==
    Quiet =>
      LET bundle == Collect(Files) IN
      /\ bundle.bytes <= TotalBytes
      /\ Cardinality(bundle.files) <= FileCount
      /\ /\ MapThenSumSet(LAMBDA f : f.size, Metadata) <= TotalBytes
         /\ ReceiptsShort
         => Fitting \subseteq bundle.files

(* "Failed regression receipts and their step diagnostics take             *)
(* precedence": with no proviso, evidence that fits the limits is uploaded *)
(* before anything else.  (The docstring of collect(); it does not hold.)  *)
FailuresTakePrecedence ==
    Quiet /\ ReceiptsShort => Fitting \subseteq Collect(Files).files

=============================================================================
