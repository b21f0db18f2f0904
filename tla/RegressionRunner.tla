-------------------------- MODULE RegressionRunner --------------------------
(***************************************************************************)
(* tools/run_regression.py: runners execute selected cases, each in a      *)
(* stage directory, and keep a receipt (regression.json) of every step     *)
(* there.  All of them are started with the same STAGE, may be killed at   *)
(* any point, and find in a stage what somebody else left.                 *)
(*                                                                         *)
(* A runner of one case uses STAGE itself, a runner of several uses        *)
(* STAGE/<case> for each: runners of different cases may meet in STAGE,    *)
(* and STAGE may contain the stages of others.  No case names a file or    *)
(* directory of its own as another case is named.                          *)
(*                                                                         *)
(* A step of a case is a record: "copy", "rows" (a table written by an     *)
(* earlier step, read when it is reached), or "command" with what the case *)
(* demands of it.  What a command does is a record as well: how it ended   *)
(* and which of the demanded things it left behind.  A command that its    *)
(* killed runner left behind is gone before the stage is used again.       *)
(***************************************************************************)
EXTENDS RegressionCases, Integers, Sequences, SequencesExt, FiniteSetsExt, Queues

CONSTANTS
    Runner,     \* runner processes
    Recipe,     \* Recipe[c]: the steps of a case, as its factory adds them
    Result,     \* the ways a command may end
    Root,       \* the stage directory STAGE; a case names STAGE/<case>
    MaxRows,    \* bound: rows of a generated table
    LogSizes,   \* bound: sizes of a command's stdout
    MaxRuns,    \* bound: runners started
    Nothing

VARIABLES
    disk,       \* disk[d]: a stage directory
    runner,     \* runner[r]: a runner
    starts,     \* runners started; the number names the attempt
    compiled    \* history: the attempts whose BEAM compilation succeeded

regression == <<disk, runner, starts, compiled>>

Stage == Case \cup {Root}

ASSUME StageAssumption == Root \notin Case

-----------------------------------------------------------------------------
(* Steps: "entries" are steps with their place in the recipe.              *)

(* What run() and run_case() ask of a command: a rejection matching a      *)
(* pattern, nonempty stdout, product files, a completion witness.          *)
Demand == [rejection : BOOLEAN, nonempty : BOOLEAN, product : BOOLEAN, witness : BOOLEAN]

(* How a command ended: whether its diagnostics match the expected         *)
(* rejection, whether it wrote stdout, its products and the witness.       *)
Ending == [exit : {"zero", "positive", "signal", "timeout"}, matches : BOOLEAN,
           stdout : BOOLEAN, product : BOOLEAN, witness : BOOLEAN]

IsBeam(step) == step.kind = "command" /\ step.beam

(* A table stands for commands; compile() demands nothing of its command   *)
(* but success, and no row of a table compiles.                            *)
ASSUME RecipeAssumption ==
    /\ Result \subseteq Ending /\ MaxRows \in Nat /\ LogSizes \subseteq Nat
    /\ \A c \in Case :
         /\ Recipe[c] \in Seq(Range(Recipe[c]))
         /\ \A step \in Range(Recipe[c]) :
              /\ step.kind \in {"copy", "rows", "command"}
              /\ step.kind = "command" => step.demand \in Demand
              /\ step.kind = "rows" => /\ step.each.kind = "command" /\ ~step.each.beam
                                      /\ step.each.demand \in Demand
              /\ IsBeam(step) => ~step.demand.product

Entries(c) == [n \in DOMAIN Recipe[c] |-> [step |-> Recipe[c][n], place |-> <<n, 0>>]]

Beams(c) == {n \in DOMAIN Recipe[c] : IsBeam(Recipe[c][n])}
OwnSteps(c) == Without(Entries(c), {Entries(c)[n] : n \in Beams(c)})

(* Mutant: the compilation is dropped with the duplicates. *)
StepsWithoutBeam(names, c) == OwnSteps(c)

(* make_cases(): the BEAMs are compiled once, before the first case.       *)
StepsOf(names, c) ==
    LET compiling == {k \in DOMAIN names : Beams(names[k]) # {}}
        first == names[Min(compiling)]
        beam == Entries(first)[Min(Beams(first))]
    IN IF c = names[1] /\ compiling # {} THEN <<beam>> \o OwnSteps(c) ELSE OwnSteps(c)

(* expanded(): the commands one Rows step stands for, a row after the other. *)
RowsOf(entry, n) ==
    [k \in 1 .. n |-> [step |-> entry.step.each, place |-> <<entry.place[1], k>>]]

-----------------------------------------------------------------------------
(* A stage directory: "logs" is the directory logs/, "files" holds what a  *)
(* step left in its own log directory, "products" the files in the stage   *)
(* itself as <<place, attempt>>; two cases may use one name.               *)

NoStage == [exists |-> FALSE, logs |-> FALSE, products |-> {}, files |-> << >>, receipt |-> Nothing]
NoFiles == [ran |-> FALSE, output |-> 0, ending |-> Nothing]

(* The stages in a directory, its own first. *)
StagesIn(d) == IF d = Root THEN Stage ELSE {d}

(* Mutant: whatever is there is taken for the new attempt's. *)
AnyStage(d) == TRUE

(* require_fresh(): absent or empty. *)
Fresh(d) ==
    /\ ~disk[d].logs /\ disk[d].products = {} /\ disk[d].receipt = Nothing
    /\ \A e \in StagesIn(d) : e # d => ~disk[e].exists

(* mkdir(parents=True): the stages d lies in are there as well. *)
Made(d) == [e \in Stage |-> IF d \in StagesIn(e) THEN [disk[e] EXCEPT !.exists = TRUE] ELSE disk[e]]

(* make_cases(): where a case of a selection runs. *)
StageOf(names, c) == IF Len(names) = 1 THEN Root ELSE c

NotRunning == [at |-> "idle", attempt |-> 0, names |-> << >>, next |-> 1, todo |-> << >>, rows |-> << >>]

Current(r) == runner[r].names[runner[r].next]
Here(r) == StageOf(runner[r].names, Current(r))
Active(d) == \E r \in Runner : runner[r].at \notin {"idle", "check"} /\ Here(r) = d

Receipt(r, status, rows) ==
    [case |-> Current(r), status |-> status, rows |-> rows, attempt |-> runner[r].attempt]
Row(entry, status) == [entry |-> entry, status |-> status]
LastRow(rows, status) == [rows EXCEPT ![Len(rows)].status = status]

RunnerInit ==
    /\ disk = [d \in Stage |-> NoStage]
    /\ runner = [r \in Runner |-> NotRunning]
    /\ starts = 0
    /\ compiled = {}

-----------------------------------------------------------------------------
(* main().                                                                 *)

(* selected(): any nonempty list of cases, duplicates dropped. *)
Selections == UNION {SetToSeqs(S) : S \in (SUBSET Case) \ {{}}}

Start(r, names) ==
    /\ runner[r].at = "idle"
    /\ starts < MaxRuns
    /\ starts' = starts + 1
    /\ runner' = [runner EXCEPT ![r] = [NotRunning EXCEPT !.at = "check", !.attempt = starts + 1,
                                      !.names = names]]
    /\ UNCHANGED <<disk, compiled>>

(* Every stage is looked at before the first case runs. *)
CheckAll(r) ==
    LET p == runner[r] IN
    /\ p.at = "check"
    /\ runner' = [runner EXCEPT ![r] =
                  IF \A n \in 1 .. Len(p.names) : Fresh(StageOf(p.names, p.names[n]))
                  THEN [@ EXCEPT !.at = "case"] ELSE NotRunning]
    /\ UNCHANGED <<disk, starts, compiled>>

(* run_case() looks again, then makes the stage; files that appear between *)
(* the two are left to MakeLogs.                                           *)
OpenCase(r) ==
    LET p == runner[r] IN
    /\ p.at = "case"
    /\ IF Fresh(Here(r))
       THEN /\ runner' = [runner EXCEPT ![r] = [@ EXCEPT !.at = "logs"]]
            /\ disk' = Made(Here(r))
       ELSE /\ runner' = [runner EXCEPT ![r] = NotRunning]
            /\ UNCHANGED disk
    /\ UNCHANGED <<starts, compiled>>

(* Mutant: mkdir(exist_ok=True). *)
MakeLogsShared(r) ==
    LET p == runner[r]  d == Here(r) IN
    /\ p.at = "logs"
    /\ disk' = [disk EXCEPT ![d].logs = TRUE]
    /\ runner' = [runner EXCEPT ![r] = [@ EXCEPT !.at = "opened"]]
    /\ UNCHANGED <<starts, compiled>>

(* The logs directory is made by one runner only: mkdir raises for a       *)
(* second one, and outside the try block it leaves no receipt.             *)
MakeLogs(r) ==
    LET p == runner[r]  d == Here(r) IN
    /\ p.at = "logs"
    /\ IF disk[d].logs
       THEN /\ runner' = [runner EXCEPT ![r] = NotRunning]
            /\ UNCHANGED disk
       ELSE /\ runner' = [runner EXCEPT ![r] = [@ EXCEPT !.at = "opened"]]
            /\ disk' = [disk EXCEPT ![d].logs = TRUE]
    /\ UNCHANGED <<starts, compiled>>

SaveFirst(r) ==
    LET p == runner[r]  d == Here(r) IN
    /\ p.at = "opened"
    /\ disk' = [disk EXCEPT ![d].receipt = Receipt(r, "running", << >>)]
    /\ runner' = [runner EXCEPT ![r] = [@ EXCEPT !.at = "steps", !.todo = StepsOf(p.names, Current(r)),
                                             !.rows = << >>]]
    /\ UNCHANGED <<starts, compiled>>

-----------------------------------------------------------------------------
(* run_case(), step by step.                                               *)

(* The except and finally clauses: a step that was running failed with the *)
(* case.  The exception then ends main().                                  *)
FailCase(r) ==
    LET p == runner[r]
        rows == IF p.rows # << >> /\ Last(p.rows).status = "running"
                THEN LastRow(p.rows, "failed") ELSE p.rows
    IN /\ disk' = [disk EXCEPT ![Here(r)].receipt = Receipt(r, "failed", rows)]
       /\ runner' = [runner EXCEPT ![r] = NotRunning]

(* expanded(): the table is read when its turn comes. *)
ReadTable(r, n) ==
    LET p == runner[r] IN
    /\ p.at = "steps"
    /\ p.todo # << >>
    /\ Head(p.todo).step.kind = "rows"
    /\ n > 0
    /\ runner' = [runner EXCEPT ![r] = [@ EXCEPT !.todo = RowsOf(Head(p.todo), n) \o Tail(p.todo)]]
    /\ UNCHANGED <<disk, starts, compiled>>

(* An empty table, or a row with the wrong number of columns. *)
BadTable(r) ==
    LET p == runner[r] IN
    /\ p.at = "steps"
    /\ p.todo # << >>
    /\ Head(p.todo).step.kind = "rows"
    /\ FailCase(r)
    /\ UNCHANGED <<starts, compiled>>

BeginStep(r) ==
    LET p == runner[r]  d == Here(r)
        rows == Append(p.rows, Row(Head(p.todo), "running"))
    IN /\ p.at = "steps"
       /\ p.todo # << >>
       /\ Head(p.todo).step.kind # "rows"
       /\ disk' = [disk EXCEPT ![d].receipt = Receipt(r, "running", rows),
                               ![d].files = Append(@, NoFiles)]
       /\ runner' = [runner EXCEPT ![r] = [@ EXCEPT !.at = "run", !.rows = rows]]
       /\ UNCHANGED <<starts, compiled>>

(* The support files are copied; if none matches, the step fails. *)
CopyFiles(r) ==
    LET p == runner[r]  entry == Head(p.todo) IN
    /\ p.at = "run"
    /\ entry.step.kind = "copy"
    /\ disk' = [disk EXCEPT ![Here(r)].products = @ \cup {<<entry.place, p.attempt>>}]
    /\ runner' = [runner EXCEPT ![r] = [@ EXCEPT !.at = "passed"]]
    /\ UNCHANGED <<starts, compiled>>

(* resolve() raises when a generated scalar is not one line; no command    *)
(* has been recorded then.                                                 *)
BadStep(r) ==
    LET step == Head(runner[r].todo).step IN
    /\ runner[r].at = "run"
    /\ step.kind = "command" => step.generated
    /\ FailCase(r)
    /\ UNCHANGED <<starts, compiled>>

(* The command is recorded and executor.run() returns: "output" is the     *)
(* length of what it wrote.                                                *)
RunCommand(r, ending, output) ==
    LET p == runner[r]  d == Here(r)  entry == Head(p.todo) IN
    /\ p.at = "run"
    /\ entry.step.kind = "command"
    /\ ending.stdout = (output > 0)
    /\ disk' = [disk EXCEPT
                  ![d].files[Len(p.rows)] = [ran |-> TRUE, output |-> output, ending |-> ending],
                  ![d].products = IF ending.product /\ entry.step.demand.product
                                  THEN @ \cup {<<entry.place, p.attempt>>} ELSE @]
    /\ runner' = [runner EXCEPT ![r] = [@ EXCEPT !.at = "judge"]]
    /\ UNCHANGED <<starts, compiled>>

(* Mutant: any failure with a matching diagnostic is the expected rejection. *)
AcceptsAnyFailure(demand, ending) ==
    /\ ending.exit # "timeout"
    /\ IF demand.rejection THEN ending.exit # "zero" /\ ending.matches ELSE ending.exit = "zero"
    /\ demand.nonempty => ending.stdout

(* run() raises unless the command ended as the case demands. *)
Accepts(demand, ending) ==
    /\ ending.exit # "timeout"
    /\ IF demand.rejection THEN ending.exit = "positive" /\ ending.matches
                           ELSE ending.exit = "zero"
    /\ demand.nonempty => ending.stdout

(* The product files are looked for in the stage, whoever wrote them. *)
JudgeCommand(r) ==
    LET p == runner[r]  d == Here(r)  entry == Head(p.todo)  demand == entry.step.demand
        ending == disk[d].files[Len(p.rows)].ending
    IN /\ p.at = "judge"
       /\ IF /\ Accepts(demand, ending)
             /\ demand.product => \E x \in disk[d].products : x[1] = entry.place
             /\ demand.witness => ending.witness
          THEN /\ runner' = [runner EXCEPT ![r] = [@ EXCEPT !.at = "passed"]]
               /\ compiled' = IF IsBeam(entry.step) THEN compiled \cup {p.attempt} ELSE compiled
               /\ UNCHANGED disk
          ELSE FailCase(r) /\ UNCHANGED compiled
       /\ UNCHANGED starts

PassStep(r) ==
    LET p == runner[r]  rows == LastRow(p.rows, "passed") IN
    /\ p.at = "passed"
    /\ disk' = [disk EXCEPT ![Here(r)].receipt = Receipt(r, "running", rows)]
    /\ runner' = [runner EXCEPT ![r] = [@ EXCEPT !.at = "steps", !.rows = rows, !.todo = Tail(p.todo)]]
    /\ UNCHANGED <<starts, compiled>>

(* The case passed; main() goes on with the next one. *)
PassCase(r) ==
    LET p == runner[r]  d == Here(r) IN
    /\ p.at = "steps"
    /\ p.todo = << >>
    /\ disk' = [disk EXCEPT ![d].receipt = Receipt(r, "passed", p.rows)]
    /\ runner' = [runner EXCEPT ![r] = IF p.next = Len(p.names) THEN NotRunning
                                   ELSE [@ EXCEPT !.at = "case", !.next = p.next + 1]]
    /\ UNCHANGED <<starts, compiled>>

-----------------------------------------------------------------------------
(* Around the runners.                                                     *)

(* KeyboardInterrupt, or a failing write, between the first receipt and    *)
(* the last one.                                                           *)
Interrupt(r) ==
    /\ runner[r].at \in {"steps", "run", "judge", "passed"}
    /\ FailCase(r)
    /\ UNCHANGED <<starts, compiled>>

Kill(r) ==
    /\ runner[r].at # "idle"
    /\ runner' = [runner EXCEPT ![r] = NotRunning]
    /\ UNCHANGED <<disk, starts, compiled>>

(* Somebody removes a stage, or leaves a product of an older build in it,  *)
(* while no runner works there.  STAGE is removed with all it contains.    *)
RemoveStage(d) ==
    /\ disk[d].exists /\ \A e \in StagesIn(d) : ~Active(e)
    /\ disk' = [e \in Stage |-> IF e \in StagesIn(d) THEN NoStage ELSE disk[e]]
    /\ UNCHANGED <<runner, starts, compiled>>

Leave(d, place) ==
    /\ ~disk[d].exists /\ ~Active(d)
    /\ disk' = [Made(d) EXCEPT ![d].products = {<<place, 0>>}]
    /\ UNCHANGED <<runner, starts, compiled>>

(* The places where steps of a case that may run there write products. *)
Places(d) ==
    UNION {{<<n, 0>> : n \in {m \in DOMAIN Recipe[c] :
                LET step == Recipe[c][m] IN
                step.kind = "copy" \/ (step.kind = "command" /\ step.demand.product)}} :
             c \in StagesIn(d) \ {Root}}

RunnerNext ==
    \/ \E r \in Runner :
         \/ \E names \in Selections : Start(r, names)
         \/ CheckAll(r) \/ OpenCase(r) \/ MakeLogs(r) \/ SaveFirst(r)
         \/ \E n \in 1 .. MaxRows : ReadTable(r, n)
         \/ BadTable(r) \/ BeginStep(r) \/ CopyFiles(r) \/ BadStep(r)
         \/ \E ending \in Result, output \in LogSizes : RunCommand(r, ending, output)
         \/ JudgeCommand(r) \/ PassStep(r) \/ PassCase(r)
         \/ Interrupt(r) \/ Kill(r)
    \/ \E d \in Stage : RemoveStage(d) \/ \E place \in Places(d) : Leave(d, place)

RunnerSpec == RunnerInit /\ [][RunnerNext]_regression

-----------------------------------------------------------------------------
(* Properties.                                                             *)

(* A receipt's entries are the whole recipe of a case in its order: every  *)
(* step is there once, a table as its rows from the first on, none left    *)
(* out, and nothing else but the compilation of the BEAMs, in front.       *)
Earlier(p, q) == p[1] < q[1] \/ (p[1] = q[1] /\ 0 < p[2] /\ p[2] < q[2])

Belongs(c, entry) ==
    /\ entry.place[1] \in DOMAIN Recipe[c]
    /\ LET step == Recipe[c][entry.place[1]] IN
       \/ entry.place[2] = 0 /\ entry.step = step
       \/ entry.place[2] > 0 /\ step.kind = "rows" /\ entry.step = step.each

InRecipeOrder(c, entries) ==
    LET own == {n \in DOMAIN entries : ~IsBeam(entries[n].step)} IN
    /\ DOMAIN entries \ own \subseteq {1}
    /\ \A n \in own : Belongs(c, entries[n])
    /\ \A m, n \in own : m < n => Earlier(entries[m].place, entries[n].place)
    /\ \A k \in DOMAIN Recipe[c] : IsBeam(Recipe[c][k]) \/ \E n \in own : entries[n].place[1] = k
    /\ \A n \in own : entries[n].place[2] > 1 =>
         \E m \in own : entries[m].place = <<entries[n].place[1], entries[n].place[2] - 1>>

(* What a passed row says of its step.                                     *)
Proven(row, file, products, attempt) ==
    LET step == row.entry.step  demand == step.demand  ending == file.ending IN
    step.kind = "command" =>
      /\ ending.exit = IF demand.rejection THEN "positive" ELSE "zero"
      /\ demand.rejection => ending.matches
      /\ demand.nonempty => ending.stdout
      /\ demand.witness => ending.witness
      /\ demand.product => ending.product /\ <<row.entry.place, attempt>> \in products

(* What a stage shows once its receipt says "passed".                      *)
PassedTruly(d, stage, done) ==
    LET receipt == stage.receipt  c == receipt.case IN
    receipt # Nothing /\ receipt.status = "passed" =>
      /\ d \in {Root, c}
      /\ InRecipeOrder(c, [n \in DOMAIN receipt.rows |-> receipt.rows[n].entry])
      /\ Beams(c) # {} => receipt.attempt \in done
      /\ Len(stage.files) = Len(receipt.rows)
      /\ \A x \in stage.products : x[2] = receipt.attempt
      /\ \A n \in DOMAIN receipt.rows :
           LET row == receipt.rows[n] IN
           /\ row.status = "passed" /\ row.entry.step.kind # "rows"
           /\ Proven(row, stage.files[n], stage.products, receipt.attempt)

(* A runner that made the logs directory of its case. *)
Writes(r) == runner[r].at \in {"opened", "steps", "run", "judge", "passed"}

(* A receipt that says "passed" is the truth about one attempt at the case *)
(* it names, which in STAGE/<case> is that case: its rows are the case's   *)
(* whole recipe in order, every command of them ended as the case demands, *)
(* every product it demands was written by that very attempt and not left  *)
(* over, no product of another attempt lies in the stage itself (stages    *)
(* that others made inside STAGE apart), and test BEAMs the case needs     *)
(* were compiled by the same attempt.  No two runners write one stage.     *)
(* (run_case(), require_fresh(), make_cases(): a stage is shared between   *)
(* runners of the same and of different cases, killed runs and older       *)
(* builds, and products are only looked up by name.)                       *)
ReceiptsTruthful ==
    /\ \A d \in Stage : PassedTruly(d, disk[d], compiled)
    /\ \A r, q \in Runner : r # q /\ Writes(r) /\ Writes(q) => Here(r) # Here(q)

=============================================================================
