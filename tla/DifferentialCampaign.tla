------------------------ MODULE DifferentialCampaign ------------------------
(***************************************************************************)
(* A campaign of tools/compiler_differential.py: batches of programs go    *)
(* through the tools until one fails, and the failure is made smaller by   *)
(* running ever smaller candidates within a budget.                        *)
(*                                                                         *)
(* A program is [tree, total, inputs], inputs a sequence of rows of words. *)
(* What the tools do wrong is a set of defects [phase, category, op, word, *)
(* batch]: the phase fails for a batch of at least "batch" programs, one   *)
(* of which has the operation and a word at least as large.  A candidate's *)
(* run may also time out; at most MaxTimeouts do.                          *)
(***************************************************************************)
EXTENDS DifferentialCases, FiniteSetsExt

CONSTANTS Campaigns,     \* [batches, defects, rtl, budget]: programs, tools and options
          MaxTimeouts

VARIABLES campaign,
          step,          \* "batches", "isolate", "halve", "reduce", "words", "done"
          completed,     \* batches that passed
          target,        \* the signature to keep
          selected,      \* the programs that show it
          todo,          \* candidates not yet tried, in order
          place,         \* "words": the next word
          attempts, seen,
          timeouts
differential == <<campaign, step, completed, target, selected, todo, place, attempts, seen, timeouts>>

Phases == <<"lower", "oracle", "dslx", "convert", "optimize", "codegen", "iverilog", "rtl">>
RtlPhases == {"codegen", "iverilog", "rtl"}
Ok == <<"ok", "ok">>
NoFailure == <<"none", "none">>
NotReduced == {"timeout", "tool_error", "missing_tests", "invalid_source"}

RECURSIVE Operations(_)
Operations(t) == {t.op} \cup UNION {Operations(t.kids[n]) : n \in DOMAIN t.kids}

Largest(program) == Max(UNION {Range(program.inputs[n]) : n \in DOMAIN program.inputs})

Shows(defect, programs) ==
    /\ Len(programs) >= defect.batch
    /\ \E n \in DOMAIN programs :
          defect.op \in Operations(programs[n].tree) /\ Largest(programs[n]) >= defect.word

(* Runner.run(): the first phase that fails, with its category.  Programs  *)
(* marked total must not fail in the oracle.                               *)
Run(defects, programs, rtl) ==
    LET invalid == IF \E n \in DOMAIN programs : programs[n].total /\ ~CannotFail(programs[n].tree)
                   THEN {<<"oracle", "invalid_total_program">>} ELSE {}
        found == invalid \cup {<<d.phase, d.category>> : d \in {x \in defects : Shows(x, programs)}}
        failing(phase) == {f \in found : f[1] = phase /\ (phase \in RtlPhases => rtl)}
        failed == {n \in DOMAIN Phases : failing(Phases[n]) # {}}
    IN IF failed = {} THEN Ok ELSE CHOOSE f \in failing(Phases[Min(failed)]) : TRUE

Batch == campaign.batches[completed + 1]
Rtl(n) == n <= campaign.rtl

DifferentialInit ==
    /\ campaign \in Campaigns
    /\ step = "batches" /\ completed = 0 /\ target = NoFailure /\ selected = << >> /\ todo = << >>
    /\ place = <<1, 1>> /\ attempts = 0 /\ seen = {} /\ timeouts = 0

Halves(program) ==
    LET middle == Len(program.inputs) \div 2
        upper == SubSeq(program.inputs, middle + 1, Len(program.inputs))
    IN IF middle = 0 THEN << >>
       ELSE << <<[program EXCEPT !.inputs = SubSeq(@, 1, middle)]>>, <<[program EXCEPT !.inputs = upper]>> >>

Smaller(program) ==
    LET trees == TreeReductions(program.tree, TRUE) IN
    [n \in DOMAIN trees |-> <<[program EXCEPT !.tree = trees[n]]>>]

(* The words to try at a place; dict.fromkeys() drops repetitions, which   *)
(* "seen" would refuse.                                                    *)
SmallerWords(program, at) ==
    LET value == program.inputs[at[1]][at[2]]
        words == SelectSeq(<<0, 1, 2, 3, value \div 2>>, LAMBDA w : w < value)
    IN [n \in DOMAIN words |-> <<[program EXCEPT !.inputs[at[1]][at[2]] = words[n]]>>]

(* The candidates a step of minimize() starts with. *)
Candidates(at, programs) ==
    CASE step' = "isolate" -> [n \in DOMAIN programs |-> <<programs[n]>>]
      [] step' = "halve" -> Halves(programs[1])
      [] step' = "reduce" -> Smaller(programs[1])
      [] step' = "words" -> SmallerWords(programs[1], at)
      [] OTHER -> << >>

(* main(): one batch.  Only the first Campaign.rtl batches are simulated.  *)
RunBatch ==
    LET result == Run(campaign.defects, Batch, Rtl(completed + 1))
        shrink == campaign.budget > 0 /\ result[2] \notin NotReduced
    IN /\ step = "batches" /\ completed < Len(campaign.batches)
       /\ IF result = Ok
          THEN /\ completed' = completed + 1
               /\ UNCHANGED <<step, target, selected, todo>>
          ELSE /\ target' = result /\ selected' = Batch
               /\ step' = IF ~shrink THEN "done" ELSE IF Len(Batch) > 1 THEN "isolate" ELSE "halve"
               /\ todo' = Candidates(place, selected')
               /\ UNCHANGED completed
       /\ UNCHANGED <<campaign, place, attempts, seen, timeouts>>

EndCampaign ==
    /\ step = "batches" /\ completed = Len(campaign.batches)
    /\ step' = "done"
    /\ UNCHANGED <<campaign, completed, target, selected, todo, place, attempts, seen, timeouts>>

Spent == attempts >= campaign.budget

NextPlace == IF place[2] < Len(selected[1].inputs[place[1]]) THEN <<place[1], place[2] + 1>>
             ELSE <<place[1] + 1, 1>>
LastPlace == NextPlace[1] > Len(selected[1].inputs)

(* The step after one that has no candidate left. *)
Following ==
    CASE step = "isolate" -> "done"
      [] step = "halve" -> "reduce"
      [] step = "reduce" -> "words"
      [] OTHER -> IF LastPlace THEN "done" ELSE "words"

(* A candidate refused because the budget is spent or it was tried. *)
PassOver ==
    /\ step \in {"isolate", "halve", "reduce", "words"} /\ todo # << >>
    /\ Spent \/ Head(todo) \in seen
    /\ todo' = Tail(todo)
    /\ UNCHANGED <<campaign, step, completed, target, selected, place, attempts, seen, timeouts>>

(* Mutant: any failure is the failure. *)
SameAsAny(result) == result # Ok

Same(result) == result = target

(* accepts(): one more run.  An accepted candidate replaces the program    *)
(* and the step starts over; an accepted word moves on to the next.        *)
Attempt ==
    LET candidate == Head(todo)
        result == Run(campaign.defects, candidate, Rtl(completed + 1))
    IN /\ step \in {"isolate", "halve", "reduce", "words"} /\ todo # << >>
       /\ ~Spent /\ candidate \notin seen
       /\ seen' = seen \cup {candidate} /\ attempts' = attempts + 1
       /\ \/ /\ ~Same(result) /\ todo' = Tail(todo)
             /\ UNCHANGED <<step, selected, place, timeouts>>
          \/ /\ timeouts < MaxTimeouts /\ timeouts' = timeouts + 1 /\ todo' = Tail(todo)
             /\ UNCHANGED <<step, selected, place>>
          \/ /\ Same(result) /\ selected' = candidate
             /\ step' = CASE step = "isolate" -> "halve"
                          [] step = "words" /\ LastPlace -> "done"
                          [] OTHER -> step
             /\ place' = IF step = "words" THEN NextPlace ELSE place
             /\ todo' = Candidates(place', selected')
             /\ UNCHANGED timeouts
       /\ UNCHANGED <<campaign, completed, target>>

NoneLeft ==
    /\ step \in {"isolate", "halve", "reduce", "words"} /\ todo = << >>
    /\ step' = Following
    /\ place' = IF step = "words" THEN NextPlace ELSE place
    /\ todo' = Candidates(place', selected)
    /\ UNCHANGED <<campaign, completed, target, selected, attempts, seen, timeouts>>

DifferentialNext == RunBatch \/ EndCampaign \/ PassOver \/ Attempt \/ NoneLeft

-----------------------------------------------------------------------------
Failing == target # NoFailure
Reducing == Failing /\ (step = "done" => target[2] \notin NotReduced /\ campaign.budget > 0)

(* No larger than a program of the failing batch. *)
Within(small, program) ==
    /\ TreeCost(small.tree) <= TreeCost(program.tree)
    /\ Len(small.inputs) <= Len(program.inputs) /\ small.inputs # << >>
    /\ Largest(small) <= Largest(program)

(* What is reported shows the failure that was found, not another one, is  *)
(* legal and no larger than a program of the failing batch; with budget    *)
(* left and no timeout, no shorter tree shows it.  A batch that needs its  *)
(* size is kept.  A campaign passes only if every batch did.               *)
ReducedFaithfully ==
    /\ Failing => /\ Run(campaign.defects, selected, Rtl(completed + 1)) = target
                  /\ attempts <= campaign.budget
                  /\ \/ selected = Batch
                     \/ /\ Len(selected) = 1
                        /\ Valid(selected[1].tree, 0, TRUE) /\ WellTyped(selected[1].tree)
                        /\ \E n \in DOMAIN Batch : Within(selected[1], Batch[n])
    /\ (Failing /\ Reducing /\ step = "done" /\ ~Spent /\ timeouts = 0) =>
          IF Len(selected) > 1
          THEN \A n \in DOMAIN selected : Run(campaign.defects, <<selected[n]>>, Rtl(completed + 1)) # target
          ELSE \A n \in DOMAIN Smaller(selected[1]) :
                 Run(campaign.defects, Smaller(selected[1])[n], Rtl(completed + 1)) # target
    /\ (step = "done" /\ ~Failing) =>
          \A n \in DOMAIN campaign.batches : Run(campaign.defects, campaign.batches[n], Rtl(n)) = Ok
=============================================================================
