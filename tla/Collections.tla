---------------------------- MODULE Collections ----------------------------
(***************************************************************************)
(* The two bounded collections an actor opens on entering a phase:         *)
(* apps/hls_runtime/src/runtime/hls_reduction.erl combines one value per   *)
(* participant, hls_indexed_gather.erl stores one value per member of a    *)
(* mask.  A name and a key only select the collection and are one `key'.   *)
(*                                                                         *)
(* The monoid is the free one: the accumulator is the set of the values    *)
(* that were combined (the caller's values are distinct), so a value lost  *)
(* or combined twice shows.  Masks are sets of members.  `remaining' and   *)
(* `seen' are separate, as in the code.                                    *)
(***************************************************************************)
EXTENDS Integers, FiniteSets

CONSTANTS Width,           \* a gather's capacity
          MaxParticipants, \* the bound of a reduction's population
          Padding          \* the value of a slot that is not in the mask

ASSUME SizeAssumption == Width \in Nat /\ MaxParticipants \in Nat

Member == 0 .. Width - 1

Mismatch == [result |-> "mismatch"]
Error    == [result |-> "error"]
Pending(c)      == [result |-> "pending", collection |-> c]
Completed(e)    == [result |-> "complete", event |-> e]

-----------------------------------------------------------------------------
(* hls_reduction.  A population is a count or a set of members.            *)

Count(n)   == [mode |-> "count", size |-> n, members |-> {}]
Members(s) == [mode |-> "members", size |-> Cardinality(s), members |-> s]

Population == {Count(n) : n \in 1 .. MaxParticipants} \cup {Members(s) : s \in SUBSET Member}

ValidPopulation(p) == p.size \in 1 .. MaxParticipants

\* What the two modules keep and conclude, with the keys of a set.
ReductionState(keys) ==
  [key : keys, population : Population, seen : SUBSET Member, remaining : Nat,
   accumulator : SUBSET Nat, failed : BOOLEAN]
GatherState(keys) ==
  [key : keys, expected : SUBSET Member, seen : SUBSET Member, remaining : Nat,
   values : [Member -> Nat \cup {Padding}]]
Completion(keys) ==
  [kind : {"reduction"}, key : keys, values : SUBSET Nat]
    \cup [kind : {"gather"}, key : keys, mask : SUBSET Member,
          values : [Member -> Nat \cup {Padding}]]

OpenReduction(key, p) ==
  [key |-> key, population |-> p, seen |-> {}, remaining |-> p.size,
   accumulator |-> {}, failed |-> FALSE]

\* Mutant: the failed value is skipped and the reduction goes on.
CombineSkipping(r, value, raises) ==
  IF raises THEN r ELSE [r EXCEPT !.accumulator = @ \cup {value}]

\* combine/5: the first exception is kept and no later value is combined.
Combine(r, value, raises) ==
  CASE r.failed -> r
    [] ~r.failed /\ raises -> [r EXCEPT !.failed = TRUE]
    [] OTHER -> [r EXCEPT !.accumulator = @ \cup {value}]

\* accept/3: the exception is raised again by the last contribution.
AcceptValue(r, value, raises) ==
  LET c == Combine(r, value, raises) IN
  IF r.remaining > 1 THEN Pending([c EXCEPT !.remaining = @ - 1])
  ELSE IF c.failed THEN Error
  ELSE Completed([kind |-> "reduction", key |-> r.key, values |-> c.accumulator])

\* contribute/5.
ContributeCount(key, value, raises, r) ==
  CASE key # r.key -> Mismatch
    [] key = r.key /\ r.population.mode # "count" -> Error
    [] OTHER -> AcceptValue(r, value, raises)

\* contribute/6.
ContributeMember(key, member, value, raises, r) ==
  CASE key # r.key -> Mismatch
    [] key = r.key /\ (r.population.mode # "members"
                         \/ member \notin r.population.members \ r.seen) -> Error
    [] OTHER -> AcceptValue([r EXCEPT !.seen = @ \cup {member}], value, raises)

-----------------------------------------------------------------------------
(* hls_indexed_gather.                                                     *)

PaddedView == [m \in Member |-> Padding]

GatherComplete(key, mask, values) ==
  [kind |-> "gather", key |-> key, mask |-> mask, values |-> values]

\* open/5: an empty mask completes at once.
OpenGather(key, mask) ==
  IF mask = {} THEN Completed(GatherComplete(key, mask, PaddedView))
  ELSE Pending([key |-> key, expected |-> mask, seen |-> {},
                remaining |-> Cardinality(mask), values |-> PaddedView])

\* Mutant: a member that was seen may answer again.
OfferAgain(key, member, value, g) ==
  LET values == [g.values EXCEPT ![member] = value] IN
  CASE key # g.key -> Mismatch
    [] key = g.key /\ member \notin g.expected -> Error
    [] OTHER ->
         IF g.remaining = 1 THEN Completed(GatherComplete(key, g.expected, values))
         ELSE Pending([g EXCEPT !.values = values, !.remaining = @ - 1])

\* offer/5 and accept/4.
Offer(key, member, value, g) ==
  LET values == [g.values EXCEPT ![member] = value] IN
  CASE key # g.key -> Mismatch
    [] key = g.key /\ member \notin g.expected \ g.seen -> Error
    [] OTHER ->
         IF g.remaining = 1 THEN Completed(GatherComplete(key, g.expected, values))
         ELSE Pending([g EXCEPT !.seen = @ \cup {member}, !.values = values,
                                !.remaining = @ - 1])
=============================================================================
