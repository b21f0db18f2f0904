--------------------------- MODULE CallOwnership ---------------------------
(***************************************************************************)
(* What an actor that may retain calls promises its callers, whichever     *)
(* scheduler runs it (hls_statem or hls_gs with hls_gs_deferred): a call   *)
(* waits in arrival order, then the actor owes it one answer, and at most  *)
(* `Limit' answers are owed at a time.  A call is refused without being    *)
(* given to the application only when that limit is reached.               *)
(***************************************************************************)
EXTENDS Integers, FiniteSets

CONSTANTS Call, Limit

VARIABLES waiting,  \* calls that were sent and not dispatched
          owed,     \* calls whose answer the actor owes
          answered
vars == <<waiting, owed, answered>>

Init == waiting = {} /\ owed = {} /\ answered = {}

Ask(c) ==
  /\ c \notin waiting \cup owed \cup answered
  /\ waiting' = waiting \cup {c} /\ UNCHANGED <<owed, answered>>

Oldest(c) == c \in waiting /\ \A d \in waiting : c <= d

Refuse(c) ==
  /\ Oldest(c) /\ Cardinality(owed) = Limit
  /\ waiting' = waiting \ {c} /\ answered' = answered \cup {c} /\ UNCHANGED owed

\* The actor takes call c and may answer one call it owes, c included.
Take(c) ==
  /\ Oldest(c) /\ Cardinality(owed) < Limit
  /\ waiting' = waiting \ {c}
  /\ \E done \in SUBSET (owed \cup {c}) :
       /\ Cardinality(done) <= 1
       /\ owed' = (owed \cup {c}) \ done /\ answered' = answered \cup done

Answer(c) ==
  /\ c \in owed
  /\ owed' = owed \ {c} /\ answered' = answered \cup {c} /\ UNCHANGED waiting

Next == \E c \in Call : Ask(c) \/ Refuse(c) \/ Take(c) \/ Answer(c)

Spec == Init /\ [][Next]_vars
=============================================================================
