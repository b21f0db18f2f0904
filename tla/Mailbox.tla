------------------------------ MODULE Mailbox ------------------------------
(***************************************************************************)
(* The bounded actor mailbox of apps/hls_runtime/src/runtime/              *)
(* hls_mailbox.erl, as a data type: one operator per exported function,    *)
(* each taking a mailbox and returning a record with the reply and the     *)
(* mailbox after the call.                                                 *)
(*                                                                         *)
(* The Erlang map from slot numbers to occupied slots is a total function  *)
(* here: a slot that is absent from the map is FreeSlot.  A clause (a pure *)
(* predicate on messages) is the set of the messages that it accepts.      *)
(***************************************************************************)
EXTENDS Integers, Sequences, FiniteSets

CONSTANTS Owner,     \* the ingresses that reserve slots
          Message,   \* the message bodies
          Capacity   \* the number of physical slots

ASSUME CapacityAssumption == Capacity \in Nat \ {0}

SlotNumber == 0 .. Capacity - 1

-----------------------------------------------------------------------------
(* Types.                                                                  *)

FreeSlot == [status |-> "free"]

ReservedSlot == [status : {"reserved"}, owner : Owner, ticket : Nat]

CommittedSlot == [status : {"committed"}, owner : Owner, ticket : Nat,
                  arrival : Nat, message : Message]

Slot == {FreeSlot} \cup ReservedSlot \cup CommittedSlot

MailboxType == [id : Nat, generation : Nat, nextTicket : Nat,
                nextArrival : Nat, slots : [SlotNumber -> Slot]]

Reservation == [id : Nat, owner : Owner, generation : Nat,
                slot : SlotNumber, ticket : Nat]

Selection == [id : Nat, generation : Nat, slot : SlotNumber, ticket : Nat,
              arrival : Nat]

-----------------------------------------------------------------------------
(* new/2 and reset/1.  A new mailbox has a fresh reference; a reset keeps  *)
(* the reference and starts the next generation with fresh counters.       *)

New(id, generation) ==
  [id |-> id, generation |-> generation, nextTicket |-> 0, nextArrival |-> 0,
   slots |-> [i \in SlotNumber |-> FreeSlot]]

\* Mutant: the reset forgets to advance the generation.
ResetSameGeneration(mb) == New(mb.id, mb.generation)

Reset(mb) == New(mb.id, mb.generation + 1)

-----------------------------------------------------------------------------
(* reserve/3.                                                              *)

Occupied(mb) == {i \in SlotNumber : mb.slots[i].status # "free"}

Committed(mb) == {i \in SlotNumber : mb.slots[i].status = "committed"}

Full(mb) == Cardinality(Occupied(mb)) >= Capacity

FirstFreeSlot(mb) ==
  CHOOSE i \in SlotNumber \ Occupied(mb) :
    \A j \in SlotNumber \ Occupied(mb) : i <= j

Reserve(generation, owner, mb) ==
  IF generation # mb.generation THEN [reply |-> "stale_generation", mailbox |-> mb]
  ELSE IF Full(mb) THEN [reply |-> "full", mailbox |-> mb]
  ELSE [reply |-> "ok",
        token |-> [id |-> mb.id, owner |-> owner, generation |-> mb.generation,
                   slot |-> FirstFreeSlot(mb), ticket |-> mb.nextTicket],
        mailbox |->
          [mb EXCEPT !.nextTicket = @ + 1,
                     !.slots = [@ EXCEPT ![FirstFreeSlot(mb)] =
                       [status |-> "reserved", owner |-> owner,
                        ticket |-> mb.nextTicket]]]]

-----------------------------------------------------------------------------
(* cancel/2 and cancel_owner/2.                                            *)

\* Both kinds of token are checked for the mailbox and its generation first;
\* `foreign` is the reply to a token of another mailbox.
TokenCheck(token, mb, foreign) ==
  IF token.id # mb.id THEN foreign
  ELSE IF token.generation # mb.generation THEN "stale_generation"
  ELSE "ok"

\* Mutant: the ticket is not compared.
HoldsAnyTicket(mb, r) ==
  mb.slots[r.slot].status = "reserved" /\ mb.slots[r.slot].owner = r.owner

HoldsReservation(mb, r) ==
  /\ mb.slots[r.slot].status = "reserved"
  /\ mb.slots[r.slot].owner = r.owner
  /\ mb.slots[r.slot].ticket = r.ticket

Release(mb, released) ==
  [mb EXCEPT !.slots = [i \in SlotNumber |-> IF i \in released THEN FreeSlot
                                             ELSE mb.slots[i]]]

Cancel(r, mb) ==
  LET check == TokenCheck(r, mb, "invalid_reservation") IN
  IF check # "ok" THEN [reply |-> check, mailbox |-> mb]
  ELSE IF HoldsReservation(mb, r)
       THEN [reply |-> "ok", mailbox |-> Release(mb, {r.slot})]
       ELSE [reply |-> "invalid_reservation", mailbox |-> mb]

IncompleteOf(owner, mb) ==
  {i \in SlotNumber : mb.slots[i].status = "reserved" /\ mb.slots[i].owner = owner}

CancelOwner(owner, mb) ==
  [reply |-> Cardinality(IncompleteOf(owner, mb)),
   mailbox |-> Release(mb, IncompleteOf(owner, mb))]

-----------------------------------------------------------------------------
(* commit/3.  The arrival age is the order of the commits, not of the      *)
(* reservations.                                                           *)

HoldsCommitted(mb, r) ==
  mb.slots[r.slot].status = "committed" /\ mb.slots[r.slot].ticket = r.ticket

\* Mutants: the arrival is left undefined; the message keeps the age of its
\* reservation.
PublishNoArrival(mb, r, message) ==
  [mb EXCEPT !.slots = [@ EXCEPT ![r.slot] =
    [status |-> "committed", owner |-> r.owner, ticket |-> r.ticket,
     arrival |-> -1, message |-> message]]]

PublishInTicketOrder(mb, r, message) ==
  [mb EXCEPT !.nextArrival = mb.nextTicket,
             !.slots = [@ EXCEPT ![r.slot] =
    [status |-> "committed", owner |-> r.owner, ticket |-> r.ticket,
     arrival |-> r.ticket, message |-> message]]]

Publish(mb, r, message) ==
  [mb EXCEPT !.nextArrival = @ + 1,
             !.slots = [@ EXCEPT ![r.slot] =
               [status |-> "committed", owner |-> mb.slots[r.slot].owner,
                ticket |-> r.ticket, arrival |-> mb.nextArrival,
                message |-> message]]]

Commit(r, message, mb) ==
  LET check == TokenCheck(r, mb, "invalid_reservation") IN
  IF check # "ok" THEN [reply |-> check, mailbox |-> mb]
  ELSE IF HoldsCommitted(mb, r) THEN [reply |-> "already_committed", mailbox |-> mb]
  ELSE IF HoldsReservation(mb, r)
       THEN [reply |-> "ok", mailbox |-> Publish(mb, r, message)]
       ELSE [reply |-> "invalid_reservation", mailbox |-> mb]

-----------------------------------------------------------------------------
(* select/2: the oldest message that some clause accepts, with the first   *)
(* clause that accepts it.                                                 *)

Accepts(clauses, message) == \E k \in 1 .. Len(clauses) : message \in clauses[k]

FirstMatchingClause(clauses, message) ==
  CHOOSE k \in 1 .. Len(clauses) :
    /\ message \in clauses[k]
    /\ \A l \in 1 .. k - 1 : message \notin clauses[l]

Matching(clauses, mb) == {i \in Committed(mb) : Accepts(clauses, mb.slots[i].message)}

IsOldestMatching(i, clauses, mb) ==
  /\ i \in Matching(clauses, mb)
  /\ \A j \in Matching(clauses, mb) : mb.slots[i].arrival <= mb.slots[j].arrival

Select(clauses, mb) ==
  IF Matching(clauses, mb) = {} THEN [reply |-> "none"]
  ELSE LET i == CHOOSE j \in SlotNumber : IsOldestMatching(j, clauses, mb) IN
       [reply |-> "ok",
        token |-> [id |-> mb.id, generation |-> mb.generation, slot |-> i,
                   ticket |-> mb.slots[i].ticket,
                   arrival |-> mb.slots[i].arrival],
        clause |-> FirstMatchingClause(clauses, mb.slots[i].message),
        message |-> mb.slots[i].message]

-----------------------------------------------------------------------------
(* consume/2.                                                              *)

\* Mutant: the slot is consumed whatever it holds by now.
HoldsAnyCommitted(mb, s) == mb.slots[s.slot].status = "committed"

HoldsSelected(mb, s) ==
  /\ mb.slots[s.slot].status = "committed"
  /\ mb.slots[s.slot].ticket = s.ticket
  /\ mb.slots[s.slot].arrival = s.arrival

Consume(s, mb) ==
  LET check == TokenCheck(s, mb, "stale_selection") IN
  IF check # "ok" THEN [reply |-> check, mailbox |-> mb]
  ELSE IF HoldsSelected(mb, s)
       THEN [reply |-> "ok", message |-> mb.slots[s.slot].message,
             mailbox |-> Release(mb, {s.slot})]
       ELSE [reply |-> "stale_selection", mailbox |-> mb]
=============================================================================
