--------------------------- MODULE MailboxProofs ---------------------------
(***************************************************************************)
(* Proofs about MailboxClients: for every capacity, every set of owners,   *)
(* messages and clause lists, and with no bound on how often slots are     *)
(* reused, tokens never confuse one message with another.                  *)
(***************************************************************************)
EXTENDS MailboxClients, OrderLemmas, FiniteSetTheorems, TLAPS

-----------------------------------------------------------------------------
(* What the operators of Mailbox return.                                   *)

LEMMA FirstFreeSlotIsFree ==
  ASSUME NEW mb \in MailboxType, ~Full(mb)
  PROVE  FirstFreeSlot(mb) \in SlotNumber \ Occupied(mb)
<1>1. Cardinality(SlotNumber) = Capacity
  BY CapacityAssumption, FS_Interval DEF SlotNumber
<1>2. SlotNumber \ Occupied(mb) # {}
  <2>1. SUFFICES ASSUME SlotNumber \ Occupied(mb) = {}  PROVE FALSE
    OBVIOUS
  <2>2. Occupied(mb) = SlotNumber
    BY <2>1 DEF Occupied
  <2>. QED  BY <2>2, <1>1, CapacityAssumption DEF Full
<1>3. SlotNumber \ Occupied(mb) \subseteq Nat
  BY CapacityAssumption DEF SlotNumber
<1>4. \E i \in SlotNumber \ Occupied(mb) : \A j \in SlotNumber \ Occupied(mb) : i <= j
  BY <1>2, <1>3, MinimumExists
<1>. QED  BY <1>4 DEF FirstFreeSlot

LEMMA OldestMatchingExists ==
  ASSUME NEW mb \in MailboxType, NEW clauses, Matching(clauses, mb) # {}
  PROVE  \E i \in SlotNumber : IsOldestMatching(i, clauses, mb)
<1>. DEFINE Ages == {mb.slots[i].arrival : i \in Matching(clauses, mb)}
<1>1. \A i \in Matching(clauses, mb) : i \in SlotNumber /\ mb.slots[i].arrival \in Nat
  BY DEF Matching, Committed, MailboxType, Slot, FreeSlot, ReservedSlot, CommittedSlot
<1>2. Ages \subseteq Nat /\ Ages # {}
  BY <1>1
<1>3. PICK a \in Ages : \A b \in Ages : a <= b
  <2>. HIDE DEF Ages
  <2>. QED  BY <1>2, MinimumExists
<1>4. PICK i \in Matching(clauses, mb) : a = mb.slots[i].arrival
  OBVIOUS
<1>. QED  BY <1>1, <1>3, <1>4 DEF IsOldestMatching

-----------------------------------------------------------------------------
(* The six ways in which a step changes the state.  Every call that is     *)
(* answered with an error is the last one.                                 *)

ReservationAt(i, owner) ==
  [id |-> mailbox.id, owner |-> owner, generation |-> mailbox.generation,
   slot |-> i, ticket |-> mailbox.nextTicket]

Granted(i, owner) ==
  /\ mailbox.slots[i].status = "free"
  /\ mailbox' = [mailbox EXCEPT !.nextTicket = @ + 1,
                   !.slots = [@ EXCEPT ![i] = [status |-> "reserved", owner |-> owner,
                                               ticket |-> mailbox.nextTicket]]]
  /\ reservations' = reservations \cup {ReservationAt(i, owner)}
  /\ UNCHANGED selections

Released(S) ==
  /\ mailbox' = Release(mailbox, S)
  /\ UNCHANGED <<reservations, selections>>

Published(r, message) ==
  /\ LiveReservation(r)
  /\ mailbox' = Publish(mailbox, r, message)
  /\ UNCHANGED <<reservations, selections>>

SelectionAt(i, clauses) ==
  [token |-> [id |-> mailbox.id, generation |-> mailbox.generation, slot |-> i,
              ticket |-> mailbox.slots[i].ticket, arrival |-> mailbox.slots[i].arrival],
   clauses |-> clauses,
   message |-> mailbox.slots[i].message]

Selected(i, clauses) ==
  /\ IsOldestMatching(i, clauses, mailbox)
  /\ selections' = selections \cup {SelectionAt(i, clauses)}
  /\ UNCHANGED <<mailbox, reservations>>

Renewed(id, generation) ==
  /\ \/ id > mailbox.id
     \/ id = mailbox.id /\ generation > mailbox.generation
  /\ mailbox' = New(id, generation)
  /\ UNCHANGED <<reservations, selections>>

Effect ==
  \/ \E i \in SlotNumber, owner \in Owner : Granted(i, owner)
  \/ \E S \in SUBSET SlotNumber : Released(S)
  \/ \E r \in reservations, m \in Message : Published(r, m)
  \/ \E i \in SlotNumber, clauses \in ClauseLists : Selected(i, clauses)
  \/ \E id \in Nat, g \in Nat : Renewed(id, g)
  \/ UNCHANGED vars

LEMMA StepEffect ==
  ASSUME TypeOK, [Next]_vars
  PROVE  Effect
<1>1. ASSUME NEW owner \in Owner, NEW g \in 0 .. MaxGeneration, ReserveSlot(g, owner)
      PROVE  Effect
  <2>1. CASE g # mailbox.generation \/ Full(mailbox)
    BY <1>1, <2>1 DEF ReserveSlot, Reserve, Effect, vars
  <2>2. CASE g = mailbox.generation /\ ~Full(mailbox)
    <3>1. FirstFreeSlot(mailbox) \in SlotNumber \ Occupied(mailbox)
      BY <2>2, FirstFreeSlotIsFree DEF TypeOK
    <3>2. Granted(FirstFreeSlot(mailbox), owner)
      BY <1>1, <2>2, <3>1 DEF ReserveSlot, Reserve, Granted, ReservationAt, Occupied
    <3>. QED  BY <3>1, <3>2 DEF Effect
  <2>. QED  BY <2>1, <2>2
<1>2. ASSUME NEW r \in reservations, CancelReservation(r)
      PROVE  Effect
  <2>1. {r.slot} \in SUBSET SlotNumber
    BY DEF TypeOK, Reservation
  <2>2. Released({r.slot}) \/ UNCHANGED vars
    BY <1>2 DEF CancelReservation, Cancel, Released, vars
  <2>. QED  BY <2>1, <2>2 DEF Effect
<1>3. ASSUME NEW owner \in Owner, CancelOwnerReservations(owner)
      PROVE  Effect
  <2>1. IncompleteOf(owner, mailbox) \in SUBSET SlotNumber
    BY DEF IncompleteOf
  <2>2. Released(IncompleteOf(owner, mailbox))
    BY <1>3 DEF CancelOwnerReservations, CancelOwner, Released
  <2>. QED  BY <2>1, <2>2 DEF Effect
<1>4. ASSUME NEW r \in reservations, NEW m \in Message, CommitMessage(r, m)
      PROVE  Effect
  <2>1. Published(r, m) \/ UNCHANGED vars
    BY <1>4 DEF CommitMessage, Commit, Published, LiveReservation, vars
  <2>. QED  BY <2>1 DEF Effect
<1>5. ASSUME NEW c \in ClauseLists, SelectMessage(c)
      PROVE  Effect
  <2>1. Matching(c, mailbox) # {}
    BY <1>5 DEF SelectMessage, Select
  <2>. DEFINE i == CHOOSE j \in SlotNumber : IsOldestMatching(j, c, mailbox)
  <2>2. i \in SlotNumber /\ IsOldestMatching(i, c, mailbox)
    BY <2>1, OldestMatchingExists DEF TypeOK
  <2>3. Selected(i, c)
    BY <1>5, <2>1, <2>2 DEF SelectMessage, Select, Selected, SelectionAt
  <2>. QED  BY <2>2, <2>3 DEF Effect
<1>6. ASSUME NEW s \in selections, ConsumeMessage(s)
      PROVE  Effect
  <2>1. {s.token.slot} \in SUBSET SlotNumber
    BY DEF TypeOK, SelectionTaken, Selection
  <2>2. Released({s.token.slot}) \/ UNCHANGED vars
    BY <1>6 DEF ConsumeMessage, Consume, Released, vars
  <2>. QED  BY <2>1, <2>2 DEF Effect
<1>7. ASSUME ResetMailbox
      PROVE  Effect
  <2>1. mailbox.id \in Nat /\ mailbox.generation \in Nat
    BY DEF TypeOK, MailboxType
  <2>2. mailbox.generation + 1 \in Nat /\ mailbox.generation + 1 > mailbox.generation
    BY <2>1
  <2>3. Renewed(mailbox.id, mailbox.generation + 1)
    BY <1>7, <2>2 DEF ResetMailbox, Reset, Renewed
  <2>. QED  BY <2>1, <2>2, <2>3 DEF Effect
<1>8. ASSUME NEW g \in 0 .. MaxGeneration, Respawn(g)
      PROVE  Effect
  <2>1. mailbox.id \in Nat /\ mailbox.id + 1 \in Nat /\ g \in Nat
    BY BoundAssumption DEF TypeOK, MailboxType
  <2>2. mailbox.id + 1 > mailbox.id
    BY <2>1
  <2>3. Renewed(mailbox.id + 1, g)
    BY <1>8, <2>1, <2>2 DEF Respawn, Renewed
  <2>. QED  BY <2>1, <2>3 DEF Effect
<1>9. ASSUME UNCHANGED vars
      PROVE  Effect
  BY <1>9 DEF Effect
<1>. QED  BY <1>1, <1>2, <1>3, <1>4, <1>5, <1>6, <1>7, <1>8, <1>9 DEF Next

-----------------------------------------------------------------------------
(* Type correctness.                                                       *)

LEMMA TypeStep ==
  ASSUME TypeOK, Effect
  PROVE  TypeOK'
<1>. USE DEF TypeOK, MailboxType, Slot, FreeSlot, ReservedSlot, CommittedSlot
<1>1. ASSUME NEW i \in SlotNumber, NEW owner \in Owner, Granted(i, owner)
      PROVE  TypeOK'
  <2>1. mailbox' \in MailboxType
    <3>. DEFINE slots == [mailbox.slots EXCEPT ![i] =
                   [status |-> "reserved", owner |-> owner, ticket |-> mailbox.nextTicket]]
    <3>1. slots \in [SlotNumber -> Slot]
      OBVIOUS
    <3>. DEFINE counted == [mailbox EXCEPT !.nextTicket = mailbox.nextTicket + 1]
    <3>2. counted \in MailboxType
      OBVIOUS
    <3>3. mailbox' = [counted EXCEPT !.slots = slots]
      BY <1>1 DEF Granted
    <3>. HIDE DEF slots, counted
    <3>. QED  BY <3>1, <3>2, <3>3
  <2>2. ReservationAt(i, owner) \in Reservation
    BY DEF ReservationAt, Reservation
  <2>. QED  BY <1>1, <2>1, <2>2 DEF Granted
<1>2. ASSUME NEW S \in SUBSET SlotNumber, Released(S)
      PROVE  TypeOK'
  BY <1>2 DEF Released, Release
<1>3. ASSUME NEW r \in reservations, NEW m \in Message, Published(r, m)
      PROVE  TypeOK'
  <2>1. r.slot \in SlotNumber /\ r.ticket \in Nat
    BY DEF Reservation
  <2>2. mailbox.slots[r.slot].owner \in Owner
    BY <1>3, <2>1 DEF Published, LiveReservation, HoldsReservation
  <2>3. mailbox' \in MailboxType
    <3>. DEFINE slots == [mailbox.slots EXCEPT ![r.slot] =
                   [status |-> "committed", owner |-> mailbox.slots[r.slot].owner,
                    ticket |-> r.ticket, arrival |-> mailbox.nextArrival, message |-> m]]
    <3>1. slots \in [SlotNumber -> Slot]
      BY <2>1, <2>2
    <3>. DEFINE counted == [mailbox EXCEPT !.nextArrival = mailbox.nextArrival + 1]
    <3>2. counted \in MailboxType
      OBVIOUS
    <3>3. mailbox' = [counted EXCEPT !.slots = slots]
      BY <1>3 DEF Published, Publish
    <3>. HIDE DEF slots, counted
    <3>. QED  BY <3>1, <3>2, <3>3
  <2>. QED  BY <1>3, <2>3 DEF Published
<1>4. ASSUME NEW i \in SlotNumber, NEW clauses \in ClauseLists, Selected(i, clauses)
      PROVE  TypeOK'
  <2>1. mailbox.slots[i] \in CommittedSlot
    BY <1>4 DEF Selected, IsOldestMatching, Matching, Committed
  <2>2. SelectionAt(i, clauses) \in SelectionTaken
    BY <2>1 DEF SelectionAt, SelectionTaken, Selection
  <2>. QED  BY <1>4, <2>2 DEF Selected
<1>5. ASSUME NEW id \in Nat, NEW g \in Nat, Renewed(id, g)
      PROVE  TypeOK'
  BY <1>5 DEF Renewed, New
<1>6. ASSUME UNCHANGED vars
      PROVE  TypeOK'
  BY <1>6 DEF vars
<1>. QED  BY <1>1, <1>2, <1>3, <1>4, <1>5, <1>6 DEF Effect

\* Every counter, slot and token keeps its type, for any capacity.
THEOREM TypeCorrect == Spec => []TypeOK
<1>1. Init => TypeOK
  BY DEF Init, TypeOK, New, MailboxType, Slot
<1>2. TypeOK /\ [Next]_vars => TypeOK'
  BY StepEffect, TypeStep
<1>. QED  BY <1>1, <1>2, PTL DEF Spec

-----------------------------------------------------------------------------
(* The fields of the mailbox after each effect.                            *)

LEMMA UpdateAt ==
  ASSUME NEW S, NEW T, NEW f \in [S -> T], NEW i \in S, NEW v, NEW g,
         g = [f EXCEPT ![i] = v]
  PROVE  g[i] = v /\ \A j \in S : j # i => g[j] = f[j]
  OBVIOUS

LEMMA GrantedFields ==
  ASSUME TypeOK, NEW i \in SlotNumber, NEW owner \in Owner, Granted(i, owner)
  PROVE  /\ mailbox'.id = mailbox.id /\ mailbox'.generation = mailbox.generation
         /\ mailbox'.nextArrival = mailbox.nextArrival
         /\ mailbox'.nextTicket = mailbox.nextTicket + 1
         /\ mailbox'.slots[i] =
              [status |-> "reserved", owner |-> owner, ticket |-> mailbox.nextTicket]
         /\ \A j \in SlotNumber : j # i => mailbox'.slots[j] = mailbox.slots[j]
<1>. DEFINE slots == [mailbox.slots EXCEPT ![i] =
               [status |-> "reserved", owner |-> owner, ticket |-> mailbox.nextTicket]]
<1>. DEFINE counted == [mailbox EXCEPT !.nextTicket = mailbox.nextTicket + 1]
<1>1. mailbox' = [counted EXCEPT !.slots = slots]
  BY DEF Granted
<1>2. /\ counted \in MailboxType
      /\ counted.id = mailbox.id /\ counted.generation = mailbox.generation
      /\ counted.nextArrival = mailbox.nextArrival
      /\ counted.nextTicket = mailbox.nextTicket + 1
  BY DEF TypeOK, MailboxType
<1>. HIDE DEF slots, counted
<1>3. /\ mailbox'.id = counted.id /\ mailbox'.generation = counted.generation
      /\ mailbox'.nextArrival = counted.nextArrival
      /\ mailbox'.nextTicket = counted.nextTicket
      /\ mailbox'.slots = slots
  BY <1>1, <1>2 DEF MailboxType
<1>4. mailbox.slots \in [SlotNumber -> Slot]
  BY DEF TypeOK, MailboxType
<1>. QED  BY <1>2, <1>3, <1>4, UpdateAt DEF slots

LEMMA PublishedFields ==
  ASSUME TypeOK, NEW r \in reservations, NEW m \in Message, Published(r, m)
  PROVE  /\ mailbox'.id = mailbox.id /\ mailbox'.generation = mailbox.generation
         /\ mailbox'.nextTicket = mailbox.nextTicket
         /\ mailbox'.nextArrival = mailbox.nextArrival + 1
         /\ mailbox'.slots[r.slot] =
              [status |-> "committed", owner |-> mailbox.slots[r.slot].owner,
               ticket |-> r.ticket, arrival |-> mailbox.nextArrival, message |-> m]
         /\ \A j \in SlotNumber : j # r.slot => mailbox'.slots[j] = mailbox.slots[j]
<1>. DEFINE slots == [mailbox.slots EXCEPT ![r.slot] =
               [status |-> "committed", owner |-> mailbox.slots[r.slot].owner,
                ticket |-> r.ticket, arrival |-> mailbox.nextArrival, message |-> m]]
<1>. DEFINE counted == [mailbox EXCEPT !.nextArrival = mailbox.nextArrival + 1]
<1>1. mailbox' = [counted EXCEPT !.slots = slots]
  BY DEF Published, Publish
<1>2. /\ counted \in MailboxType
      /\ counted.id = mailbox.id /\ counted.generation = mailbox.generation
      /\ counted.nextTicket = mailbox.nextTicket
      /\ counted.nextArrival = mailbox.nextArrival + 1
  BY DEF TypeOK, MailboxType
<1>. HIDE DEF slots, counted
<1>3. /\ mailbox'.id = counted.id /\ mailbox'.generation = counted.generation
      /\ mailbox'.nextTicket = counted.nextTicket
      /\ mailbox'.nextArrival = counted.nextArrival
      /\ mailbox'.slots = slots
  BY <1>1, <1>2 DEF MailboxType
<1>4. mailbox.slots \in [SlotNumber -> Slot] /\ r.slot \in SlotNumber
  BY DEF TypeOK, MailboxType, Reservation
<1>. QED  BY <1>2, <1>3, <1>4, UpdateAt DEF slots

LEMMA ReleasedFields ==
  ASSUME TypeOK, NEW S \in SUBSET SlotNumber, Released(S)
  PROVE  /\ mailbox'.id = mailbox.id /\ mailbox'.generation = mailbox.generation
         /\ mailbox'.nextTicket = mailbox.nextTicket
         /\ mailbox'.nextArrival = mailbox.nextArrival
         /\ \A i \in SlotNumber :
              mailbox'.slots[i] = IF i \in S THEN FreeSlot ELSE mailbox.slots[i]
  BY DEF TypeOK, MailboxType, Released, Release

-----------------------------------------------------------------------------
(* Preservation of each conjunct of IInv.                                  *)

LEMMA SlotTypes ==
  ASSUME TypeOK, NEW i \in SlotNumber
  PROVE  /\ mailbox.slots \in [SlotNumber -> Slot]
         /\ mailbox.slots[i].status = "committed" => mailbox.slots[i] \in CommittedSlot
         /\ mailbox.slots[i].status = "reserved" => mailbox.slots[i] \in ReservedSlot
  BY DEF TypeOK, MailboxType, Slot, FreeSlot, ReservedSlot, CommittedSlot

LEMMA ArrivalsStep ==
  ASSUME TypeOK, ArrivalsOrdered, Effect
  PROVE  ArrivalsOrdered'
<1>. USE DEF ArrivalsOrdered, Committed
<1>1. mailbox.nextArrival \in Nat /\ mailbox.slots \in [SlotNumber -> Slot]
  BY DEF TypeOK, MailboxType
<1>2. ASSUME NEW i \in SlotNumber, NEW owner \in Owner, Granted(i, owner)
      PROVE  ArrivalsOrdered'
  <2>1. mailbox'.nextArrival = mailbox.nextArrival
    BY <1>2, GrantedFields
  <2>2. /\ mailbox'.slots[i] =
             [status |-> "reserved", owner |-> owner, ticket |-> mailbox.nextTicket]
        /\ \A j \in SlotNumber : j # i => mailbox'.slots[j] = mailbox.slots[j]
    BY <1>2, GrantedFields, Zenon
  <2>. QED  BY <2>1, <2>2
<1>3. ASSUME NEW S \in SUBSET SlotNumber, Released(S)
      PROVE  ArrivalsOrdered'
  BY <1>3, ReleasedFields DEF FreeSlot
<1>4. ASSUME NEW r \in reservations, NEW m \in Message, Published(r, m)
      PROVE  ArrivalsOrdered'
  <2>1. r.slot \in SlotNumber
    BY DEF TypeOK, Reservation
  <2>2. \A j \in Committed(mailbox) :
          mailbox.slots[j].arrival \in Nat /\ mailbox.slots[j].arrival < mailbox.nextArrival
    BY SlotTypes DEF CommittedSlot
  <2>3. mailbox'.nextArrival = mailbox.nextArrival + 1
    BY <1>4, PublishedFields
  <2>4. /\ mailbox'.slots[r.slot] =
             [status |-> "committed", owner |-> mailbox.slots[r.slot].owner,
              ticket |-> r.ticket, arrival |-> mailbox.nextArrival, message |-> m]
        /\ \A j \in SlotNumber : j # r.slot => mailbox'.slots[j] = mailbox.slots[j]
    BY <1>4, PublishedFields, Zenon
  <2>. QED  BY <1>1, <2>1, <2>2, <2>3, <2>4
<1>5. ASSUME NEW i \in SlotNumber, NEW clauses \in ClauseLists, Selected(i, clauses)
      PROVE  ArrivalsOrdered'
  BY <1>5 DEF Selected
<1>6. ASSUME NEW id \in Nat, NEW g \in Nat, Renewed(id, g)
      PROVE  ArrivalsOrdered'
  BY <1>6 DEF Renewed, New, FreeSlot
<1>7. ASSUME UNCHANGED vars
      PROVE  ArrivalsOrdered'
  BY <1>7 DEF vars
<1>. QED  BY <1>2, <1>3, <1>4, <1>5, <1>6, <1>7 DEF Effect

LEMMA TokensStep ==
  ASSUME TypeOK, ArrivalsOrdered, TokensPrecedeCounters, Effect
  PROVE  TokensPrecedeCounters'
<1>. USE DEF TokensPrecedeCounters
<1>1. /\ mailbox.nextArrival \in Nat /\ mailbox.nextTicket \in Nat
      /\ mailbox.id \in Nat /\ mailbox.generation \in Nat
      /\ \A r \in reservations : r.id \in Nat /\ r.generation \in Nat /\ r.ticket \in Nat
      /\ \A s \in selections : /\ s.token.id \in Nat /\ s.token.generation \in Nat
                               /\ s.token.arrival \in Nat
  BY DEF TypeOK, MailboxType, Reservation, SelectionTaken, Selection
<1>2. ASSUME NEW i \in SlotNumber, NEW owner \in Owner, Granted(i, owner)
      PROVE  TokensPrecedeCounters'
  <2>1. /\ reservations' = reservations \cup {ReservationAt(i, owner)}
        /\ selections' = selections
    BY <1>2 DEF Granted
  <2>2. LET t == ReservationAt(i, owner) IN
        t.id = mailbox.id /\ t.generation = mailbox.generation /\ t.ticket = mailbox.nextTicket
    BY DEF ReservationAt
  <2>3. /\ mailbox'.id = mailbox.id /\ mailbox'.generation = mailbox.generation
        /\ mailbox'.nextArrival = mailbox.nextArrival
        /\ mailbox'.nextTicket = mailbox.nextTicket + 1
    BY <1>2, GrantedFields
  <2>. QED  BY <1>1, <2>1, <2>2, <2>3
<1>3. ASSUME NEW S \in SUBSET SlotNumber, Released(S)
      PROVE  TokensPrecedeCounters'
  <2>1. reservations' = reservations /\ selections' = selections
    BY <1>3 DEF Released
  <2>2. /\ mailbox'.id = mailbox.id /\ mailbox'.generation = mailbox.generation
        /\ mailbox'.nextTicket = mailbox.nextTicket
        /\ mailbox'.nextArrival = mailbox.nextArrival
    BY <1>3, ReleasedFields
  <2>. QED  BY <1>1, <2>1, <2>2
<1>4. ASSUME NEW r \in reservations, NEW m \in Message, Published(r, m)
      PROVE  TokensPrecedeCounters'
  <2>1. reservations' = reservations /\ selections' = selections
    BY <1>4 DEF Published
  <2>2. /\ mailbox'.id = mailbox.id /\ mailbox'.generation = mailbox.generation
        /\ mailbox'.nextTicket = mailbox.nextTicket
        /\ mailbox'.nextArrival = mailbox.nextArrival + 1
    BY <1>4, PublishedFields
  <2>. QED  BY <1>1, <2>1, <2>2
<1>5. ASSUME NEW i \in SlotNumber, NEW clauses \in ClauseLists, Selected(i, clauses)
      PROVE  TokensPrecedeCounters'
  <2>1. mailbox.slots[i].arrival < mailbox.nextArrival
    BY <1>5 DEF Selected, IsOldestMatching, Matching, ArrivalsOrdered
  <2>2. LET t == SelectionAt(i, clauses).token IN
        /\ t.id = mailbox.id /\ t.generation = mailbox.generation
        /\ t.arrival = mailbox.slots[i].arrival
    BY DEF SelectionAt
  <2>3. /\ selections' = selections \cup {SelectionAt(i, clauses)}
        /\ reservations' = reservations /\ mailbox' = mailbox
    BY <1>5 DEF Selected
  <2>. QED  BY <1>1, <2>1, <2>2, <2>3
<1>6. ASSUME NEW id \in Nat, NEW g \in Nat, Renewed(id, g)
      PROVE  TokensPrecedeCounters'
  <2>1. /\ mailbox'.id = id /\ mailbox'.generation = g
        /\ reservations' = reservations /\ selections' = selections
        /\ id > mailbox.id \/ (id = mailbox.id /\ g > mailbox.generation)
    BY <1>6 DEF Renewed, New
  <2>. QED  BY <1>1, <2>1
<1>7. ASSUME UNCHANGED vars
      PROVE  TokensPrecedeCounters'
  BY <1>7 DEF vars
<1>. QED  BY <1>2, <1>3, <1>4, <1>5, <1>6, <1>7 DEF Effect

\* A token that the mailbox honours after a step that kept its slot as it was.
LEMMA SameSlotSameReservation ==
  ASSUME NEW r, mailbox'.id = mailbox.id, mailbox'.generation = mailbox.generation,
         mailbox'.slots[r.slot] = mailbox.slots[r.slot]
  PROVE  LiveReservation(r)' <=> LiveReservation(r)
  BY DEF LiveReservation, TokenCheck, HoldsReservation

LEMMA SameSlotSameSelection ==
  ASSUME NEW s, mailbox'.id = mailbox.id, mailbox'.generation = mailbox.generation,
         mailbox'.slots[s.token.slot] = mailbox.slots[s.token.slot]
  PROVE  LiveSelection(s)' <=> LiveSelection(s)
  BY DEF LiveSelection, TokenCheck, HoldsSelected

LEMMA LiveTokens ==
  /\ \A r : LiveReservation(r) <=>
       r.id = mailbox.id /\ r.generation = mailbox.generation /\ HoldsReservation(mailbox, r)
  /\ \A s : LiveSelection(s) <=>
       /\ s.token.id = mailbox.id /\ s.token.generation = mailbox.generation
       /\ HoldsSelected(mailbox, s.token)
  BY DEF LiveReservation, LiveSelection, TokenCheck

\* No step revives a token that was issued before it.
LEMMA NoRevival ==
  ASSUME TypeOK, TokensPrecedeCounters, Effect
  PROVE  /\ \A r \in reservations : LiveReservation(r)' => LiveReservation(r)
         /\ \A s \in selections : LiveSelection(s)' => LiveSelection(s)
<1>. DEFINE Kept == /\ \A r \in reservations : LiveReservation(r)' => LiveReservation(r)
                    /\ \A s \in selections : LiveSelection(s)' => LiveSelection(s)
<1>1. /\ mailbox.nextTicket \in Nat /\ mailbox.nextArrival \in Nat
      /\ \A r \in reservations : r.slot \in SlotNumber /\ r.ticket \in Nat
      /\ \A s \in selections : s.token.slot \in SlotNumber /\ s.token.arrival \in Nat
  BY DEF TypeOK, MailboxType, Reservation, SelectionTaken, Selection
<1>2. ASSUME NEW i \in SlotNumber, NEW owner \in Owner, Granted(i, owner)
      PROVE  Kept
  <2>1. /\ mailbox'.id = mailbox.id /\ mailbox'.generation = mailbox.generation
        /\ mailbox'.slots[i] =
             [status |-> "reserved", owner |-> owner, ticket |-> mailbox.nextTicket]
        /\ \A j \in SlotNumber : j # i => mailbox'.slots[j] = mailbox.slots[j]
    BY <1>2, GrantedFields, Zenon
  <2>2. ASSUME NEW r \in reservations, LiveReservation(r)'
        PROVE  LiveReservation(r)
    <3>1. CASE r.slot = i
      <4>1. r.ticket = mailbox.nextTicket /\ r.id = mailbox.id /\ r.generation = mailbox.generation
        BY <2>1, <2>2, <3>1 DEF LiveReservation, TokenCheck, HoldsReservation
      <4>. QED  BY <4>1, <1>1 DEF TokensPrecedeCounters
    <3>2. CASE r.slot # i
      BY <1>1, <2>1, <2>2, <3>2, SameSlotSameReservation
    <3>. QED  BY <3>1, <3>2
  <2>3. ASSUME NEW s \in selections, LiveSelection(s)'
        PROVE  LiveSelection(s)
    <3>1. s.token.slot # i
      BY <2>1, <2>3 DEF LiveSelection, HoldsSelected
    <3>. QED  BY <1>1, <2>1, <2>3, <3>1, SameSlotSameSelection
  <2>. QED  BY <2>2, <2>3
<1>3. ASSUME NEW S \in SUBSET SlotNumber, Released(S)
      PROVE  Kept
  <2>1. /\ mailbox'.id = mailbox.id /\ mailbox'.generation = mailbox.generation
        /\ \A i \in SlotNumber :
             mailbox'.slots[i] = IF i \in S THEN FreeSlot ELSE mailbox.slots[i]
    BY <1>3, ReleasedFields
  <2>2. ASSUME NEW r \in reservations, LiveReservation(r)'
        PROVE  LiveReservation(r)
    <3>1. r.slot \notin S
      BY <1>1, <2>1, <2>2 DEF LiveReservation, HoldsReservation, FreeSlot
    <3>. QED  BY <1>1, <2>1, <2>2, <3>1, SameSlotSameReservation
  <2>3. ASSUME NEW s \in selections, LiveSelection(s)'
        PROVE  LiveSelection(s)
    <3>1. s.token.slot \notin S
      BY <1>1, <2>1, <2>3 DEF LiveSelection, HoldsSelected, FreeSlot
    <3>. QED  BY <1>1, <2>1, <2>3, <3>1, SameSlotSameSelection
  <2>. QED  BY <2>2, <2>3
<1>4. ASSUME NEW q \in reservations, NEW m \in Message, Published(q, m)
      PROVE  Kept
  <2>1. /\ mailbox'.id = mailbox.id /\ mailbox'.generation = mailbox.generation
        /\ mailbox'.slots[q.slot] =
             [status |-> "committed", owner |-> mailbox.slots[q.slot].owner,
              ticket |-> q.ticket, arrival |-> mailbox.nextArrival, message |-> m]
        /\ \A j \in SlotNumber : j # q.slot => mailbox'.slots[j] = mailbox.slots[j]
    BY <1>4, PublishedFields, Zenon
  <2>2. ASSUME NEW r \in reservations, LiveReservation(r)'
        PROVE  LiveReservation(r)
    <3>1. r.slot # q.slot
      BY <2>1, <2>2 DEF LiveReservation, HoldsReservation
    <3>. QED  BY <1>1, <2>1, <2>2, <3>1, SameSlotSameReservation
  <2>3. ASSUME NEW s \in selections, LiveSelection(s)'
        PROVE  LiveSelection(s)
    <3>1. CASE s.token.slot = q.slot
      <4>1. /\ s.token.arrival = mailbox.nextArrival /\ s.token.id = mailbox.id
            /\ s.token.generation = mailbox.generation
        BY <2>1, <2>3, <3>1 DEF LiveSelection, TokenCheck, HoldsSelected
      <4>. QED  BY <4>1, <1>1 DEF TokensPrecedeCounters
    <3>2. CASE s.token.slot # q.slot
      BY <1>1, <2>1, <2>3, <3>2, SameSlotSameSelection
    <3>. QED  BY <3>1, <3>2
  <2>. QED  BY <2>2, <2>3
<1>5. ASSUME NEW i \in SlotNumber, NEW clauses \in ClauseLists, Selected(i, clauses)
      PROVE  Kept
  <2>1. mailbox' = mailbox
    BY <1>5 DEF Selected
  <2>. QED  BY <2>1, SameSlotSameReservation, SameSlotSameSelection
<1>6. ASSUME NEW id \in Nat, NEW g \in Nat, Renewed(id, g)
      PROVE  Kept
  <2>1. \A i \in SlotNumber : mailbox'.slots[i] = FreeSlot
    BY <1>6 DEF Renewed, New
  <2>. QED  BY <1>1, <2>1 DEF LiveReservation, LiveSelection, HoldsReservation,
                             HoldsSelected, FreeSlot
<1>7. ASSUME UNCHANGED vars
      PROVE  Kept
  <2>1. mailbox' = mailbox
    BY <1>7 DEF vars
  <2>. QED  BY <2>1, SameSlotSameReservation, SameSlotSameSelection
<1>. QED  BY <1>2, <1>3, <1>4, <1>5, <1>6, <1>7 DEF Effect

-----------------------------------------------------------------------------
(* Every reserved slot has its token.                                      *)

HasToken(i) == \E r \in reservations : LiveReservation(r) /\ r.slot = i

AllHaveTokens == \A i \in SlotNumber : mailbox.slots[i].status = "reserved" => HasToken(i)

LEMMA TokenIsUnique ==
  ASSUME NEW q \in Reservation, NEW r \in Reservation, NEW mb,
         q.slot = r.slot, q.id = r.id, q.generation = r.generation,
         HoldsReservation(mb, q), HoldsReservation(mb, r)
  PROVE  q = r
  BY DEF Reservation, HoldsReservation

LEMMA OneTokenIfAny == TypeOK /\ AllHaveTokens => OneTokenPerReservedSlot
<1>. SUFFICES ASSUME TypeOK, AllHaveTokens,
                     NEW i \in SlotNumber, mailbox.slots[i].status = "reserved"
              PROVE  \E r \in reservations :
                       /\ LiveReservation(r) /\ r.slot = i
                       /\ \A q \in reservations : LiveReservation(q) /\ q.slot = i => q = r
  BY DEF OneTokenPerReservedSlot
<1>1. PICK r \in reservations : LiveReservation(r) /\ r.slot = i
  BY DEF HasToken, AllHaveTokens
<1>2. ASSUME NEW q \in reservations, LiveReservation(q), q.slot = i
      PROVE  q = r
  <2>1. q \in Reservation /\ r \in Reservation
    BY DEF TypeOK
  <2>2. /\ q.id = r.id /\ q.generation = r.generation
        /\ HoldsReservation(mailbox, q) /\ HoldsReservation(mailbox, r)
    BY <1>1, <1>2, LiveTokens
  <2>. QED  BY <1>1, <1>2, <2>1, <2>2, TokenIsUnique
<1>. QED  BY <1>1, <1>2

LEMMA TokenStep ==
  ASSUME TypeOK, OneTokenPerReservedSlot, Effect,
         NEW i \in SlotNumber, mailbox'.slots[i].status = "reserved"
  PROVE  HasToken(i)'
<1>1. ASSUME reservations \subseteq reservations',
             mailbox'.id = mailbox.id, mailbox'.generation = mailbox.generation,
             mailbox'.slots[i] = mailbox.slots[i]
      PROVE  HasToken(i)'
  <2>1. PICK r \in reservations : LiveReservation(r) /\ r.slot = i
    BY <1>1 DEF OneTokenPerReservedSlot
  <2>2. LiveReservation(r)'
    BY <1>1, <2>1, SameSlotSameReservation
  <2>. QED  BY <1>1, <2>1, <2>2 DEF HasToken
<1>2. ASSUME NEW k \in SlotNumber, NEW owner \in Owner, Granted(k, owner)
      PROVE  HasToken(i)'
  <2>1. /\ mailbox'.id = mailbox.id /\ mailbox'.generation = mailbox.generation
        /\ mailbox'.slots[k] =
             [status |-> "reserved", owner |-> owner, ticket |-> mailbox.nextTicket]
        /\ \A j \in SlotNumber : j # k => mailbox'.slots[j] = mailbox.slots[j]
    BY <1>2, GrantedFields, Zenon
  <2>2. reservations' = reservations \cup {ReservationAt(k, owner)}
    BY <1>2 DEF Granted
  <2>3. CASE i = k
    <3>1. PICK t \in reservations' : t = ReservationAt(k, owner)
      BY <2>2
    <3>2. /\ t.id = mailbox.id /\ t.generation = mailbox.generation /\ t.owner = owner
          /\ t.slot = k /\ t.ticket = mailbox.nextTicket
      BY <3>1 DEF ReservationAt
    <3>3. LiveReservation(t)'
      BY <2>1, <3>2 DEF LiveReservation, TokenCheck, HoldsReservation
    <3>. QED  BY <2>3, <3>1, <3>2, <3>3 DEF HasToken
  <2>4. CASE i # k
    BY <1>1, <2>1, <2>2, <2>4
  <2>. QED  BY <2>3, <2>4
<1>3. ASSUME NEW S \in SUBSET SlotNumber, Released(S)
      PROVE  HasToken(i)'
  <2>1. /\ mailbox'.id = mailbox.id /\ mailbox'.generation = mailbox.generation
        /\ mailbox'.slots[i] = IF i \in S THEN FreeSlot ELSE mailbox.slots[i]
    BY <1>3, ReleasedFields
  <2>2. i \notin S
    BY <2>1 DEF FreeSlot
  <2>. QED  BY <1>1, <1>3, <2>1, <2>2 DEF Released
<1>4. ASSUME NEW q \in reservations, NEW m \in Message, Published(q, m)
      PROVE  HasToken(i)'
  <2>1. /\ mailbox'.id = mailbox.id /\ mailbox'.generation = mailbox.generation
        /\ mailbox'.slots[q.slot] =
             [status |-> "committed", owner |-> mailbox.slots[q.slot].owner,
              ticket |-> q.ticket, arrival |-> mailbox.nextArrival, message |-> m]
        /\ \A j \in SlotNumber : j # q.slot => mailbox'.slots[j] = mailbox.slots[j]
    BY <1>4, PublishedFields, Zenon
  <2>2. i # q.slot
    BY <2>1
  <2>. QED  BY <1>1, <1>4, <2>1, <2>2 DEF Published
<1>5. ASSUME NEW k \in SlotNumber, NEW clauses \in ClauseLists, Selected(k, clauses)
      PROVE  HasToken(i)'
  BY <1>1, <1>5 DEF Selected
<1>6. ASSUME NEW id \in Nat, NEW g \in Nat, Renewed(id, g)
      PROVE  HasToken(i)'
  BY <1>6 DEF Renewed, New, FreeSlot
<1>7. ASSUME UNCHANGED vars
      PROVE  HasToken(i)'
  BY <1>1, <1>7 DEF vars
<1>. QED  BY <1>2, <1>3, <1>4, <1>5, <1>6, <1>7 DEF Effect

-----------------------------------------------------------------------------
(* A selection that can still be consumed is an atomic receive.            *)

LEMMA ReceiveStep ==
  ASSUME IInv, Effect
  PROVE  SelectionIsReceive'
<1>. USE DEF IInv
<1>1. /\ mailbox.nextArrival \in Nat /\ mailbox.slots \in [SlotNumber -> Slot]
      /\ \A s \in selections : s.token.slot \in SlotNumber /\ s.token.arrival \in Nat
      /\ \A j \in Committed(mailbox) :
            mailbox.slots[j].arrival \in Nat /\ mailbox.slots[j].arrival < mailbox.nextArrival
  <2>1. \A j \in Committed(mailbox) : mailbox.slots[j].arrival \in Nat
    BY SlotTypes DEF Committed, CommittedSlot
  <2>. QED  BY <2>1 DEF TypeOK, MailboxType, SelectionTaken, Selection, ArrivalsOrdered
\* It is enough to look at one selection that is live after the step and whose
\* slot the step left alone; the only resident message that may be new is as
\* young as the counter.
<1>2. ASSUME NEW s \in selections, LiveSelection(s)',
             mailbox'.slots[s.token.slot] = mailbox.slots[s.token.slot],
             \A j \in SlotNumber :
               \/ mailbox'.slots[j] = mailbox.slots[j]
               \/ mailbox'.slots[j].status # "committed"
               \/ mailbox'.slots[j].arrival = mailbox.nextArrival
      PROVE  /\ mailbox'.slots[s.token.slot].message = s.message
             /\ IsOldestMatching(s.token.slot, s.clauses, mailbox')
  <2>1. LiveSelection(s)
    BY <1>2, NoRevival
  <2>2. /\ mailbox.slots[s.token.slot].message = s.message
        /\ IsOldestMatching(s.token.slot, s.clauses, mailbox)
    BY <2>1 DEF SelectionIsReceive
  <2>3. s.token.slot \in Matching(s.clauses, mailbox')
    BY <1>2, <2>2 DEF IsOldestMatching, Matching, Committed
  <2>4. ASSUME NEW j \in Matching(s.clauses, mailbox')
        PROVE  mailbox'.slots[s.token.slot].arrival <= mailbox'.slots[j].arrival
    <3>1. s.token.slot \in Committed(mailbox) /\ j \in SlotNumber
      BY <2>2 DEF IsOldestMatching, Matching, Committed
    <3>2. CASE mailbox'.slots[j] = mailbox.slots[j]
      <4>1. j \in Matching(s.clauses, mailbox)
        BY <2>4, <3>2 DEF Matching, Committed
      <4>. QED  BY <1>2, <2>2, <3>2, <4>1 DEF IsOldestMatching
    <3>3. CASE mailbox'.slots[j].arrival = mailbox.nextArrival
      BY <1>1, <1>2, <3>1, <3>3
    <3>. QED  BY <1>2, <2>4, <3>1, <3>2, <3>3 DEF Matching, Committed
  <2>. QED  BY <1>2, <2>2, <2>3, <2>4 DEF IsOldestMatching
<1>3. ASSUME NEW i \in SlotNumber, NEW owner \in Owner, Granted(i, owner)
      PROVE  SelectionIsReceive'
  <2>1. /\ mailbox'.slots[i] =
             [status |-> "reserved", owner |-> owner, ticket |-> mailbox.nextTicket]
        /\ \A j \in SlotNumber : j # i => mailbox'.slots[j] = mailbox.slots[j]
    BY <1>3, GrantedFields, Zenon
  <2>2. \A s \in selections : LiveSelection(s)' => s.token.slot # i
    BY <2>1 DEF LiveSelection, HoldsSelected
  <2>3. selections' = selections
    BY <1>3 DEF Granted
  <2>. QED  BY <1>1, <1>2, <2>1, <2>2, <2>3 DEF SelectionIsReceive
<1>4. ASSUME NEW S \in SUBSET SlotNumber, Released(S)
      PROVE  SelectionIsReceive'
  <2>1. \A j \in SlotNumber : mailbox'.slots[j] = IF j \in S THEN FreeSlot ELSE mailbox.slots[j]
    BY <1>4, ReleasedFields
  <2>2. \A s \in selections : LiveSelection(s)' => s.token.slot \notin S
    BY <1>1, <2>1 DEF LiveSelection, HoldsSelected, FreeSlot
  <2>3. selections' = selections
    BY <1>4 DEF Released
  <2>4. \A j \in SlotNumber : \/ mailbox'.slots[j] = mailbox.slots[j]
                             \/ mailbox'.slots[j].status # "committed"
    BY <2>1 DEF FreeSlot
  <2>. QED  BY <1>1, <1>2, <2>1, <2>2, <2>3, <2>4 DEF SelectionIsReceive
<1>5. ASSUME NEW r \in reservations, NEW m \in Message, Published(r, m)
      PROVE  SelectionIsReceive'
  <2>1. /\ mailbox'.slots[r.slot] =
             [status |-> "committed", owner |-> mailbox.slots[r.slot].owner,
              ticket |-> r.ticket, arrival |-> mailbox.nextArrival, message |-> m]
        /\ \A j \in SlotNumber : j # r.slot => mailbox'.slots[j] = mailbox.slots[j]
    BY <1>5, PublishedFields, Zenon
  <2>2. ASSUME NEW s \in selections, LiveSelection(s)'
        PROVE  s.token.slot # r.slot
    <3>1. LiveSelection(s)
      BY <2>2, NoRevival
    <3>. QED  BY <1>5, <3>1 DEF LiveSelection, HoldsSelected, Published, LiveReservation,
                                HoldsReservation
  <2>3. selections' = selections
    BY <1>5 DEF Published
  <2>4. \A j \in SlotNumber : \/ mailbox'.slots[j] = mailbox.slots[j]
                             \/ mailbox'.slots[j].arrival = mailbox.nextArrival
    BY <2>1
  <2>. QED  BY <1>1, <1>2, <2>1, <2>2, <2>3, <2>4 DEF SelectionIsReceive
<1>6. ASSUME NEW i \in SlotNumber, NEW clauses \in ClauseLists, Selected(i, clauses)
      PROVE  SelectionIsReceive'
  <2>1. /\ selections' = selections \cup {SelectionAt(i, clauses)} /\ mailbox' = mailbox
        /\ IsOldestMatching(i, clauses, mailbox)
    BY <1>6 DEF Selected
  <2>2. LET s == SelectionAt(i, clauses) IN
        s.token.slot = i /\ s.clauses = clauses /\ s.message = mailbox.slots[i].message
    BY DEF SelectionAt
  <2>3. \A s : LiveSelection(s)' <=> LiveSelection(s)
    BY <2>1, SameSlotSameSelection
  <2>. QED  BY <2>1, <2>2, <2>3 DEF SelectionIsReceive
<1>7. ASSUME NEW id \in Nat, NEW g \in Nat, Renewed(id, g)
      PROVE  SelectionIsReceive'
  <2>1. \A i \in SlotNumber : mailbox'.slots[i] = FreeSlot
    BY <1>7 DEF Renewed, New
  <2>2. selections' = selections
    BY <1>7 DEF Renewed
  <2>. QED  BY <1>1, <2>1, <2>2 DEF SelectionIsReceive, LiveSelection, HoldsSelected, FreeSlot
<1>8. ASSUME UNCHANGED vars
      PROVE  SelectionIsReceive'
  <2>1. mailbox' = mailbox /\ selections' = selections
    BY <1>8 DEF vars
  <2>2. \A s : LiveSelection(s)' <=> LiveSelection(s)
    BY <2>1, SameSlotSameSelection
  <2>. QED  BY <2>1, <2>2 DEF SelectionIsReceive
<1>. QED  BY <1>3, <1>4, <1>5, <1>6, <1>7, <1>8 DEF Effect

-----------------------------------------------------------------------------
(* The theorems.                                                           *)

LEMMA InvariantHolds == Spec => []IInv
<1>1. Init => IInv
  <2>1. ASSUME Init  PROVE IInv
    <3>1. TypeOK
      BY <2>1 DEF Init, TypeOK, New, MailboxType, Slot
    <3>2. \A i \in SlotNumber : mailbox.slots[i] = FreeSlot
      BY <2>1 DEF Init, New
    <3>. QED  BY <2>1, <3>1, <3>2 DEF Init, IInv, ArrivalsOrdered, Committed, FreeSlot,
           TokensPrecedeCounters, OneTokenPerReservedSlot, SelectionIsReceive
  <2>. QED  BY <2>1
<1>2. IInv /\ [Next]_vars => IInv'
  <2>1. ASSUME IInv, [Next]_vars  PROVE IInv'
    <3>. USE DEF IInv
    <3>1. Effect
      BY <2>1, StepEffect
    <3>2. TypeOK'
      BY <2>1, <3>1, TypeStep
    <3>3. ArrivalsOrdered'
      BY <2>1, <3>1, ArrivalsStep
    <3>4. TokensPrecedeCounters'
      BY <2>1, <3>1, TokensStep
    <3>5. AllHaveTokens'
      BY <2>1, <3>1, TokenStep DEF AllHaveTokens
    <3>6. OneTokenPerReservedSlot'
      BY <3>2, <3>5, OneTokenIfAny, PTL
    <3>7. SelectionIsReceive'
      BY <2>1, <3>1, ReceiveStep
    <3>. QED  BY <3>2, <3>3, <3>4, <3>6, <3>7
  <2>. QED  BY <2>1
<1>. QED  BY <1>1, <1>2, PTL DEF Spec

\* Arrival ages of resident messages are distinct and below the counter, so
\* the oldest matching message is always well defined.
THEOREM ArrivalsAreOrdered == Spec => []ArrivalsOrdered
<1>1. IInv => ArrivalsOrdered
  BY DEF IInv
<1>. QED  BY <1>1, InvariantHolds, PTL

\* Whoever was granted a slot can publish into it, and nobody else can.
THEOREM GrantedSlotsAreExclusive == Spec => []OneTokenPerReservedSlot
<1>1. IInv => OneTokenPerReservedSlot
  BY DEF IInv
<1>. QED  BY <1>1, InvariantHolds, PTL

\* select/2 followed by a successful consume/2 is one atomic selective receive.
THEOREM SelectThenConsumeIsReceive == Spec => []SelectionIsReceive
<1>1. IInv => SelectionIsReceive
  BY DEF IInv
<1>. QED  BY <1>1, InvariantHolds, PTL

\* No reuse of a slot, reset or respawn makes a dead token valid again.
THEOREM TokensNeverRevive == Spec => DeadTokensStayDead
<1>1. IInv /\ [Next]_vars =>
        [/\ \A r \in reservations : LiveReservation(r)' => LiveReservation(r)
         /\ \A s \in selections : LiveSelection(s)' => LiveSelection(s)]_vars
  BY StepEffect, NoRevival DEF IInv
<1>. QED  BY <1>1, InvariantHolds, PTL DEF Spec, DeadTokensStayDead
=============================================================================
