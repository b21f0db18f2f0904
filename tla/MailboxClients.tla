--------------------------- MODULE MailboxClients ---------------------------
(***************************************************************************)
(* The mailbox under the clients that hls_mailbox.erl is written for: any  *)
(* number of ingresses that reserve, cancel and commit, and receivers that *)
(* select and later consume.  A client keeps every token it was ever given *)
(* and may present it at any later time, after the slot was reused, after  *)
(* a reset, or to the mailbox that replaced the one that issued it.        *)
(***************************************************************************)
EXTENDS Mailbox

CONSTANTS ClauseLists,    \* the clause lists that receivers select with
          MaxReservations, \* bound: reservation tokens ever issued
          MaxGeneration,  \* bound: the last generation
          MaxId,          \* bound: mailboxes ever created, less one
          MaxSelections   \* bound: selections that clients hold

ASSUME ClauseAssumption == ClauseLists \subseteq Seq(SUBSET Message)
ASSUME BoundAssumption == MaxGeneration \in Nat

VARIABLES mailbox,       \* the live mailbox
          reservations,  \* every reservation token ever issued
          selections     \* every selection token ever issued, with the clauses
                         \* it was made for and the message select/2 showed
vars == <<mailbox, reservations, selections>>

SelectionTaken == [token : Selection, clauses : ClauseLists, message : Message]

-----------------------------------------------------------------------------

Init ==
  /\ mailbox = New(0, 0)
  /\ reservations = {}
  /\ selections = {}

ReserveSlot(generation, owner) ==
  LET call == Reserve(generation, owner, mailbox) IN
  /\ Cardinality(reservations) < MaxReservations
  /\ mailbox' = call.mailbox
  /\ reservations' = IF call.reply = "ok" THEN reservations \cup {call.token}
                     ELSE reservations
  /\ UNCHANGED selections

CancelReservation(r) ==
  /\ mailbox' = Cancel(r, mailbox).mailbox
  /\ UNCHANGED <<reservations, selections>>

CancelOwnerReservations(owner) ==
  /\ mailbox' = CancelOwner(owner, mailbox).mailbox
  /\ UNCHANGED <<reservations, selections>>

CommitMessage(r, message) ==
  /\ mailbox' = Commit(r, message, mailbox).mailbox
  /\ UNCHANGED <<reservations, selections>>

SelectMessage(clauses) ==
  LET call == Select(clauses, mailbox) IN
  /\ call.reply = "ok"
  /\ Cardinality(selections) < MaxSelections
  /\ selections' = selections \cup {[token |-> call.token, clauses |-> clauses,
                                     message |-> call.message]}
  /\ UNCHANGED <<mailbox, reservations>>

ConsumeMessage(s) ==
  /\ mailbox' = Consume(s.token, mailbox).mailbox
  /\ UNCHANGED <<reservations, selections>>

ResetMailbox ==
  /\ mailbox.generation < MaxGeneration
  /\ mailbox' = Reset(mailbox)
  /\ UNCHANGED <<reservations, selections>>

\* A supervisor rebuilds the actor at the same address: new/2 with whatever
\* generation it knows, and a reference that no earlier mailbox had.
Respawn(generation) ==
  /\ mailbox.id < MaxId
  /\ mailbox' = New(mailbox.id + 1, generation)
  /\ UNCHANGED <<reservations, selections>>

Next ==
  \/ \E owner \in Owner, g \in 0 .. MaxGeneration : ReserveSlot(g, owner)
  \/ \E r \in reservations : CancelReservation(r)
  \/ \E owner \in Owner : CancelOwnerReservations(owner)
  \/ \E r \in reservations, m \in Message : CommitMessage(r, m)
  \/ \E c \in ClauseLists : SelectMessage(c)
  \/ \E s \in selections : ConsumeMessage(s)
  \/ ResetMailbox
  \/ \E g \in 0 .. MaxGeneration : Respawn(g)

Spec == Init /\ [][Next]_vars

-----------------------------------------------------------------------------
(* Properties.                                                             *)

\* Every record, token and counter stays in its type.
TypeOK ==
  /\ mailbox \in MailboxType
  /\ reservations \subseteq Reservation
  /\ selections \subseteq SelectionTaken

\* The tokens that the mailbox would honour now.
LiveReservation(r) ==
  TokenCheck(r, mailbox, "invalid_reservation") = "ok" /\ HoldsReservation(mailbox, r)

LiveSelection(s) ==
  TokenCheck(s.token, mailbox, "stale_selection") = "ok" /\ HoldsSelected(mailbox, s.token)

\* A committed message keeps the place it was published in: of two resident
\* messages one is older, and no resident message is as young as the next.
ArrivalsOrdered ==
  \A i \in Committed(mailbox) :
    /\ mailbox.slots[i].arrival < mailbox.nextArrival
    /\ \A j \in Committed(mailbox) :
         mailbox.slots[i].arrival = mailbox.slots[j].arrival => i = j

\* The code's comment at hls_mailbox.erl:455: a reused slot is protected from
\* an old token.  A token that died (cancelled, committed, consumed, reset or
\* respawned away) never becomes valid again, whatever reuses its slot.
DeadTokensStayDead ==
  [][/\ \A r \in reservations : LiveReservation(r)' => LiveReservation(r)
     /\ \A s \in selections : LiveSelection(s)' => LiveSelection(s)]_vars

\* Capacity is a promise: every incomplete reservation is held by exactly one
\* token, so an ingress that was granted a slot can always commit into it, and
\* no two ingresses assemble a message into the same slot.
OneTokenPerReservedSlot ==
  \A i \in SlotNumber :
    mailbox.slots[i].status = "reserved" =>
      \E r \in reservations :
        /\ LiveReservation(r) /\ r.slot = i
        /\ \A q \in reservations : LiveReservation(q) /\ q.slot = i => q = r

\* Select and consume are two calls, yet together they are an atomic selective
\* receive: while a selection can still be consumed, the message it names is
\* the one that was shown, and no older resident message matches its clauses.
SelectionIsReceive ==
  \A s \in selections :
    LiveSelection(s) =>
      /\ mailbox.slots[s.token.slot].message = s.message
      /\ IsOldestMatching(s.token.slot, s.clauses, mailbox)

\* Strengthening for the proofs: the counters of the live generation are ahead
\* of every token that this mailbox could still honour.
TokensPrecedeCounters ==
  LET Past(t) ==
        /\ t.id <= mailbox.id
        /\ t.id = mailbox.id => t.generation <= mailbox.generation
      Current(t) == t.id = mailbox.id /\ t.generation = mailbox.generation
  IN  /\ \A r \in reservations :
           Past(r) /\ (Current(r) => r.ticket < mailbox.nextTicket)
      /\ \A s \in selections :
           Past(s.token) /\ (Current(s.token) => s.token.arrival < mailbox.nextArrival)

IInv ==
  /\ TypeOK
  /\ ArrivalsOrdered
  /\ TokensPrecedeCounters
  /\ OneTokenPerReservedSlot
  /\ SelectionIsReceive
=============================================================================
