------------------------- MODULE MailboxRefinement -------------------------
(***************************************************************************)
(* The mailbox with all its tokens implements the credit queue: an owner's *)
(* credits are its reserved slots, the queue is the committed slots in the *)
(* order of their arrival counters.                                        *)
(***************************************************************************)
EXTENDS MailboxClients, SequencesExt

ArrivalOrder ==
  SetToSortSeq(Committed(mailbox),
    LAMBDA i, j : mailbox.slots[i].arrival < mailbox.slots[j].arrival)

Abstract == INSTANCE MailboxQueue WITH
  credits <- [owner \in Owner |-> Cardinality(IncompleteOf(owner, mailbox))],
  queue <- [n \in 1 .. Len(ArrivalOrder) |-> mailbox.slots[ArrivalOrder[n]].message]

\* Every call, with any token, is one step of the credit queue or a stutter:
\* capacity is conserved, publication order is kept, and a receive built from
\* separate select/2 and consume/2 calls is atomic.
ImplementsQueue == Abstract!Spec
=============================================================================
