---------------------------- MODULE MailboxQueue ----------------------------
(***************************************************************************)
(* What the bounded mailbox promises: credits that ingresses hold, a queue *)
(* in publication order, and an atomic selective receive.  Slots, tickets, *)
(* arrival counters, generations and stale tokens do not occur here.       *)
(*                                                                         *)
(* docs/formal-contracts.md states the same abstraction: an ordered list   *)
(* of live messages with free + queued + reserved = capacity.              *)
(***************************************************************************)
EXTENDS Integers, Sequences, FiniteSetsExt

CONSTANTS Owner, Message, Capacity, ClauseLists

VARIABLES credits,  \* how many incomplete reservations each owner holds
          queue     \* the published messages, oldest first
vars == <<credits, queue>>

NoCredits == [owner \in Owner |-> 0]

Free == Capacity - Len(queue) - MapThenSumSet(LAMBDA o : credits[o], Owner)

Init == credits = NoCredits /\ queue = <<>>

Grant(owner) ==
  /\ Free > 0
  /\ credits' = [credits EXCEPT ![owner] = @ + 1]
  /\ UNCHANGED queue

Withdraw(owner) ==
  /\ credits[owner] > 0
  /\ credits' = [credits EXCEPT ![owner] = @ - 1]
  /\ UNCHANGED queue

WithdrawAll(owner) ==
  /\ credits' = [credits EXCEPT ![owner] = 0]
  /\ UNCHANGED queue

Publish(owner, message) ==
  /\ credits[owner] > 0
  /\ credits' = [credits EXCEPT ![owner] = @ - 1]
  /\ queue' = Append(queue, message)

\* Messages are scanned oldest first; the first that some clause accepts is
\* removed and the others keep their order.
Receive(clauses) ==
  LET Accepted(n) == \E k \in 1 .. Len(clauses) : queue[n] \in clauses[k] IN
  \E n \in 1 .. Len(queue) :
    /\ Accepted(n)
    /\ \A m \in 1 .. n - 1 : ~Accepted(m)
    /\ queue' = SubSeq(queue, 1, n - 1) \o SubSeq(queue, n + 1, Len(queue))
    /\ UNCHANGED credits

Restart == credits' = NoCredits /\ queue' = <<>>

Next ==
  \/ \E owner \in Owner :
       Grant(owner) \/ Withdraw(owner) \/ WithdrawAll(owner)
         \/ \E m \in Message : Publish(owner, m)
  \/ \E clauses \in ClauseLists : Receive(clauses)
  \/ Restart

Spec == Init /\ [][Next]_vars
=============================================================================
