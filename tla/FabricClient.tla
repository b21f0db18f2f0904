---------------------------- MODULE FabricClient ----------------------------
(***************************************************************************)
(* The transactions of one hardware proxy                                  *)
(* (apps/hls_runtime/src/runtime/hls_fabric_client.erl), between its       *)
(* callers, the broker and a device that answers every request it was sent *)
(* once, in any order.                                                     *)
(*                                                                         *)
(* The proxy's #client{} is the record `client'; what it tells callers is  *)
(* kept there too, by submission.  Submissions are numbered in order; the  *)
(* number plays the part of make_ref/0 and of the OTP request identifier.  *)
(* A frame carries, besides its transaction ID, the submission that the    *)
(* device answers: that is for the properties, the client never reads it.  *)
(*                                                                         *)
(* The broker is reduced to what module Fabric shows of it: it transmits   *)
(* in order, answers not_sent only for what it did not transmit, and its   *)
(* messages reach the client in order, except for the news of its death.   *)
(***************************************************************************)
EXTENDS Integers, Sequences, FiniteSets

CONSTANTS Caller,    \* processes that call through the proxy
          None,
          Capacity,  \* transaction slots: 255 for hls_gs, 256 for hls_debug
          CastId,    \* the transaction ID of casts
          SendLimit, \* TX_LIMIT, outstanding send completions: 1024
          MaxSubmissions, \* bound: submissions to the broker
          MaxStray        \* bound: frames the decoder refuses

TxId == 0 .. Capacity - 1

\* hls_gs never lends the transaction ID of its casts to a call.
ASSUME ClientAssumption ==
  /\ {Capacity, SendLimit} \subseteq Nat \ {0} /\ MaxSubmissions \in Nat
  /\ CastId \notin TxId

\* A pending entry holds a submission and, until its caller dies, a caller.
ASSUME NoneAssumption ==
  /\ None \notin Caller \cup Nat
  /\ \A id \in 1 .. MaxSubmissions, from \in Caller \cup {None} : None # [id |-> id, from |-> from]

VARIABLES client,    \* #client{}, and the answers it gave
          submitted, \* history: the submissions, in order
          broker,    \* submissions waiting, and the one being written
          rejected,  \* history: the submissions the broker did not send
          owed,      \* requests the device has and did not answer yet
          inbox,     \* the broker's messages to the client
          alive, stray
vars == <<client, submitted, broker, rejected, owed, inbox, alive, stray>>

Ids == 1 .. MaxSubmissions
\* A pending entry is [id, from]; a submission [kind, txid, from].

Message(kind, id, txid, result) ==
  [kind |-> kind, id |-> id, txid |-> txid, result |-> result]

Send(messages) == inbox' = inbox \o messages
-----------------------------------------------------------------------------
(* The client's functions, from client to client.                          *)

Occupied(c) == {t \in TxId : c.pending[t] # None}

FreeSlot(c) ==
  LET steps == CHOOSE k \in TxId :
                 /\ (c.next + k) % Capacity \notin Occupied(c)
                 /\ \A j \in 0 .. k - 1 : (c.next + j) % Capacity \in Occupied(c)
  IN (c.next + steps) % Capacity

\* Mutant: the caller hears, but the slot stays pending.
FinishKeepingSlot(c, txid, answer) ==
  LET entry == c.pending[txid] IN
  IF entry.from = None THEN [c EXCEPT !.pending[txid] = None]
  ELSE [c EXCEPT !.answers[entry.id] = Append(@, answer)]

\* Mutant: nobody waits for the answer, so it is dropped with its slot taken.
FinishIgnoringAbandoned(c, txid, answer) ==
  LET entry == c.pending[txid] IN
  IF entry.from = None THEN c
  ELSE [c EXCEPT !.pending[txid] = None, !.answers[entry.id] = Append(@, answer)]

\* finish/2, and the slot is free.
Finish(c, txid, answer) ==
  LET entry == c.pending[txid]
      free == [c EXCEPT !.pending[txid] = None]
  IN IF entry.from = None THEN free
     ELSE [free EXCEPT !.answers[entry.id] = Append(@, answer)]

Down == [kind |-> "transport_down", of |-> None]
NotSent == [kind |-> "not_sent", of |-> None]
Reply(id) == [kind |-> "reply", of |-> id]

\* Mutant: waiting callers are forgotten.
FailQuietly(c) ==
  [c EXCEPT !.status = "down", !.sends = {}, !.pending = [t \in TxId |-> None]]

\* fail/2: every waiting caller hears of it, and the proxy stays closed.
Waiting(c) == {c.pending[t].id : t \in {u \in Occupied(c) : c.pending[u].from # None}}

Fail(c) ==
  IF c.status = "down" THEN c
  ELSE [c EXCEPT !.status = "down", !.sends = {}, !.pending = [t \in TxId |-> None],
                 !.answers = [id \in Ids |-> IF id \in Waiting(c) THEN Append(@[id], Down) ELSE @[id]]]

\* Mutant: a request that was not sent keeps its slot.
SentKeepsSlot(c, id, result) ==
  LET rest == [c EXCEPT !.sends = @ \ {id}] IN
  IF result = "failed" \/ (result = "not_sent" /\ submitted[id].kind = "cast")
  THEN Fail(rest) ELSE rest

\* sent/3: the submission is compared, the wire ID may belong to another one.
Sent(c, id, result) ==
  LET s == submitted[id]
      rest == [c EXCEPT !.sends = @ \ {id}]
  IN CASE result = "ok" -> rest
       [] result = "not_sent" /\ s.kind = "request" ->
            IF c.pending[s.txid] # None /\ c.pending[s.txid].id = id
            THEN Finish(rest, s.txid, NotSent) ELSE rest
       [] OTHER -> Fail(rest)

\* receive_reply/5.
ReceiveReply(c, txid, decoded, id) ==
  IF decoded /\ txid \in Occupied(c) THEN Finish(c, txid, Reply(id)) ELSE c

\* Mutant: the slots of a dead caller are free.
AbandonReleasing(c, caller) ==
  [c EXCEPT !.pending = [t \in TxId |->
     IF @[t] # None /\ @[t].from = caller THEN None ELSE @[t]]]

\* caller_info/2: the reply handle goes, the slot stays.
Abandon(c, caller) ==
  [c EXCEPT !.pending = [t \in TxId |->
     IF @[t] # None /\ @[t].from = caller THEN [@[t] EXCEPT !.from = None] ELSE @[t]]]
-----------------------------------------------------------------------------
Init ==
  /\ client = [status |-> "up", next |-> 0, pending |-> [t \in TxId |-> None],
               sends |-> {}, answers |-> [id \in Ids |-> <<>>]]
  /\ submitted = <<>>
  /\ broker = [up |-> TRUE, queue |-> <<>>, active |-> None]
  /\ rejected = {} /\ owed = {} /\ inbox = <<>>
  /\ alive = [caller \in Caller |-> TRUE]
  /\ stray = 0

\* transmit/5.  A broker that is gone takes nothing.
Transmit(c, submission) ==
  LET id == Len(submitted) + 1 IN
  /\ Len(submitted) < MaxSubmissions
  /\ submitted' = Append(submitted, submission)
  /\ client' = [c EXCEPT !.sends = @ \cup {id}]
  /\ broker' = IF broker.up THEN [broker EXCEPT !.queue = Append(@, id)] ELSE broker
  /\ IF broker.up THEN UNCHANGED inbox
     ELSE Send(<<Message("down", None, None, None)>>)

\* request/5.  A closed client, a full one and one with too many sends answer
\* at once and change nothing.
Request(caller) ==
  LET txid == FreeSlot(client) IN
  /\ alive[caller] /\ client.status = "up" /\ Occupied(client) # TxId
  /\ Cardinality(client.sends) < SendLimit
  /\ Transmit([client EXCEPT
                 !.next = (txid + 1) % Capacity,
                 !.pending[txid] = [id |-> Len(submitted) + 1, from |-> caller]],
              [kind |-> "request", txid |-> txid, from |-> caller])
  /\ UNCHANGED <<rejected, owed, alive, stray>>

\* Mutant: casts are not counted against the limit.
CastUnlimited ==
  /\ client.status = "up"
  /\ Transmit(client, [kind |-> "cast", txid |-> CastId, from |-> None])
  /\ UNCHANGED <<rejected, owed, alive, stray>>

\* cast/4.  Nobody would hear of a refusal, so it closes the client.
Cast ==
  /\ client.status = "up"
  /\ \/ /\ Cardinality(client.sends) < SendLimit
        /\ Transmit(client, [kind |-> "cast", txid |-> CastId, from |-> None])
     \/ /\ Cardinality(client.sends) >= SendLimit
        /\ client' = Fail(client)
        /\ UNCHANGED <<submitted, broker, inbox>>
  /\ UNCHANGED <<rejected, owed, alive, stray>>

\* handle_info/2 and receive_frame/6, on the next message of the broker.
\* A result the client no longer waits for is not one of its messages.
Handle ==
  LET m == Head(inbox) IN
  /\ inbox # <<>>
  /\ inbox' = Tail(inbox)
  /\ client' = CASE m.kind = "frame" -> ReceiveReply(client, m.txid, m.result = "decoded", m.id)
                 [] m.kind = "down" -> Fail(client)
                 [] m.kind = "result" /\ m.id \in client.sends -> Sent(client, m.id, m.result)
                 [] OTHER -> client
  /\ UNCHANGED <<submitted, broker, rejected, owed, alive, stray>>

\* The DOWN message of the broker, or of the session in front of it, which
\* may overtake what the broker sent.
BrokerDown ==
  /\ ~broker.up /\ client.status = "up"
  /\ client' = Fail(client)
  /\ UNCHANGED <<submitted, broker, rejected, owed, inbox, alive, stray>>

CallerDown(caller) ==
  /\ ~alive[caller] /\ \E t \in Occupied(client) : client.pending[t].from = caller
  /\ client' = Abandon(client, caller)
  /\ UNCHANGED <<submitted, broker, rejected, owed, inbox, alive, stray>>
-----------------------------------------------------------------------------
(* The broker.                                                             *)

BrokerTransmits ==
  /\ broker.up /\ broker.active = None /\ broker.queue # <<>>
  /\ broker' = [broker EXCEPT !.active = Head(broker.queue), !.queue = Tail(@)]
  /\ owed' = owed \cup {id \in {Head(broker.queue)} : submitted[id].kind = "request"}
  /\ UNCHANGED <<client, submitted, rejected, inbox, alive, stray>>

BrokerCompletes ==
  /\ broker.up /\ broker.active # None
  /\ broker' = [broker EXCEPT !.active = None]
  /\ Send(<<Message("result", broker.active, None, "ok")>>)
  /\ UNCHANGED <<client, submitted, rejected, owed, alive, stray>>

\* Refused at admission, expired in the queue, or its session closed.
BrokerRejects(n) ==
  /\ broker.up /\ n \in 1 .. Len(broker.queue)
  /\ broker' = [broker EXCEPT !.queue = SubSeq(@, 1, n - 1) \o SubSeq(@, n + 1, Len(@))]
  /\ rejected' = rejected \cup {broker.queue[n]}
  /\ Send(<<Message("result", broker.queue[n], None, "not_sent")>>)
  /\ UNCHANGED <<client, submitted, owed, alive, stray>>

\* terminate/2 of the broker: queued submissions were not sent, the active
\* one may have been.
BrokerStops ==
  LET n == Len(broker.queue)
      results == [k \in 1 .. n |-> Message("result", broker.queue[k], None, "not_sent")]
  IN /\ broker.up
     /\ broker' = [up |-> FALSE, queue |-> <<>>, active |-> None]
     /\ rejected' = rejected \cup {broker.queue[k] : k \in 1 .. n}
     /\ Send(IF broker.active = None THEN results
             ELSE Append(results, Message("result", broker.active, None, "failed")))
     /\ UNCHANGED <<client, submitted, owed, alive, stray>>

\* A broker that is killed says nothing.
BrokerKilled ==
  /\ broker.up
  /\ broker' = [up |-> FALSE, queue |-> <<>>, active |-> None]
  /\ UNCHANGED <<client, submitted, rejected, owed, inbox, alive, stray>>

DeviceReplies(id) ==
  /\ broker.up /\ id \in owed
  /\ owed' = owed \ {id}
  /\ Send(<<Message("frame", id, submitted[id].txid, "decoded")>>)
  /\ UNCHANGED <<client, submitted, broker, rejected, alive, stray>>

\* The error of a failed cast, which decodes, or a frame that does not.
StrayFrame ==
  /\ broker.up /\ stray < MaxStray
  /\ stray' = stray + 1
  /\ \E txid \in TxId \cup {CastId} :
       Send(<<Message("frame", None, txid, IF txid = CastId THEN "decoded" ELSE "refused")>>)
  /\ UNCHANGED <<client, submitted, broker, rejected, owed, alive>>

CallerDies(caller) ==
  /\ alive[caller]
  /\ alive' = [alive EXCEPT ![caller] = FALSE]
  /\ UNCHANGED <<client, submitted, broker, rejected, owed, inbox, stray>>

Next ==
  \/ \E caller \in Caller : Request(caller) \/ CallerDown(caller) \/ CallerDies(caller)
  \/ Cast \/ Handle \/ BrokerDown
  \/ BrokerTransmits \/ BrokerCompletes \/ BrokerStops \/ BrokerKilled
  \/ \E n \in Ids : BrokerRejects(n)
  \/ \E id \in Ids : DeviceReplies(id)
  \/ StrayFrame

Spec == Init /\ [][Next]_vars

\* The processes run, and the device answers.
Fairness ==
  /\ WF_vars(Handle) /\ WF_vars(BrokerDown)
  /\ WF_vars(BrokerTransmits) /\ WF_vars(BrokerCompletes)
  /\ \A id \in Ids : WF_vars(DeviceReplies(id))

FairSpec == Spec /\ Fairness
-----------------------------------------------------------------------------
(* Properties.                                                             *)

Requests == {id \in 1 .. Len(submitted) : submitted[id].kind = "request"}
InInbox(kind, id) == \E n \in 1 .. Len(inbox) : inbox[n].kind = kind /\ inbox[n].id = id

\* docs/host-transactions.md: a late reply never satisfies a newer caller.
\* Whatever a caller hears as its reply is the device's reply to its request,
\* and each request is answered at most once, through whatever races of reply,
\* rejection, transport failure and caller death.
RepliesMatch ==
  /\ \A id \in Ids : Len(client.answers[id]) <= 1
  /\ \A id \in Ids, n \in 1 .. MaxSubmissions :
    n <= Len(client.answers[id]) /\ client.answers[id][n].kind = "reply" =>
      client.answers[id][n].of = id

\* hls_fabric_client.erl:6: a slot belongs to a submitted request until its
\* reply arrives or the broker proves that it was not sent; and only until
\* then, so the slots do not leak.  And no more sends are outstanding than
\* SendLimit, casts included.
SlotHeldWhileOpen ==
  /\ Cardinality(client.sends) <= SendLimit
  /\ client.status = "up" /\ broker.up =>
    \A id \in Requests :
      (client.pending[submitted[id].txid] # None /\ client.pending[submitted[id].txid].id = id)
        <=> \/ \E n \in 1 .. Len(broker.queue) : broker.queue[n] = id
            \/ id \in rejected /\ InInbox("result", id)
            \/ id \in owed \/ InInbox("frame", id)

\* Every submitted call is answered, with the device's reply or an error.  What
\* is submitted or answered stays so: this is `submitted leads to answered'.
EveryCallAnswered ==
  \A id \in Ids :
    []<>(id \in Requests => client.answers[id] # <<>> \/ ~alive[submitted[id].from])

\* A slot whose caller died becomes free again, if the device answers.
AbandonedSlotsReturn ==
  \A t \in TxId : []<>(t \in Occupied(client) => client.pending[t].from # None)
=============================================================================
