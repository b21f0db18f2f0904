------------------------- MODULE FabricClientProofs -------------------------
(***************************************************************************)
(* Proofs about FabricClient: for any number of callers, slots and         *)
(* submissions, a caller's reply is the device's reply to its request, and *)
(* no request is answered twice.                                           *)
(*                                                                         *)
(* The wire carries the transaction ID only.  That it names the right      *)
(* request rests on what the client holds: while a request is under way,   *)
(* in the broker, at the device or as a message that settles it, its slot  *)
(* is its own.                                                             *)
(***************************************************************************)
EXTENDS FabricClient, OrderLemmas, FiniteSetTheorems, TLAPS

Entry == [id : Ids, from : Caller \cup {None}]
Answer == [kind : {"reply", "not_sent", "transport_down"}, of : Ids \cup {None}]
Client == [status : {"up", "down"}, next : TxId, pending : [TxId -> Entry \cup {None}],
           sends : SUBSET Ids, answers : [Ids -> Seq(Answer)]]
Submission == [kind : {"request", "cast"}, txid : TxId \cup {CastId}, from : Caller \cup {None}]
Mail == [kind : {"frame", "result", "down"}, id : Ids \cup {None}, txid : TxId \cup {CastId, None},
         result : {"ok", "not_sent", "failed", "decoded", "refused", None}]

Known == 1 .. Len(submitted)

\* The messages that end the use of a transaction ID.
Settles(m) ==
  \/ m.kind = "frame" /\ m.result = "decoded" /\ m.txid \in TxId
  \/ m.kind = "result" /\ m.result = "not_sent"

Proper(m) ==
  /\ m.kind = "result" => m.id \in Known
  /\ m.kind = "frame" /\ m.result = "decoded" /\ m.txid \in TxId =>
       m.id \in Requests /\ submitted[m.id].txid = m.txid

Types ==
  /\ submitted \in Seq(Submission) /\ Len(submitted) <= MaxSubmissions
  /\ \A id \in Requests : submitted[id].txid \in TxId
  /\ broker \in [up : BOOLEAN, queue : Seq(Ids), active : Ids \cup {None}]
  /\ \A n \in 1 .. Len(broker.queue) : broker.queue[n] \in Known
  /\ broker.active # None => broker.active \in Known
  /\ owed \subseteq Requests
  /\ inbox \in Seq(Mail) /\ \A n \in 1 .. Len(inbox) : Proper(inbox[n])

\* Where a submission can be on its way: in the queue, at the device, or in
\* a message that settles it.
Queued == {broker.queue[n] : n \in 1 .. Len(broker.queue)}
Settled(mail) == {mail[n].id : n \in {k \in 1 .. Len(mail) : Settles(mail[k])}}
UnderWay == Queued \cup owed \cup Settled(inbox)

\* It is in one place only.
OnePlace(mail) ==
  \A i, j \in 1 .. Len(mail) :
    Settles(mail[i]) /\ Settles(mail[j]) /\ mail[i].id = mail[j].id => i = j

Unique ==
  /\ \A i, j \in 1 .. Len(broker.queue) : broker.queue[i] = broker.queue[j] => i = j
  /\ OnePlace(inbox)
  /\ Queued \cap owed = {} /\ Settled(inbox) \cap (Queued \cup owed) = {}

\* A slot in use belongs to a request that has not been answered.
Slots(c) ==
  \A t \in TxId : c.pending[t] # None =>
    /\ c.pending[t].id \in Requests /\ submitted[c.pending[t].id].txid = t
    /\ c.answers[c.pending[t].id] = << >>
    /\ c.status = "up"

Answers(c) ==
  \A id \in Ids :
    /\ id \notin Known => c.answers[id] = << >>
    /\ Len(c.answers[id]) <= 1
    /\ \A n \in 1 .. Len(c.answers[id]) : c.answers[id][n].kind = "reply" => c.answers[id][n].of = id

Good(c) == c \in Client /\ Slots(c) /\ Answers(c)

\* While the client is up, it holds the slot of every request under way.
Holds(c, ids) ==
  c.status = "up" => \A id \in ids \cap Requests :
    c.pending[submitted[id].txid] # None /\ c.pending[submitted[id].txid].id = id

IInv == Types /\ Unique /\ Good(client) /\ Holds(client, UnderWay)

-----------------------------------------------------------------------------
(* The client's functions.                                                 *)

\* The search of free_slot/3 ends at a free slot.
LEMMA FreeSlotIsFree ==
  ASSUME NEW c \in Client, Occupied(c) # TxId
  PROVE  FreeSlot(c) \in TxId \ Occupied(c)
<1> DEFINE Ends == {k \in TxId : (c.next + k) % Capacity \notin Occupied(c)}
           From(t) == IF t >= c.next THEN t - c.next ELSE t + Capacity - c.next
<1>1. Capacity \in Nat \ {0} /\ c.next \in TxId
  BY ClientAssumption DEF Client
<1>2. PICK t \in TxId : t \notin Occupied(c)
  BY DEF Occupied
<1>3. From(t) \in TxId /\ (c.next + From(t) = t \/ c.next + From(t) = t + Capacity)
  BY <1>1 DEF TxId
<1>4. t % Capacity = t /\ (t + Capacity) % Capacity = t
  BY <1>1 DEF TxId
<1>5. (c.next + From(t)) % Capacity = t
  BY <1>3, <1>4
<1>6. From(t) \in Ends
  BY <1>2, <1>3, <1>5
<1>7. Ends \subseteq Nat
  BY DEF TxId
<1> HIDE DEF Ends
<1>8. PICK least \in Ends : \A k \in Ends : least <= k
  BY <1>6, <1>7, MinimumExists
<1>9. \A j \in 0 .. least - 1 : (c.next + j) % Capacity \in Occupied(c)
  <2>1. ASSUME NEW j \in 0 .. least - 1
        PROVE  j \in TxId /\ j \notin Ends
    BY <1>1, <1>7, <1>8 DEF TxId, Ends
  <2> QED
    BY <2>1 DEF Ends
<1>10. PICK steps \in TxId : (c.next + steps) % Capacity \notin Occupied(c)
                             /\ FreeSlot(c) = (c.next + steps) % Capacity
  BY <1>8, <1>9 DEF FreeSlot, Ends
<1>11. c.next + steps \in Nat
  BY <1>1 DEF TxId
<1>12. (c.next + steps) % Capacity \in TxId
  BY <1>1, <1>11 DEF TxId
<1> QED
  BY <1>10, <1>12

\* finish/2 on a slot in use.
LEMMA FinishKeeps ==
  ASSUME Types, NEW c, Good(c), NEW t \in TxId, c.pending[t] # None, NEW answer \in Answer,
         answer.kind = "reply" => answer.of = c.pending[t].id,
         NEW ids, Holds(c, ids), NEW fewer, fewer \subseteq ids \ {c.pending[t].id}
  PROVE  Good(Finish(c, t, answer)) /\ Holds(Finish(c, t, answer), fewer)
<1> DEFINE d == Finish(c, t, answer)  id == c.pending[t].id
<1>1. c \in Client /\ id \in Ids /\ id \in Requests /\ submitted[id].txid = t /\ c.answers[id] = << >>
  BY DEF Good, Slots, Client, Entry
<1>2. /\ d \in Client /\ d.status = c.status
      /\ d.pending = [c.pending EXCEPT ![t] = None]
      /\ \A k \in Ids : k # id => d.answers[k] = c.answers[k]
      /\ d.answers[id] = << >> \/ d.answers[id] = <<answer>>
  <2> DEFINE free == [c.pending EXCEPT ![t] = None]  told == [c.answers EXCEPT ![id] = <<answer>>]
  <2>1. c.pending \in [TxId -> Entry \cup {None}] /\ c.answers \in [Ids -> Seq(Answer)]
    BY <1>1 DEF Client
  <2>2. free \in [TxId -> Entry \cup {None}]
    BY <2>1
  <2>3. /\ told \in [Ids -> Seq(Answer)] /\ told[id] = <<answer>>
        /\ \A k \in Ids : k # id => told[k] = c.answers[k]
    BY <1>1, <2>1
  <2>4. CASE c.pending[t].from = None
    <3>1. d = [c EXCEPT !.pending = free]
      BY <2>4 DEF Finish
    <3> HIDE DEF d, free
    <3>2. d \in Client /\ d.status = c.status /\ d.pending = free /\ d.answers = c.answers
      BY ONLY <1>1, <2>2, <3>1 DEF Client
    <3> QED
      BY <1>1, <3>2 DEF free
  <2>5. CASE c.pending[t].from # None
    <3>1. Append(c.answers[id], answer) = <<answer>>
      BY <1>1
    <3>2. d = [c EXCEPT !.pending = free, !.answers = told]
      BY <2>5, <3>1 DEF Finish
    <3> HIDE DEF d, free, told
    <3>3. d \in Client /\ d.status = c.status /\ d.pending = free /\ d.answers = told
      BY ONLY <1>1, <2>2, <2>3, <3>2 DEF Client
    <3> QED
      BY <2>3, <3>3 DEF free
  <2> QED
    BY <2>4, <2>5
<1> HIDE DEF d
<1>3. Slots(d)
  <2>1. ASSUME NEW u \in TxId, d.pending[u] # None
        PROVE  u # t /\ d.pending[u] = c.pending[u]
    BY <1>1, <1>2, <2>1 DEF Client
  <2>2. ASSUME NEW u \in TxId, d.pending[u] # None
        PROVE  /\ d.pending[u].id \in Requests /\ submitted[d.pending[u].id].txid = u
               /\ d.answers[d.pending[u].id] = << >> /\ d.status = "up"
    <3>1. c.pending[u] # None /\ c.pending[u].id \in Ids /\ c.pending[u].id # id
      BY <1>1, <2>1, <2>2 DEF Good, Slots, Client, Entry
    <3> QED
      BY <1>2, <2>1, <2>2, <3>1 DEF Good, Slots
  <2> QED
    BY <2>2 DEF Slots
<1>4. Answers(d)
  <2>1. ASSUME NEW k \in Ids
        PROVE  /\ k \notin Known => d.answers[k] = << >>
               /\ Len(d.answers[k]) <= 1
               /\ \A n \in 1 .. Len(d.answers[k]) : d.answers[k][n].kind = "reply" => d.answers[k][n].of = k
    <3>1. CASE k # id
      BY <1>2, <3>1 DEF Good, Answers
    <3>2. CASE k = id /\ d.answers[id] = << >>
      BY <3>2
    <3>3. CASE k = id /\ d.answers[id] = <<answer>>
      <4>1. id \in Known
        BY <1>1 DEF Requests, Known
      <4>2. Len(<<answer>>) = 1 /\ <<answer>>[1] = answer
        OBVIOUS
      <4> QED
        BY <3>3, <4>1, <4>2
    <3> QED
      BY <1>2, <3>1, <3>2, <3>3
  <2> QED
    BY <2>1 DEF Answers
<1>5. Holds(d, fewer)
  <2>1. ASSUME d.status = "up", NEW k \in fewer \cap Requests
        PROVE  d.pending[submitted[k].txid] # None /\ d.pending[submitted[k].txid].id = k
    <3>1. k \in ids \cap Requests /\ k # id /\ submitted[k].txid \in TxId
      BY DEF Types
    <3>2. c.pending[submitted[k].txid] # None /\ c.pending[submitted[k].txid].id = k
      BY <1>2, <2>1, <3>1 DEF Holds
    <3>3. submitted[k].txid # t
      BY <3>1, <3>2
    <3> QED
      BY <1>1, <1>2, <3>1, <3>2, <3>3 DEF Client
  <2> QED
    BY <2>1 DEF Holds
<1> QED
  BY <1>2, <1>3, <1>4, <1>5 DEF Good, d

\* fail/2: nothing is held any more.
LEMMA FailKeeps ==
  ASSUME Types, NEW c, Good(c), NEW ids
  PROVE  Good(Fail(c)) /\ Holds(Fail(c), ids)
<1>1. CASE c.status = "down"
  BY <1>1 DEF Fail, Holds
<1>2. CASE c.status # "down"
  <2> DEFINE d == Fail(c)
  <2>1. d = [c EXCEPT !.status = "down", !.sends = {}, !.pending = [t \in TxId |-> None],
                      !.answers = [id \in Ids |-> IF id \in Waiting(c) THEN Append(c.answers[id], Down)
                                                  ELSE c.answers[id]]]
    BY <1>2 DEF Fail
  <2>2. c \in Client /\ Down \in Answer /\ Down.kind # "reply"
    BY DEF Good, Down, Answer
  <2>3. ASSUME NEW id \in Waiting(c)
        PROVE  id \in Ids /\ id \in Known /\ c.answers[id] = << >> /\ Append(c.answers[id], Down) = <<Down>>
    <3>1. PICK t \in TxId : c.pending[t] # None /\ id = c.pending[t].id
      BY DEF Waiting, Occupied
    <3>2. id \in Requests /\ c.answers[id] = << >>
      BY <3>1 DEF Good, Slots
    <3>3. id \in Ids
      BY <2>2, <3>1 DEF Client, Entry
    <3> QED
      BY <3>2, <3>3 DEF Requests, Known
  <2>4. \A id \in Ids : c.answers[id] \in Seq(Answer)
    BY <2>2 DEF Client
  <2>5. <<Down>> \in Seq(Answer) /\ Len(<<Down>>) = 1 /\ <<Down>>[1] = Down
    BY <2>2
  <2> DEFINE more == [id \in Ids |-> IF id \in Waiting(c) THEN Append(c.answers[id], Down) ELSE c.answers[id]]
             none == [t \in TxId |-> None]
  <2>6. /\ more \in [Ids -> Seq(Answer)]
        /\ \A id \in Ids : more[id] = IF id \in Waiting(c) THEN <<Down>> ELSE c.answers[id]
    BY <2>3, <2>4, <2>5
  <2>7. /\ d \in Client /\ d.status = "down" /\ d.pending = none /\ d.answers = more
    <3>1. none \in [TxId -> Entry \cup {None}] /\ d = [c EXCEPT !.status = "down", !.sends = {}, !.pending = none, !.answers = more]
      BY <2>1
    <3> HIDE DEF d, none, more
    <3> QED
      BY ONLY <2>2, <2>6, <3>1 DEF Client
  <2> HIDE DEF d
  <2>8. Slots(d) /\ Holds(d, ids)
    BY <2>7 DEF Slots, Holds
  <2> HIDE DEF more
  <2>9. Answers(d)
    <3>1. ASSUME NEW k \in Ids
          PROVE  /\ k \notin Known => d.answers[k] = << >>
                 /\ Len(d.answers[k]) <= 1
                 /\ \A n \in 1 .. Len(d.answers[k]) : d.answers[k][n].kind = "reply" => d.answers[k][n].of = k
      <4>1. CASE k \in Waiting(c)
        <5>1. k \in Known /\ d.answers[k] = <<Down>>
          BY <2>3, <2>6, <2>7, <4>1
        <5> HIDE DEF Known
        <5>2. \A n \in 1 .. Len(d.answers[k]) : d.answers[k][n] = Down
          BY <2>5, <5>1
        <5> QED
          BY <2>2, <2>5, <5>1, <5>2
      <4>2. CASE k \notin Waiting(c)
        BY <2>6, <2>7, <4>2 DEF Good, Answers
      <4> QED
        BY <4>1, <4>2
    <3> QED
      BY <3>1 DEF Answers
  <2> QED
    BY <2>7, <2>8, <2>9 DEF Good, d
<1> QED
  BY <1>1, <1>2

\* caller_info/2: only the reply handle goes.
LEMMA AbandonKeeps ==
  ASSUME Types, NEW c, Good(c), NEW caller \in Caller, NEW ids, Holds(c, ids)
  PROVE  Good(Abandon(c, caller)) /\ Holds(Abandon(c, caller), ids)
<1> DEFINE left == [t \in TxId |-> IF c.pending[t] # None /\ c.pending[t].from = caller
                                   THEN [c.pending[t] EXCEPT !.from = None] ELSE c.pending[t]]
           d == Abandon(c, caller)
<1>1. c \in Client /\ c.pending \in [TxId -> Entry \cup {None}]
  BY DEF Good, Client
<1>2. ASSUME NEW t \in TxId
      PROVE  /\ left[t] \in Entry \cup {None}
             /\ left[t] # None <=> c.pending[t] # None
             /\ c.pending[t] # None => left[t].id = c.pending[t].id
  <2>1. CASE c.pending[t] # None
    <3>1. c.pending[t] \in Entry
      BY <1>1, <2>1
    <3>2. [c.pending[t] EXCEPT !.from = None] = [id |-> c.pending[t].id, from |-> None] /\ c.pending[t].id \in Ids
      BY <3>1 DEF Entry
    <3>3. [c.pending[t] EXCEPT !.from = None] # None
      BY <3>2, NoneAssumption DEF Ids
    <3> QED
      BY <2>1, <3>1, <3>2, <3>3 DEF Entry
  <2>2. CASE c.pending[t] = None
    BY <2>2
  <2> QED
    BY <2>1, <2>2
<1>3. left \in [TxId -> Entry \cup {None}] /\ d = [c EXCEPT !.pending = left]
  BY <1>2 DEF Abandon
<1> HIDE DEF left, d
<1>4. d \in Client /\ d.status = c.status /\ d.answers = c.answers /\ d.pending = left
  BY ONLY <1>1, <1>3 DEF Client
<1>5. Slots(d)
  BY <1>2, <1>4 DEF Good, Slots
<1>6. Answers(d)
  BY <1>4 DEF Good, Answers
<1>7. Holds(d, ids)
  BY <1>2, <1>4 DEF Holds, Types
<1> QED
  BY <1>4, <1>5, <1>6, <1>7 DEF Good, d

\* A client that only waits for other results.
LEMMA SendsKeep ==
  ASSUME NEW c, Good(c), NEW sends \in SUBSET Ids, NEW ids, Holds(c, ids)
  PROVE  LET d == [c EXCEPT !.sends = sends] IN
         Good(d) /\ Holds(d, ids) /\ d.pending = c.pending /\ d.status = c.status
<1> DEFINE d == [c EXCEPT !.sends = sends]
<1>1. c \in Client
  BY DEF Good
<1>2. /\ d \in Client /\ d.status = c.status /\ d.answers = c.answers /\ d.pending = c.pending
  BY <1>1 DEF Client
<1> HIDE DEF d
<1>3. Slots(d) /\ Answers(d) /\ Holds(d, ids)
  BY <1>2 DEF Good, Slots, Answers, Holds
<1> QED
  BY <1>2, <1>3 DEF Good, d

-----------------------------------------------------------------------------
(* The way of a submission.                                                *)

LEMMA TailFacts ==
  ASSUME NEW mail \in Seq(Mail), mail # << >>, OnePlace(mail)
  PROVE  /\ OnePlace(Tail(mail)) /\ Settled(Tail(mail)) \subseteq Settled(mail)
         /\ Settles(Head(mail)) => Head(mail).id \in Settled(mail) \ Settled(Tail(mail))
         /\ \A n \in 1 .. Len(Tail(mail)) : \E k \in 1 .. Len(mail) : Tail(mail)[n] = mail[k]
         /\ Tail(mail) \in Seq(Mail) /\ Head(mail) = mail[1] /\ 1 \in 1 .. Len(mail)
<1> DEFINE rest == Tail(mail)
<1> HIDE DEF Mail
<1>1. /\ rest \in Seq(Mail) /\ Head(mail) = mail[1] /\ 1 \in 1 .. Len(mail)
      /\ \A n \in 1 .. Len(rest) : n + 1 \in 1 .. Len(mail) /\ rest[n] = mail[n + 1] /\ n + 1 # 1 /\ n \in Int
  OBVIOUS
<1> HIDE DEF rest
<1>2. OnePlace(rest)
  <2>1. ASSUME NEW i \in 1 .. Len(rest), NEW j \in 1 .. Len(rest),
               Settles(rest[i]), Settles(rest[j]), rest[i].id = rest[j].id
        PROVE  i = j
    <3>1. i + 1 = j + 1
      BY <1>1, <2>1 DEF OnePlace
    <3> QED
      BY <3>1
  <2> QED
    BY <2>1 DEF OnePlace
<1>3. Settled(rest) \subseteq Settled(mail)
  BY <1>1 DEF Settled
<1>4. ASSUME Settles(mail[1]) PROVE mail[1].id \in Settled(mail) \ Settled(rest)
  <2>1. mail[1].id \in Settled(mail)
    BY <1>1, <1>4 DEF Settled
  <2>2. ASSUME NEW n \in 1 .. Len(rest), Settles(rest[n]), rest[n].id = mail[1].id PROVE FALSE
    BY <1>1, <1>4, <2>2 DEF OnePlace
  <2> QED
    BY <2>1, <2>2 DEF Settled
<1>5. \A n \in 1 .. Len(rest) : \E k \in 1 .. Len(mail) : rest[n] = mail[k]
  BY <1>1
<1> QED
  BY <1>1, <1>2, <1>3, <1>4, <1>5 DEF rest

LEMMA SendFacts ==
  ASSUME NEW mail \in Seq(Mail), NEW more \in Seq(Mail), OnePlace(mail), OnePlace(more),
         Settled(mail) \cap Settled(more) = {}
  PROVE  /\ mail \o more \in Seq(Mail) /\ OnePlace(mail \o more) /\ Settled(mail \o more) = Settled(mail) \cup Settled(more)
         /\ \A n \in 1 .. Len(mail \o more) : \/ \E k \in 1 .. Len(mail) : (mail \o more)[n] = mail[k]
                                     \/ \E k \in 1 .. Len(more) : (mail \o more)[n] = more[k]
<1> HIDE DEF Mail
<1> DEFINE all == mail \o more
<1>1. /\ all \in Seq(Mail) /\ Len(all) = Len(mail) + Len(more) /\ Len(mail) \in Nat /\ Len(more) \in Nat
      /\ \A n \in 1 .. Len(mail) : all[n] = mail[n] /\ n \in 1 .. Len(all)
      /\ \A n \in 1 .. Len(more) : all[Len(mail) + n] = more[n] /\ Len(mail) + n \in 1 .. Len(all)
  OBVIOUS
<1> HIDE DEF all
<1>2. \A n \in 1 .. Len(all) : n \in 1 .. Len(mail) \/ (n - Len(mail) \in 1 .. Len(more) /\ all[n] = more[n - Len(mail)])
  BY <1>1
<1>3. OnePlace(all)
  <2>1. ASSUME NEW i \in 1 .. Len(all), NEW j \in 1 .. Len(all),
               Settles(all[i]), Settles(all[j]), all[i].id = all[j].id
        PROVE  i = j
    <3>1. CASE i \in 1 .. Len(mail) /\ j \in 1 .. Len(mail)
      BY <1>1, <2>1, <3>1 DEF OnePlace
    <3>2. CASE i \notin 1 .. Len(mail) /\ j \notin 1 .. Len(mail)
      <4>1. i - Len(mail) = j - Len(mail)
        BY <1>2, <2>1, <3>2 DEF OnePlace
      <4> QED
        BY <1>1, <4>1
    <3>3. CASE i \in 1 .. Len(mail) /\ j \notin 1 .. Len(mail)
      <4>1. all[i].id \in Settled(mail) /\ all[j].id \in Settled(more)
        BY <1>1, <1>2, <2>1, <3>3 DEF Settled
      <4> QED
        BY <2>1, <4>1
    <3>4. CASE i \notin 1 .. Len(mail) /\ j \in 1 .. Len(mail)
      <4>1. all[j].id \in Settled(mail) /\ all[i].id \in Settled(more)
        BY <1>1, <1>2, <2>1, <3>4 DEF Settled
      <4> QED
        BY <2>1, <4>1
    <3> QED
      BY <3>1, <3>2, <3>3, <3>4
  <2> QED
    BY <2>1 DEF OnePlace
<1>4. Settled(all) = Settled(mail) \cup Settled(more)
  <2>1. Settled(all) \subseteq Settled(mail) \cup Settled(more)
    <3> SUFFICES ASSUME NEW n \in 1 .. Len(all), Settles(all[n])
                 PROVE  all[n].id \in Settled(mail) \cup Settled(more)
      BY DEF Settled
    <3>1. CASE n \in 1 .. Len(mail)
      <4>1. all[n] = mail[n]
        BY <1>1, <3>1
      <4> QED
        BY <3>1, <4>1 DEF Settled
    <3>2. CASE n - Len(mail) \in 1 .. Len(more) /\ all[n] = more[n - Len(mail)]
      BY <3>2 DEF Settled
    <3> QED
      BY <1>2, <3>1, <3>2
  <2>2. Settled(mail) \subseteq Settled(all)
    BY <1>1 DEF Settled
  <2>3. Settled(more) \subseteq Settled(all)
    BY <1>1 DEF Settled
  <2> QED
    BY <2>1, <2>2, <2>3
<1> QED
  BY <1>1, <1>2, <1>3, <1>4 DEF all

\* One message.
LEMMA OneFacts ==
  ASSUME NEW m \in Mail
  PROVE  /\ <<m>> \in Seq(Mail) /\ OnePlace(<<m>>) /\ (\A n \in 1 .. Len(<<m>>) : <<m>>[n] = m)
         /\ Settled(<<m>>) = IF Settles(m) THEN {m.id} ELSE {}
<1> HIDE DEF Mail
<1>1. <<m>> \in Seq(Mail) /\ Len(<<m>>) = 1 /\ <<m>>[1] = m
  OBVIOUS
<1>2. OnePlace(<<m>>) /\ \A n \in 1 .. Len(<<m>>) : <<m>>[n] = m
  BY <1>1 DEF OnePlace
<1>3. Settled(<<m>>) = IF Settles(m) THEN {m.id} ELSE {}
  <2> DEFINE mail == <<m>>
  <2>1. \A n \in 1 .. Len(mail) : mail[n] = m
    BY <1>1
  <2>2. 1 \in 1 .. Len(mail)
    BY <1>1
  <2> HIDE DEF mail
  <2>3. Settled(mail) = IF Settles(m) THEN {m.id} ELSE {}
    BY <2>1, <2>2 DEF Settled
  <2> QED
    BY <2>3 DEF mail
<1> QED
  BY <1>1, <1>2, <1>3

-----------------------------------------------------------------------------
(* The broker, the device and the callers.                                 *)

LEMMA TransportKeeps ==
  ASSUME IInv, UNCHANGED <<client, submitted>>, Types', Unique', UnderWay' \subseteq UnderWay
  PROVE  IInv'
<1>1. Requests' = Requests /\ Known' = Known
  BY DEF Requests, Known
<1>2. Good(client)'
  BY <1>1 DEF IInv, Good, Slots, Answers
<1>3. Holds(client, UnderWay)'
  BY <1>1 DEF IInv, Holds
<1> QED
  BY <1>2, <1>3 DEF IInv

\* The broker, or the device, says something.
LEMMA SayKeeps ==
  ASSUME IInv, UNCHANGED <<client, submitted>>,
         NEW more \in Seq(Mail), inbox' = inbox \o more, OnePlace(more),
         \A n \in 1 .. Len(more) : Proper(more[n]),
         broker' \in [up : BOOLEAN, queue : Seq(Ids), active : Ids \cup {None}],
         \A n \in 1 .. Len(broker'.queue) : broker'.queue[n] \in Known,
         broker'.active # None => broker'.active \in Known,
         \A i, j \in 1 .. Len(broker'.queue) : broker'.queue[i] = broker'.queue[j] => i = j,
         Queued' \cup Settled(more) \subseteq Queued \cup (owed \ owed'), owed' \subseteq owed,
         Queued' \cap Settled(more) = {}, Queued' \subseteq Queued
  PROVE  IInv'
<1>1. inbox \in Seq(Mail) /\ OnePlace(inbox) /\ Settled(inbox) \cap (Queued \cup owed) = {} /\ Queued \cap owed = {}
  BY DEF IInv, Types, Unique
<1>2. /\ inbox' \in Seq(Mail) /\ OnePlace(inbox') /\ Settled(inbox') = Settled(inbox) \cup Settled(more)
      /\ \A n \in 1 .. Len(inbox') : \/ \E k \in 1 .. Len(inbox) : inbox'[n] = inbox[k]
                                     \/ \E k \in 1 .. Len(more) : inbox'[n] = more[k]
  <2> DEFINE all == inbox \o more
  <2>1. Settled(inbox) \cap Settled(more) = {}
    BY <1>1
  <2>2. /\ all \in Seq(Mail) /\ OnePlace(all) /\ Settled(all) = Settled(inbox) \cup Settled(more)
        /\ \A n \in 1 .. Len(all) : \/ \E k \in 1 .. Len(inbox) : all[n] = inbox[k]
                                    \/ \E k \in 1 .. Len(more) : all[n] = more[k]
    BY <1>1, <2>1, SendFacts
  <2>3. inbox' = all
    OBVIOUS
  <2> HIDE DEF all
  <2> QED
    BY <2>2, <2>3
<1>3. Requests' = Requests /\ Known' = Known
  BY DEF Requests, Known
<1>4. \A n \in 1 .. Len(inbox') : Proper(inbox'[n])
  <2>1. \A n \in 1 .. Len(inbox) : Proper(inbox[n])
    BY DEF IInv, Types
  <2> QED
    BY <1>2, <2>1
<1>5. Types'
  <2>1. \A n \in 1 .. Len(inbox') : Proper(inbox[n])'
    BY <1>3, <1>4 DEF Proper
  <2> QED
    BY <1>2, <1>3, <2>1 DEF IInv, Types
<1>6. OnePlace(inbox)' /\ Settled(inbox)' = Settled(inbox) \cup Settled(more)
  BY <1>2 DEF OnePlace, Settled
<1>7. Unique'
  BY <1>1, <1>6 DEF Unique
<1>8. UnderWay' \subseteq UnderWay
  BY <1>6 DEF UnderWay
<1> QED
  BY <1>5, <1>7, <1>8, TransportKeeps

LEMMA BrokerFacts ==
  ASSUME IInv
  PROVE  /\ broker \in [up : BOOLEAN, queue : Seq(Ids), active : Ids \cup {None}]
         /\ broker.queue \in Seq(Ids) /\ Len(broker.queue) \in Nat
         /\ \A n \in 1 .. Len(broker.queue) : broker.queue[n] \in Known
         /\ broker.active # None => broker.active \in Known
         /\ \A i, j \in 1 .. Len(broker.queue) : broker.queue[i] = broker.queue[j] => i = j
         /\ Known \subseteq Ids /\ None \notin Ids
<1>1. Known \subseteq Ids /\ None \notin Ids
  BY ClientAssumption, NoneAssumption DEF IInv, Types, Known, Ids
<1> QED
  BY <1>1 DEF IInv, Types, Unique

LEMMA BrokerTransmitsKeeps ==
  ASSUME IInv, BrokerTransmits
  PROVE  IInv'
<1> DEFINE queue == broker.queue  rest == Tail(queue)  head == Head(queue)
<1>1. queue \in Seq(Ids) /\ queue # << >>
  BY BrokerFacts DEF BrokerTransmits
<1>2. /\ rest \in Seq(Ids) /\ head = queue[1] /\ 1 \in 1 .. Len(queue)
      /\ \A n \in 1 .. Len(rest) : n + 1 \in 1 .. Len(queue) /\ rest[n] = queue[n + 1] /\ n + 1 # 1 /\ n \in Int
  BY <1>1
<1>3. broker' = [broker EXCEPT !.active = head, !.queue = rest]
  BY DEF BrokerTransmits
<1>4. /\ owed' = owed \cup {id \in {head} : submitted[id].kind = "request"}
      /\ UNCHANGED <<client, submitted, inbox>>
  BY DEF BrokerTransmits
<1> HIDE DEF rest, head, queue
<1>5. head \in Ids /\ head \in Known /\ head \in Queued
  BY <1>2, BrokerFacts DEF queue, Queued
<1>6. broker'.queue = rest /\ broker'.active = head /\ broker' \in [up : BOOLEAN, queue : Seq(Ids), active : Ids \cup {None}]
  BY <1>2, <1>3, <1>5, BrokerFacts
<1>7. Requests' = Requests /\ Known' = Known /\ owed' \subseteq owed \cup ({head} \cap Requests)
  BY <1>4, <1>5 DEF Requests, Known
<1>8. Queued' = {rest[n] : n \in 1 .. Len(rest)}
  BY <1>6 DEF Queued
<1>9. Queued' \subseteq Queued \ {head}
  <2>1. ASSUME NEW n \in 1 .. Len(rest) PROVE rest[n] \in Queued /\ rest[n] # head
    BY <1>2, BrokerFacts DEF queue, Queued
  <2> QED
    BY <1>8, <2>1
<1>10. \A i, j \in 1 .. Len(rest) : rest[i] = rest[j] => i = j
  <2>1. ASSUME NEW i \in 1 .. Len(rest), NEW j \in 1 .. Len(rest), rest[i] = rest[j] PROVE i = j
    <3>1. i + 1 = j + 1
      BY <1>2, <2>1, BrokerFacts DEF queue
    <3> QED
      BY <1>2, <3>1
  <2> QED
    BY <2>1
<1>11. \A n \in 1 .. Len(rest) : rest[n] \in Known
  BY <1>2, BrokerFacts DEF queue
<1>12. Types'
  <2>1. \A n \in 1 .. Len(inbox) : Proper(inbox[n])'
    BY <1>4, <1>7 DEF IInv, Types, Proper
  <2> QED
    BY <1>4, <1>5, <1>6, <1>7, <1>11, <2>1 DEF IInv, Types
<1>13. OnePlace(inbox)' /\ Settled(inbox)' = Settled(inbox)
  BY <1>4 DEF IInv, Unique, OnePlace, Settled
<1>14. Unique'
  BY <1>5, <1>6, <1>7, <1>9, <1>10, <1>13 DEF IInv, Unique
<1>15. UnderWay' \subseteq UnderWay
  BY <1>5, <1>7, <1>9, <1>13 DEF UnderWay
<1> QED
  BY <1>4, <1>12, <1>14, <1>15, TransportKeeps

LEMMA BrokerCompletesKeeps ==
  ASSUME IInv, BrokerCompletes
  PROVE  IInv'
<1> DEFINE m == Message("result", broker.active, None, "ok")
<1>1. broker.active \in Known /\ broker.active \in Ids
  BY BrokerFacts DEF BrokerCompletes
<1>2. m \in Mail /\ ~Settles(m) /\ Proper(m)
  BY <1>1 DEF Message, Mail, Settles, Proper
<1>3. inbox' = inbox \o <<m>> /\ UNCHANGED <<client, submitted, owed>> /\ broker' = [broker EXCEPT !.active = None]
  BY DEF BrokerCompletes, Send
<1> HIDE DEF m
<1>4. /\ <<m>> \in Seq(Mail) /\ OnePlace(<<m>>) /\ Settled(<<m>>) = {}
      /\ \A n \in 1 .. Len(<<m>>) : Proper(<<m>>[n])
  <2>1. /\ <<m>> \in Seq(Mail) /\ OnePlace(<<m>>) /\ (\A n \in 1 .. Len(<<m>>) : <<m>>[n] = m)
        /\ Settled(<<m>>) = IF Settles(m) THEN {m.id} ELSE {}
    BY <1>2, OneFacts
  <2> QED
    BY ONLY <1>2, <2>1
<1>5. /\ broker' \in [up : BOOLEAN, queue : Seq(Ids), active : Ids \cup {None}]
      /\ broker'.queue = broker.queue /\ broker'.active = None
  BY <1>3, BrokerFacts
<1>6. Queued' = Queued
  BY <1>5 DEF Queued
<1> QED
  BY <1>3, <1>4, <1>5, <1>6, BrokerFacts, SayKeeps

LEMMA DeviceRepliesKeeps ==
  ASSUME IInv, NEW id \in Ids, DeviceReplies(id)
  PROVE  IInv'
<1> DEFINE m == Message("frame", id, submitted[id].txid, "decoded")
<1>1. id \in Requests /\ submitted[id].txid \in TxId /\ id \in owed
  BY DEF DeviceReplies, IInv, Types
<1>2. m \in Mail /\ m.id = id /\ Proper(m)
  BY <1>1 DEF Message, Mail, Proper
<1>3. inbox' = inbox \o <<m>> /\ UNCHANGED <<client, submitted, broker>> /\ owed' = owed \ {id}
  BY DEF DeviceReplies, Send
<1> HIDE DEF m
<1>4. /\ <<m>> \in Seq(Mail) /\ OnePlace(<<m>>) /\ Settled(<<m>>) \subseteq {id}
      /\ \A n \in 1 .. Len(<<m>>) : Proper(<<m>>[n])
  <2>1. /\ <<m>> \in Seq(Mail) /\ OnePlace(<<m>>) /\ (\A n \in 1 .. Len(<<m>>) : <<m>>[n] = m)
        /\ Settled(<<m>>) = IF Settles(m) THEN {m.id} ELSE {}
    BY <1>2, OneFacts
  <2> QED
    BY ONLY <1>2, <2>1
<1>5. Queued' = Queued /\ Queued \cap owed = {}
  BY <1>3 DEF Queued, IInv, Unique
<1> DEFINE more == <<m>>
<1>6. inbox' = inbox \o more
  BY <1>3
<1>7. /\ more \in Seq(Mail) /\ OnePlace(more) /\ Settled(more) \subseteq {id}
      /\ \A n \in 1 .. Len(more) : Proper(more[n])
  BY <1>4
<1> HIDE DEF more
<1>8. /\ broker' \in [up : BOOLEAN, queue : Seq(Ids), active : Ids \cup {None}]
      /\ \A n \in 1 .. Len(broker'.queue) : broker'.queue[n] \in Known
      /\ broker'.active # None => broker'.active \in Known
      /\ \A i, j \in 1 .. Len(broker'.queue) : broker'.queue[i] = broker'.queue[j] => i = j
  BY <1>3, BrokerFacts
<1>9. /\ Queued' \cup Settled(more) \subseteq Queued \cup (owed \ owed') /\ owed' \subseteq owed
      /\ Queued' \cap Settled(more) = {} /\ Queued' \subseteq Queued
  BY <1>1, <1>3, <1>5, <1>7
<1> QED
  BY <1>3, <1>6, <1>7, <1>8, <1>9, SayKeeps

LEMMA StrayFrameKeeps ==
  ASSUME IInv, StrayFrame
  PROVE  IInv'
<1>1. PICK txid \in TxId \cup {CastId} :
        Send(<<Message("frame", None, txid, IF txid = CastId THEN "decoded" ELSE "refused")>>)
  BY DEF StrayFrame
<1> DEFINE m == Message("frame", None, txid, IF txid = CastId THEN "decoded" ELSE "refused")
<1>2. m \in Mail /\ ~Settles(m) /\ Proper(m)
  BY ClientAssumption DEF Message, Mail, Settles, Proper
<1>3. inbox' = inbox \o <<m>> /\ UNCHANGED <<client, submitted, owed, broker>>
  BY <1>1 DEF StrayFrame, Send
<1> HIDE DEF m
<1>4. /\ <<m>> \in Seq(Mail) /\ OnePlace(<<m>>) /\ Settled(<<m>>) = {}
      /\ \A n \in 1 .. Len(<<m>>) : Proper(<<m>>[n])
  <2>1. /\ <<m>> \in Seq(Mail) /\ OnePlace(<<m>>) /\ (\A n \in 1 .. Len(<<m>>) : <<m>>[n] = m)
        /\ Settled(<<m>>) = IF Settles(m) THEN {m.id} ELSE {}
    BY <1>2, OneFacts
  <2> QED
    BY ONLY <1>2, <2>1
<1>5. Queued' = Queued
  BY <1>3 DEF Queued
<1> QED
  BY <1>3, <1>4, <1>5, BrokerFacts, SayKeeps

LEMMA ConcatFacts ==
  ASSUME NEW S, NEW a \in Seq(S), NEW b \in Seq(S)
  PROVE  /\ a \o b \in Seq(S) /\ Len(a \o b) = Len(a) + Len(b)
         /\ \A k \in 1 .. Len(a) : (a \o b)[k] = a[k]
         /\ \A k \in 1 .. Len(b) : (a \o b)[Len(a) + k] = b[k]
OBVIOUS

LEMMA RemoveFacts ==
  ASSUME NEW S, NEW queue \in Seq(S), NEW n \in 1 .. Len(queue)
  PROVE  LET rest == SubSeq(queue, 1, n - 1) \o SubSeq(queue, n + 1, Len(queue)) IN
         /\ rest \in Seq(S) /\ Len(rest) = Len(queue) - 1
         /\ \A k \in 1 .. Len(rest) : rest[k] = queue[IF k < n THEN k ELSE k + 1]
<1> DEFINE before == SubSeq(queue, 1, n - 1)  after == SubSeq(queue, n + 1, Len(queue))
<1>1. Len(queue) \in Nat /\ n \in Nat /\ n >= 1 /\ n <= Len(queue)
  OBVIOUS
<1>2. before \in Seq(S) /\ Len(before) = n - 1 /\ \A k \in 1 .. (n - 1) : before[k] = queue[k]
  BY <1>1
<1>3. after \in Seq(S) /\ Len(after) = Len(queue) - n /\ \A k \in 1 .. (Len(queue) - n) : after[k] = queue[n + k]
  BY <1>1
<1> HIDE DEF before, after
<1> DEFINE rest == before \o after
<1>4. /\ rest \in Seq(S) /\ Len(rest) = Len(queue) - 1
      /\ \A k \in 1 .. (n - 1) : rest[k] = before[k]
      /\ \A k \in n .. (Len(queue) - 1) : rest[k] = after[k - (n - 1)]
  <2>1. /\ rest \in Seq(S) /\ Len(rest) = Len(before) + Len(after)
        /\ \A k \in 1 .. Len(before) : rest[k] = before[k]
        /\ \A k \in 1 .. Len(after) : rest[Len(before) + k] = after[k]
    <3>1. before \in Seq(S) /\ after \in Seq(S)
      BY <1>2, <1>3
    <3> QED
      BY ONLY <3>1, ConcatFacts
  <2> HIDE DEF rest
  <2>2. ASSUME NEW k \in n .. (Len(queue) - 1) PROVE rest[k] = after[k - (n - 1)]
    <3>1. k - (n - 1) \in 1 .. Len(after) /\ Len(before) + (k - (n - 1)) = k
      BY <1>1, <1>2, <1>3
    <3> QED
      BY <2>1, <3>1
  <2>3. Len(before) = n - 1 /\ Len(after) = Len(queue) - n
    BY <1>2, <1>3
  <2>4. rest \in Seq(S) /\ \A k \in 1 .. (n - 1) : rest[k] = before[k]
    BY <2>1, <2>3
  <2>5. Len(rest) = Len(queue) - 1
    <3>1. Len(rest) = Len(before) + Len(after)
      BY <2>1
    <3> QED
      BY ONLY <1>1, <2>3, <3>1
  <2> QED
    BY <2>2, <2>4, <2>5
<1> HIDE DEF rest
<1>5. ASSUME NEW k \in 1 .. Len(rest) PROVE rest[k] = queue[IF k < n THEN k ELSE k + 1]
  <2>1. Len(rest) = Len(queue) - 1 /\ k \in 1 .. (Len(queue) - 1)
    BY <1>4
  <2>2. CASE k < n
    <3>1. k \in 1 .. (n - 1)
      BY ONLY <1>1, <2>1, <2>2
    <3>2. rest[k] = before[k] /\ before[k] = queue[k]
      BY <1>2, <1>4, <3>1
    <3> QED
      BY <2>2, <3>2
  <2>3. CASE ~(k < n)
    <3> DEFINE j == k - (n - 1)
    <3>1. k \in n .. (Len(queue) - 1) /\ j \in 1 .. (Len(queue) - n) /\ n + j = k + 1
      BY ONLY <1>1, <2>1, <2>3
    <3>2. rest[k] = after[j]
      BY <1>4, <3>1
    <3> HIDE DEF j
    <3>3. after[j] = queue[n + j]
      BY <1>3, <3>1
    <3>4. rest[k] = queue[k + 1]
      BY <3>1, <3>2, <3>3
    <3> QED
      BY <2>3, <3>4
  <2> QED
    BY <2>2, <2>3
<1> QED
  BY <1>4, <1>5 DEF rest, before, after

LEMMA BrokerRejectsKeeps ==
  ASSUME IInv, NEW n \in Ids, BrokerRejects(n)
  PROVE  IInv'
<1> DEFINE queue == broker.queue  m == Message("result", queue[n], None, "not_sent")
           rest == SubSeq(queue, 1, n - 1) \o SubSeq(queue, n + 1, Len(queue))
           At(k) == IF k < n THEN k ELSE k + 1
<1>1. n \in 1 .. Len(queue) /\ queue \in Seq(Ids)
  BY BrokerFacts DEF BrokerRejects
<1>2. /\ rest \in Seq(Ids) /\ Len(rest) = Len(queue) - 1
      /\ \A k \in 1 .. Len(rest) : rest[k] = queue[At(k)]
  BY <1>1, RemoveFacts
<1>3. /\ inbox' = inbox \o <<m>> /\ UNCHANGED <<client, submitted, owed>>
      /\ broker' = [broker EXCEPT !.queue = rest]
  BY DEF BrokerRejects, Send
<1> HIDE DEF rest
<1>4. /\ \A k \in 1 .. Len(rest) : At(k) \in 1 .. Len(queue) /\ At(k) # n
      /\ \A j, k \in 1 .. Len(rest) : At(j) = At(k) => j = k
  BY <1>1, <1>2
<1>5. queue[n] \in Known /\ queue[n] \in Ids /\ queue[n] \in Queued
  BY <1>1, BrokerFacts DEF Queued
<1>6. m \in Mail /\ m.id = queue[n] /\ Proper(m)
  BY <1>5 DEF Message, Mail, Proper
<1> HIDE DEF m, At
<1>7. /\ broker' \in [up : BOOLEAN, queue : Seq(Ids), active : Ids \cup {None}]
      /\ broker'.queue = rest /\ broker'.active = broker.active
  BY <1>2, <1>3, BrokerFacts
<1>8. /\ \A k \in 1 .. Len(rest) : rest[k] \in Known /\ rest[k] \in Queued /\ rest[k] # queue[n]
      /\ \A j, k \in 1 .. Len(rest) : rest[j] = rest[k] => j = k
  BY <1>1, <1>2, <1>4, BrokerFacts DEF Queued
<1>9. Queued' \subseteq Queued \ {queue[n]}
  BY <1>7, <1>8 DEF Queued
<1>10. /\ <<m>> \in Seq(Mail) /\ OnePlace(<<m>>) /\ Settled(<<m>>) \subseteq {queue[n]}
       /\ \A k \in 1 .. Len(<<m>>) : Proper(<<m>>[k])
  <2>1. /\ <<m>> \in Seq(Mail) /\ OnePlace(<<m>>) /\ (\A k \in 1 .. Len(<<m>>) : <<m>>[k] = m)
        /\ Settled(<<m>>) = IF Settles(m) THEN {m.id} ELSE {}
    BY <1>6, OneFacts
  <2> QED
    BY ONLY <1>6, <2>1
<1>11. /\ \A k \in 1 .. Len(broker'.queue) : broker'.queue[k] \in Known
       /\ \A j, k \in 1 .. Len(broker'.queue) : broker'.queue[j] = broker'.queue[k] => j = k
       /\ broker'.active # None => broker'.active \in Known
  BY <1>7, <1>8, BrokerFacts
<1>12. /\ Queued' \cup Settled(<<m>>) \subseteq Queued /\ Queued' \cap Settled(<<m>>) = {}
  BY <1>5, <1>9, <1>10
<1> QED
  BY <1>3, <1>7, <1>10, <1>11, <1>12, SayKeeps

LEMMA BrokerStopsKeeps ==
  ASSUME IInv, BrokerStops
  PROVE  IInv'
<1> DEFINE queue == broker.queue  n == Len(queue)
           results == [k \in 1 .. n |-> Message("result", queue[k], None, "not_sent")]
           m == Message("result", broker.active, None, "failed")
           more == IF broker.active = None THEN results ELSE Append(results, m)
<1>1. n \in Nat /\ \A k \in 1 .. n : queue[k] \in Known /\ queue[k] \in Ids /\ queue[k] \in Queued
  BY BrokerFacts DEF Queued
<1>2. \A k \in 1 .. n : /\ results[k] \in Mail /\ results[k].id = queue[k] /\ Proper(results[k])
  BY <1>1 DEF Message, Mail, Proper
<1>3. results \in Seq(Mail) /\ Len(results) = n
  <2>1. results \in [1 .. n -> Mail]
    <3> HIDE DEF Mail
    <3> QED
      BY <1>2
  <2> HIDE DEF results, Mail, n
  <2> QED
    BY <1>1, <2>1
<1>4. broker.active # None => m \in Mail /\ ~Settles(m) /\ Proper(m)
  BY BrokerFacts DEF Message, Mail, Settles, Proper
<1>5. /\ inbox' = inbox \o more /\ UNCHANGED <<client, submitted, owed>>
      /\ broker' = [up |-> FALSE, queue |-> << >>, active |-> None]
  BY DEF BrokerStops, Send
<1> HIDE DEF m, results, Mail
<1>6. /\ more \in Seq(Mail)
      /\ \A k \in 1 .. Len(more) : \/ k \in 1 .. n /\ more[k] = results[k]
                                   \/ k = n + 1 /\ broker.active # None /\ more[k] = m
  BY <1>1, <1>3, <1>4
<1> HIDE DEF more
<1>7. \A k \in 1 .. Len(more) : Proper(more[k]) /\ (Settles(more[k]) => k \in 1 .. n /\ more[k].id = queue[k])
  BY <1>2, <1>4, <1>6
<1>8. OnePlace(more)
  BY <1>7, BrokerFacts DEF OnePlace
<1>9. Settled(more) \subseteq Queued
  BY <1>1, <1>7 DEF Settled
<1>10. /\ broker' \in [up : BOOLEAN, queue : Seq(Ids), active : Ids \cup {None}]
       /\ broker'.queue = << >> /\ broker'.active = None
  BY <1>5
<1>11. Queued' = {} /\ \A k \in 1 .. Len(broker'.queue) : FALSE
  BY <1>10 DEF Queued
<1> HIDE DEF queue
<1> QED
  BY <1>5, <1>6, <1>7, <1>8, <1>9, <1>10, <1>11, SayKeeps

LEMMA BrokerKilledKeeps ==
  ASSUME IInv, BrokerKilled
  PROVE  IInv'
<1>1. UNCHANGED <<client, submitted, owed, inbox>> /\ broker' = [up |-> FALSE, queue |-> << >>, active |-> None]
  BY DEF BrokerKilled
<1>2. Requests' = Requests /\ Known' = Known /\ Settled(inbox)' = Settled(inbox) /\ OnePlace(inbox)'
  BY <1>1 DEF Requests, Known, Settled, OnePlace, IInv, Unique
<1>3. /\ broker' \in [up : BOOLEAN, queue : Seq(Ids), active : Ids \cup {None}]
      /\ broker'.queue = << >> /\ broker'.active = None
  BY <1>1
<1>4. Queued' = {} /\ \A k \in 1 .. Len(broker'.queue) : FALSE
  BY <1>3 DEF Queued
<1>5. Types'
  <2>1. \A n \in 1 .. Len(inbox) : Proper(inbox[n])'
    BY <1>1, <1>2 DEF IInv, Types, Proper
  <2> QED
    BY <1>1, <1>2, <1>3, <1>4, <2>1 DEF IInv, Types
<1>6. Unique'
  <2>1. Settled(inbox) \cap owed = {}
    BY DEF IInv, Unique
  <2>2. \A i, j \in 1 .. Len(broker'.queue) : broker'.queue[i] = broker'.queue[j] => i = j
    BY <1>4
  <2>3. Queued' \cap owed' = {} /\ Settled(inbox)' \cap (Queued' \cup owed') = {}
    BY <1>1, <1>2, <1>4, <2>1
  <2> QED
    BY <1>2, <2>2, <2>3 DEF Unique
<1> QED
  BY <1>1, <1>2, <1>4, <1>5, <1>6, TransportKeeps DEF UnderWay

-----------------------------------------------------------------------------
(* The client's handlers.                                                  *)

\* Nothing but the client changes.
LEMMA ClientKeeps ==
  ASSUME IInv, UNCHANGED <<submitted, broker, owed, inbox>>, Good(client'), Holds(client', UnderWay)
  PROVE  IInv'
<1>1. Requests' = Requests /\ Known' = Known /\ UnderWay' = UnderWay
  BY DEF Requests, Known, UnderWay, Queued, Settled
<1>2. Good(client)' /\ Holds(client, UnderWay)'
  BY <1>1 DEF Good, Slots, Answers, Holds
<1>3. Types'
  <2>1. \A n \in 1 .. Len(inbox) : Proper(inbox[n])'
    BY <1>1 DEF IInv, Types, Proper
  <2> QED
    BY <1>1, <2>1 DEF IInv, Types
<1>4. Unique'
  <2>1. Queued' = Queued /\ Settled(inbox)' = Settled(inbox) /\ OnePlace(inbox)'
    BY DEF Queued, Settled, OnePlace, IInv, Unique
  <2> QED
    BY <2>1 DEF IInv, Unique
<1> QED
  BY <1>2, <1>3, <1>4 DEF IInv

LEMMA BrokerDownKeeps ==
  ASSUME IInv, BrokerDown
  PROVE  IInv'
BY FailKeeps, ClientKeeps DEF BrokerDown, IInv

LEMMA CallerDownKeeps ==
  ASSUME IInv, NEW caller \in Caller, CallerDown(caller)
  PROVE  IInv'
BY AbandonKeeps, ClientKeeps DEF CallerDown, IInv

LEMMA CallerDiesKeeps ==
  ASSUME IInv, NEW caller \in Caller, CallerDies(caller)
  PROVE  IInv'
BY ClientKeeps DEF CallerDies, IInv

\* request/5 and cast/4 hand a submission to the broker.
LEMMA TransmitKeeps ==
  ASSUME IInv, UNCHANGED owed, NEW c \in Client, c.status = "up", c.answers = client.answers,
         NEW s \in Submission, Transmit(c, s), client.status = "up",
         s.kind = "request" => /\ s.txid \in TxId /\ client.pending[s.txid] = None
                               /\ c.pending[s.txid] # None /\ c.pending[s.txid].id = Len(submitted) + 1,
         \A t \in TxId : c.pending[t] = client.pending[t] \/ (s.kind = "request" /\ t = s.txid)
  PROVE  IInv'
<1> DEFINE new == Len(submitted) + 1  d == client'
<1>1. submitted \in Seq(Submission) /\ Len(submitted) \in Nat /\ Len(submitted) < MaxSubmissions /\ MaxSubmissions \in Nat
  BY ClientAssumption DEF IInv, Types, Transmit
<1>2. new \in Ids /\ new \notin Known
  BY <1>1 DEF Ids, Known
<1>3. /\ submitted' = Append(submitted, s) /\ d = [c EXCEPT !.sends = c.sends \cup {new}]
      /\ broker' = IF broker.up THEN [broker EXCEPT !.queue = Append(broker.queue, new)] ELSE broker
      /\ inbox' = IF broker.up THEN inbox ELSE inbox \o <<Message("down", None, None, None)>>
  BY DEF Transmit, Send
<1>4. /\ submitted' \in Seq(Submission) /\ Len(submitted') = new /\ submitted'[new] = s
      /\ \A id \in Known : submitted'[id] = submitted[id]
  <2> HIDE DEF Submission
  <2> QED
    BY <1>1, <1>3 DEF Known
<1>5. Known' = Known \cup {new}
  BY <1>1, <1>4 DEF Known
<1>6. /\ Requests \subseteq Requests' /\ Requests' \subseteq Requests \cup {new}
      /\ new \in Requests' => s.kind = "request"
      /\ Requests \subseteq Known
  BY <1>2, <1>4, <1>5 DEF Requests, Known
<1>7. d \in Client /\ d.status = "up" /\ d.answers = client.answers /\ d.pending = c.pending
  <2> HIDE DEF d, new
  <2> QED
    BY ONLY c \in Client, c.status = "up", c.answers = client.answers, <1>2, <1>3 DEF Client
<1> HIDE DEF d
<1>8. /\ broker' \in [up : BOOLEAN, queue : Seq(Ids), active : Ids \cup {None}] /\ broker'.active = broker.active
      /\ \A n \in 1 .. Len(broker'.queue) :
           \/ n \in 1 .. Len(broker.queue) /\ broker'.queue[n] = broker.queue[n]
           \/ n = Len(broker.queue) + 1 /\ broker'.queue[n] = new
  <2>1. CASE broker.up
    <3>1. broker' = [broker EXCEPT !.queue = Append(broker.queue, new)]
      BY <1>3, <2>1
    <3> DEFINE longer == Append(broker.queue, new)
    <3>2. /\ longer \in Seq(Ids)
          /\ \A n \in 1 .. Len(longer) :
               \/ n \in 1 .. Len(broker.queue) /\ longer[n] = broker.queue[n]
               \/ n = Len(broker.queue) + 1 /\ longer[n] = new
      <4> HIDE DEF new
      <4> QED
        BY <1>2, BrokerFacts
    <3> HIDE DEF longer
    <3>3. broker'.queue = longer /\ broker'.active = broker.active
          /\ broker' \in [up : BOOLEAN, queue : Seq(Ids), active : Ids \cup {None}]
      BY <3>1, <3>2, BrokerFacts DEF longer
    <3> QED
      BY <3>2, <3>3
  <2>2. CASE ~broker.up
    BY <1>3, <2>2, BrokerFacts
  <2> QED
    BY <2>1, <2>2
<1> HIDE DEF new
<1>9. /\ Queued' \subseteq Queued \cup {new} /\ Queued \subseteq Known /\ owed \subseteq Known
      /\ \A n \in 1 .. Len(broker'.queue) : broker'.queue[n] \in Known'
      /\ \A i, j \in 1 .. Len(broker'.queue) : broker'.queue[i] = broker'.queue[j] => i = j
  <2>1. Queued' \subseteq Queued \cup {new}
    BY <1>8 DEF Queued
  <2>2. Queued \subseteq Known /\ owed \subseteq Known
    BY <1>6, BrokerFacts DEF Queued, IInv, Types
  <2>3. \A n \in 1 .. Len(broker'.queue) : broker'.queue[n] \in Known'
    BY <1>5, <1>8, BrokerFacts
  <2>4. ASSUME NEW i \in 1 .. Len(broker'.queue), NEW j \in 1 .. Len(broker'.queue),
               broker'.queue[i] = broker'.queue[j]
        PROVE  i = j
    <3>1. CASE i \in 1 .. Len(broker.queue) /\ j \in 1 .. Len(broker.queue)
      <4>1. broker'.queue[i] = broker.queue[i] /\ broker'.queue[j] = broker.queue[j]
        BY <1>8, <3>1, BrokerFacts
      <4> QED
        BY <2>4, <3>1, <4>1, BrokerFacts
    <3>2. CASE i = Len(broker.queue) + 1 /\ j = Len(broker.queue) + 1
      BY <3>2
    <3>3. CASE i \in 1 .. Len(broker.queue) /\ j = Len(broker.queue) + 1
      <4>1. broker'.queue[i] \in Known /\ broker'.queue[j] = new
        BY <1>8, <3>3, BrokerFacts
      <4> QED
        BY <1>2, <2>4, <4>1
    <3>4. CASE i = Len(broker.queue) + 1 /\ j \in 1 .. Len(broker.queue)
      <4>1. broker'.queue[j] \in Known /\ broker'.queue[i] = new
        BY <1>8, <3>4, BrokerFacts
      <4> QED
        BY <1>2, <2>4, <4>1
    <3> QED
      BY <1>8, <3>1, <3>2, <3>3, <3>4
  <2> QED
    BY <2>1, <2>2, <2>3, <2>4
<1>10. /\ inbox' \in Seq(Mail) /\ OnePlace(inbox') /\ Settled(inbox') = Settled(inbox)
       /\ \A n \in 1 .. Len(inbox') : Proper(inbox'[n])
  <2> DEFINE m == Message("down", None, None, None)
  <2>1. inbox \in Seq(Mail) /\ OnePlace(inbox) /\ \A n \in 1 .. Len(inbox) : Proper(inbox[n])
    BY DEF IInv, Types, Unique
  <2>2. CASE broker.up
    BY <1>3, <2>1, <2>2
  <2>3. CASE ~broker.up
    <3>1. m \in Mail /\ ~Settles(m) /\ Proper(m)
      BY DEF Message, Mail, Settles, Proper
    <3> HIDE DEF m
    <3>2. /\ <<m>> \in Seq(Mail) /\ OnePlace(<<m>>) /\ (\A k \in 1 .. Len(<<m>>) : <<m>>[k] = m)
          /\ Settled(<<m>>) = {}
      BY <3>1, OneFacts
    <3> DEFINE all == inbox \o <<m>>
    <3>3. /\ all \in Seq(Mail) /\ OnePlace(all) /\ Settled(all) = Settled(inbox) \cup Settled(<<m>>)
          /\ \A n \in 1 .. Len(all) : \/ \E k \in 1 .. Len(inbox) : all[n] = inbox[k]
                                      \/ \E k \in 1 .. Len(<<m>>) : all[n] = <<m>>[k]
      BY <2>1, <3>2, SendFacts
    <3>4. inbox' = all
      BY <1>3, <2>3 DEF m
    <3> HIDE DEF all
    <3>5. \A n \in 1 .. Len(all) : Proper(all[n])
      BY <2>1, <3>1, <3>2, <3>3
    <3> QED
      BY <3>2, <3>3, <3>4, <3>5
  <2> QED
    BY <2>2, <2>3
<1>11. Settled(inbox) \subseteq Known
  <2>1. \A n \in 1 .. Len(inbox) : Settles(inbox[n]) => inbox[n].id \in Known
    BY <1>6 DEF IInv, Types, Proper, Settles
  <2> QED
    BY <2>1 DEF Settled
<1>12. Types'
  <2>1. \A n \in 1 .. Len(inbox') : Proper(inbox[n])'
    <3>1. ASSUME NEW n \in 1 .. Len(inbox') PROVE Proper(inbox[n])'
      <4> DEFINE m == inbox'[n]
      <4>1. Proper(m)
        BY <1>10, <3>1
      <4>2. /\ m.kind = "result" => m.id \in Known'
            /\ m.kind = "frame" /\ m.result = "decoded" /\ m.txid \in TxId =>
                 m.id \in Requests' /\ submitted'[m.id].txid = m.txid
        BY <1>4, <1>5, <1>6, <4>1 DEF Proper
      <4> QED
        BY <4>2 DEF Proper
    <3> QED
      BY <3>1
  <2>2. \A id \in Requests' : submitted'[id].txid \in TxId
    BY <1>4, <1>6 DEF IInv, Types
  <2>3. broker'.active # None => broker'.active \in Known'
    BY <1>5, <1>8, BrokerFacts
  <2>4. Len(submitted') <= MaxSubmissions /\ owed' \subseteq Requests'
    BY <1>2, <1>4, <1>6 DEF Ids, IInv, Types
  <2> QED
    BY <1>4, <1>8, <1>9, <1>10, <2>1, <2>2, <2>3, <2>4 DEF Types
<1>13. Unique'
  <2>1. Queued' \cap owed' = {} /\ Settled(inbox)' \cap (Queued' \cup owed') = {}
    <3>1. Settled(inbox)' = Settled(inbox)
      BY <1>10 DEF Settled
    <3> QED
      BY <1>2, <1>9, <1>11, <3>1 DEF IInv, Unique
  <2>2. OnePlace(inbox)'
    BY <1>10 DEF OnePlace
  <2> QED
    BY <1>9, <2>1, <2>2 DEF Unique
<1>14. UnderWay' \subseteq UnderWay \cup {new}
  <2>1. Settled(inbox)' = Settled(inbox)
    BY <1>10 DEF Settled
  <2> QED
    BY <1>9, <2>1 DEF UnderWay
<1>15. Slots(client)'
  <2>1. ASSUME NEW t \in TxId, d.pending[t] # None
        PROVE  /\ d.pending[t].id \in Requests' /\ submitted'[d.pending[t].id].txid = t
               /\ d.answers[d.pending[t].id] = << >> /\ d.status = "up"
    <3>1. CASE c.pending[t] = client.pending[t]
      <4>1. /\ client.pending[t].id \in Requests /\ submitted[client.pending[t].id].txid = t
            /\ client.answers[client.pending[t].id] = << >>
        BY <1>7, <2>1, <3>1 DEF IInv, Good, Slots
      <4> QED
        BY <1>4, <1>6, <1>7, <3>1, <4>1
    <3>2. CASE s.kind = "request" /\ t = s.txid
      <4>1. d.pending[t].id = new /\ new \in Requests'
        BY <1>4, <1>5, <1>7, <3>2 DEF Requests, Known, new
      <4>2. client.answers[new] = << >>
        BY <1>2 DEF IInv, Good, Answers
      <4> QED
        BY <1>4, <1>7, <3>2, <4>1, <4>2
    <3> QED
      BY <3>1, <3>2
  <2> QED
    BY <2>1 DEF Slots, d
<1>16. Answers(client)'
  <2>1. \A id \in Ids :
          /\ id \notin Known' => d.answers[id] = << >>
          /\ Len(d.answers[id]) <= 1
          /\ \A n \in 1 .. Len(d.answers[id]) : d.answers[id][n].kind = "reply" => d.answers[id][n].of = id
    BY <1>5, <1>7 DEF IInv, Good, Answers
  <2> QED
    BY <2>1 DEF Answers, d
<1>17. Holds(client, UnderWay)'
  <2>1. ASSUME NEW id \in UnderWay' \cap Requests'
        PROVE  d.pending[submitted'[id].txid] # None /\ d.pending[submitted'[id].txid].id = id
    <3>1. CASE id = new
      BY <1>4, <1>6, <1>7, <2>1, <3>1 DEF new
    <3>2. CASE id # new
      <4>1. id \in UnderWay \cap Requests /\ submitted[id].txid \in TxId /\ submitted'[id] = submitted[id]
        BY <1>4, <1>6, <1>14, <2>1, <3>2 DEF IInv, Types
      <4>2. client.pending[submitted[id].txid] # None /\ client.pending[submitted[id].txid].id = id
        BY <4>1 DEF IInv, Holds
      <4>3. c.pending[submitted[id].txid] = client.pending[submitted[id].txid]
        BY <4>1, <4>2
      <4> QED
        BY <1>7, <4>1, <4>2, <4>3
    <3> QED
      BY <3>1, <3>2
  <2> QED
    BY <2>1 DEF Holds, d
<1> QED
  BY <1>7, <1>12, <1>13, <1>15, <1>16, <1>17 DEF IInv, Good, d

LEMMA RequestKeeps ==
  ASSUME IInv, NEW caller \in Caller, Request(caller)
  PROVE  IInv'
<1> DEFINE txid == FreeSlot(client)  new == Len(submitted) + 1
           entry == [id |-> new, from |-> caller]
           s == [kind |-> "request", txid |-> txid, from |-> caller]
           held == [client.pending EXCEPT ![txid] = entry]
           c == [client EXCEPT !.next = (txid + 1) % Capacity, !.pending = held]
<1>1. /\ client.status = "up" /\ Occupied(client) # TxId /\ Transmit(c, s) /\ UNCHANGED owed
      /\ client \in Client
  BY DEF Request, IInv, Good
<1>2. txid \in TxId \ Occupied(client)
  BY <1>1, FreeSlotIsFree
<1> HIDE DEF txid
<1>3. new \in Ids
  BY <1>1, ClientAssumption DEF Transmit, IInv, Types, Ids
<1> HIDE DEF new
<1>4. entry \in Entry /\ entry.id = new /\ entry # None
  BY <1>3, NoneAssumption DEF Entry, Ids
<1>5. s \in Submission /\ s.txid = txid /\ s.kind = "request"
  BY <1>2 DEF Submission
<1>6. (txid + 1) % Capacity \in TxId
  BY <1>2, ClientAssumption DEF TxId
<1>7. client.pending \in [TxId -> Entry \cup {None}]
  BY <1>1 DEF Client
<1> HIDE DEF entry
<1>8. /\ held \in [TxId -> Entry \cup {None}] /\ held[txid] = entry
      /\ \A t \in TxId : t # txid => held[t] = client.pending[t]
  BY <1>2, <1>4, <1>7
<1> HIDE DEF held
<1>9. c \in Client /\ c.status = "up" /\ c.answers = client.answers /\ c.pending = held
  BY <1>1, <1>6, <1>8 DEF Client
<1> HIDE DEF c, s
<1>10. client.pending[txid] = None
  BY <1>2 DEF Occupied
<1> QED
  BY <1>1, <1>2, <1>4, <1>5, <1>8, <1>9, <1>10, TransmitKeeps DEF new

LEMMA CastKeeps ==
  ASSUME IInv, Cast
  PROVE  IInv'
<1> DEFINE s == [kind |-> "cast", txid |-> CastId, from |-> None]
<1>1. client.status = "up" /\ client \in Client /\ UNCHANGED owed /\ s \in Submission /\ s.kind = "cast"
  BY DEF Cast, IInv, Good, Submission
<1>2. CASE Transmit(client, s)
  <2> HIDE DEF s
  <2> QED
    BY <1>1, <1>2, TransmitKeeps
<1>3. CASE client' = Fail(client) /\ UNCHANGED <<submitted, broker, inbox>>
  BY <1>1, <1>3, FailKeeps, ClientKeeps DEF IInv
<1> QED
  BY <1>2, <1>3 DEF Cast

\* The client takes a message: what it settled is no longer under way.
LEMMA TakeFacts ==
  ASSUME IInv, inbox # << >>, inbox' = Tail(inbox), UNCHANGED <<submitted, broker, owed>>
  PROVE  /\ UnderWay' \subseteq UnderWay /\ Proper(Head(inbox)) /\ Head(inbox) \in Mail
         /\ Settles(Head(inbox)) => Head(inbox).id \in UnderWay \ UnderWay'
         /\ Types' /\ Unique' /\ Requests' = Requests /\ Known' = Known
<1>1. inbox \in Seq(Mail) /\ OnePlace(inbox) /\ \A n \in 1 .. Len(inbox) : Proper(inbox[n])
  BY DEF IInv, Types, Unique
<1> DEFINE rest == Tail(inbox)
<1>2. /\ OnePlace(rest) /\ Settled(rest) \subseteq Settled(inbox)
      /\ Settles(Head(inbox)) => Head(inbox).id \in Settled(inbox) \ Settled(rest)
      /\ \A n \in 1 .. Len(rest) : \E k \in 1 .. Len(inbox) : rest[n] = inbox[k]
      /\ rest \in Seq(Mail) /\ Head(inbox) = inbox[1] /\ 1 \in 1 .. Len(inbox)
  BY <1>1, TailFacts
<1>3. inbox' = rest
  OBVIOUS
<1> HIDE DEF rest
<1>4. Requests' = Requests /\ Known' = Known /\ Queued' = Queued /\ Settled(inbox)' = Settled(rest)
  BY <1>3 DEF Requests, Known, Queued, Settled
<1>5. Proper(Head(inbox)) /\ Head(inbox) \in Mail
  BY <1>1, <1>2
<1>6. Settled(inbox) \cap (Queued \cup owed) = {}
  BY DEF IInv, Unique
<1>7. UnderWay' = Queued \cup owed \cup Settled(rest)
  BY <1>4 DEF UnderWay
<1>8. Types'
  <2>1. \A n \in 1 .. Len(rest) : Proper(rest[n])
    BY <1>1, <1>2
  <2>2. \A n \in 1 .. Len(inbox') : Proper(inbox[n])'
    BY <1>3, <1>4, <2>1 DEF Proper
  <2> QED
    BY <1>2, <1>3, <1>4, <2>2 DEF IInv, Types
<1>9. Unique'
  <2>1. OnePlace(inbox)'
    BY <1>2, <1>3 DEF OnePlace
  <2> QED
    BY <1>2, <1>4, <1>6, <2>1 DEF IInv, Unique
<1> QED
  BY <1>2, <1>4, <1>5, <1>6, <1>7, <1>8, <1>9 DEF UnderWay

LEMMA HandleKeeps ==
  ASSUME IInv, Handle
  PROVE  IInv'
<1> DEFINE m == Head(inbox)
<1>1. inbox # << >> /\ inbox' = Tail(inbox) /\ UNCHANGED <<submitted, broker, owed>>
  BY DEF Handle
<1>2. /\ UnderWay' \subseteq UnderWay /\ Proper(m) /\ m \in Mail
      /\ Settles(m) => m.id \in UnderWay \ UnderWay'
      /\ Types' /\ Unique' /\ Requests' = Requests /\ Known' = Known
  BY <1>1, TakeFacts
<1>3. Types /\ Good(client) /\ Holds(client, UnderWay) /\ Holds(client, UnderWay')
  BY <1>2 DEF IInv, Holds
<1>4. client' = CASE m.kind = "frame" -> ReceiveReply(client, m.txid, m.result = "decoded", m.id)
                  [] m.kind = "down" -> Fail(client)
                  [] m.kind = "result" /\ m.id \in client.sends -> Sent(client, m.id, m.result)
                  [] OTHER -> client
  BY DEF Handle
<1> DEFINE left == UnderWay'
<1>5. /\ left \subseteq UnderWay /\ Holds(client, left) /\ (Settles(m) => m.id \in UnderWay \ left)
  BY <1>2, <1>3
<1> HIDE DEF m, left
<1>6. ASSUME m.kind = "frame", m.result = "decoded", m.txid \in Occupied(client)
      PROVE  Good(Finish(client, m.txid, Reply(m.id))) /\ Holds(Finish(client, m.txid, Reply(m.id)), left)
  <2>1. m.txid \in TxId /\ client.pending[m.txid] # None
    BY <1>6 DEF Occupied
  <2>2. Settles(m) /\ m.id \in Requests /\ submitted[m.id].txid = m.txid
    BY <1>2, <1>6, <2>1 DEF Settles, Proper
  <2>3. client.status = "up"
    BY <1>3, <2>1 DEF Good, Slots
  <2>4. client.pending[m.txid].id = m.id
    BY <1>3, <1>5, <2>2, <2>3 DEF Holds
  <2>5. Reply(m.id) \in Answer /\ Reply(m.id).of = m.id
    <3>1. m.id \in Ids
      BY <2>2, BrokerFacts DEF Requests, Known
    <3> QED
      BY <3>1 DEF Reply, Answer
  <2>6. left \subseteq UnderWay \ {client.pending[m.txid].id}
    BY <1>5, <2>2, <2>4
  <2> QED
    BY <1>3, <2>1, <2>4, <2>5, <2>6, FinishKeeps
<1>7. ASSUME m.kind = "result", m.id \in client.sends
      PROVE  Good(Sent(client, m.id, m.result)) /\ Holds(Sent(client, m.id, m.result), left)
  <2> DEFINE fewer == client.sends \ {m.id}  rest == [client EXCEPT !.sends = fewer]
  <2>1. fewer \in SUBSET Ids
    BY <1>3 DEF Good, Client
  <2> HIDE DEF fewer
  <2>2. Good(rest) /\ Holds(rest, UnderWay) /\ rest.pending = client.pending /\ rest.status = client.status
    BY <1>3, <2>1, SendsKeep
  <2>3. Good(rest) /\ Holds(rest, left)
    BY <1>3, <1>5, <2>1, SendsKeep
  <2>4. CASE m.result = "ok"
    <3>1. Sent(client, m.id, m.result) = rest
      BY <2>4 DEF Sent, fewer
    <3> QED
      BY <2>3, <3>1
  <2>5. CASE m.result = "not_sent" /\ submitted[m.id].kind = "request"
    <3> DEFINE t == submitted[m.id].txid
    <3>1. m.id \in Requests /\ t \in TxId /\ Settles(m)
      BY <1>2, <1>3, <1>7, <2>5 DEF Proper, Requests, Known, Types, Settles
    <3>2. CASE client.pending[t] # None /\ client.pending[t].id = m.id
      <4>1. Sent(client, m.id, m.result) = Finish(rest, t, NotSent)
        BY <2>5, <3>2 DEF Sent, fewer
      <4>2. NotSent \in Answer /\ NotSent.kind # "reply"
        BY DEF NotSent, Answer
      <4>3. rest.pending[t] # None /\ left \subseteq UnderWay \ {rest.pending[t].id}
        BY <1>5, <2>2, <3>1, <3>2
      <4> HIDE DEF rest, t
      <4>4. Good(Finish(rest, t, NotSent)) /\ Holds(Finish(rest, t, NotSent), left)
        BY <1>3, <2>2, <3>1, <4>2, <4>3, FinishKeeps
      <4> QED
        BY <4>1, <4>4
    <3>3. CASE ~(client.pending[t] # None /\ client.pending[t].id = m.id)
      <4>1. Sent(client, m.id, m.result) = rest
        BY <2>5, <3>3 DEF Sent, fewer
      <4> QED
        BY <2>3, <4>1
    <3> QED
      BY <3>2, <3>3
  <2>6. CASE m.result # "ok" /\ ~(m.result = "not_sent" /\ submitted[m.id].kind = "request")
    <3>1. Sent(client, m.id, m.result) = Fail(rest)
      BY <2>6 DEF Sent, fewer
    <3> HIDE DEF rest
    <3>2. Good(Fail(rest)) /\ Holds(Fail(rest), left)
      BY <1>3, <2>3, FailKeeps
    <3> QED
      BY <3>1, <3>2
  <2> QED
    BY <2>4, <2>5, <2>6
<1>8. Good(Fail(client)) /\ Holds(Fail(client), left)
  BY <1>3, FailKeeps
<1>9. Good(client') /\ Holds(client', left)
  <2>1. CASE m.kind = "frame"
    <3>1. client' = ReceiveReply(client, m.txid, m.result = "decoded", m.id)
      BY <1>4, <2>1
    <3>2. client' = IF m.result = "decoded" /\ m.txid \in Occupied(client)
                    THEN Finish(client, m.txid, Reply(m.id)) ELSE client
      BY <3>1 DEF ReceiveReply
    <3> QED
      BY <1>3, <1>5, <1>6, <2>1, <3>2
  <2>2. CASE m.kind = "down"
    BY <1>4, <1>8, <2>2
  <2>3. CASE m.kind = "result" /\ m.id \in client.sends
    BY <1>4, <1>7, <2>3
  <2>4. CASE ~(m.kind = "frame" \/ m.kind = "down" \/ (m.kind = "result" /\ m.id \in client.sends))
    BY <1>3, <1>4, <1>5, <2>4
  <2> QED
    BY <2>1, <2>2, <2>3, <2>4
<1>10. Good(client)'
  BY <1>1, <1>2, <1>9 DEF Good, Slots, Answers
<1>11. Holds(client, UnderWay)'
  BY <1>1, <1>2, <1>9 DEF Holds, left
<1> QED
  BY <1>2, <1>10, <1>11 DEF IInv

-----------------------------------------------------------------------------
(* The specification.                                                      *)

LEMMA InitHolds == Init => IInv
<1> SUFFICES ASSUME Init PROVE IInv
  OBVIOUS
<1>1. client \in Client /\ Slots(client) /\ Answers(client)
  BY ClientAssumption DEF Init, Client, Slots, Answers, TxId
<1>2. Requests = {} /\ Known = {} /\ Queued = {} /\ Settled(inbox) = {} /\ OnePlace(inbox)
  BY DEF Init, Requests, Known, Queued, Settled, OnePlace
<1>3. Types
  BY <1>2, ClientAssumption DEF Init, Types
<1>4. Unique /\ Holds(client, UnderWay)
  BY <1>2 DEF Init, Unique, Holds
<1> QED
  BY <1>1, <1>3, <1>4 DEF IInv, Good

LEMMA NextKeeps == IInv /\ [Next]_vars => IInv'
<1> SUFFICES ASSUME IInv, [Next]_vars PROVE IInv'
  OBVIOUS
<1>1. ASSUME NEW caller \in Caller, Request(caller) \/ CallerDown(caller) \/ CallerDies(caller)
      PROVE  IInv'
  BY <1>1, RequestKeeps, CallerDownKeeps, CallerDiesKeeps
<1>2. CASE Cast \/ Handle \/ BrokerDown
  BY <1>2, CastKeeps, HandleKeeps, BrokerDownKeeps
<1>3. CASE BrokerTransmits \/ BrokerCompletes \/ BrokerStops \/ BrokerKilled
  BY <1>3, BrokerTransmitsKeeps, BrokerCompletesKeeps, BrokerStopsKeeps, BrokerKilledKeeps
<1>4. CASE (\E n \in Ids : BrokerRejects(n)) \/ (\E id \in Ids : DeviceReplies(id)) \/ StrayFrame
  BY <1>4, BrokerRejectsKeeps, DeviceRepliesKeeps, StrayFrameKeeps
<1>5. CASE UNCHANGED vars
  BY <1>5, ClientKeeps DEF vars, IInv
<1> QED
  BY <1>1, <1>2, <1>3, <1>4, <1>5 DEF Next

\* While a request is under way and the proxy is up, its slot is its own, so
\* a transaction ID is never lent to a second request before the first is
\* settled (request/5 and free_slot/3 against receive_reply/5 and sent/3).
THEOREM SlotsAreHeld == Spec => []IInv
<1> QED
  BY InitHolds, NextKeeps, PTL DEF Spec

\* A late reply never satisfies a newer caller: whatever a caller hears as
\* its reply is the device's reply to its request, and no request is answered
\* twice, for any capacity, through any races of reply, rejection, failure
\* and death (docs/host-transactions.md; receive_frame/6, sent/3, fail/2).
THEOREM RepliesAreMatched == Spec => []RepliesMatch
<1>1. IInv => RepliesMatch
  <2> SUFFICES ASSUME IInv PROVE RepliesMatch
    OBVIOUS
  <2>1. ASSUME NEW id \in Ids
        PROVE  /\ Len(client.answers[id]) <= 1
               /\ \A n \in 1 .. Len(client.answers[id]) :
                    client.answers[id][n].kind = "reply" => client.answers[id][n].of = id
    BY DEF IInv, Good, Answers
  <2>2. ASSUME NEW id \in Ids, NEW n \in 1 .. MaxSubmissions, n <= Len(client.answers[id])
        PROVE  n \in 1 .. Len(client.answers[id])
    <3>1. client.answers[id] \in Seq(Answer) /\ MaxSubmissions \in Nat
      BY ClientAssumption DEF IInv, Good, Client
    <3> QED
      BY <2>2, <3>1
  <2> QED
    BY <2>1, <2>2 DEF RepliesMatch
<1> QED
  BY <1>1, SlotsAreHeld, PTL

-----------------------------------------------------------------------------
(* No slot leaks.                                                          *)

\* What is still true while client and broker run: each submission that is
\* not done is in one place and has its send outstanding, a rejection is the
\* message that says not_sent, and a slot in use belongs to a request on its way.
Reported(mail) == {mail[n].id : n \in {k \in 1 .. Len(mail) : mail[k].kind = "result"}}

OneReport(mail) ==
  \A i, j \in 1 .. Len(mail) :
    mail[i].kind = "result" /\ mail[j].kind = "result" /\ mail[i].id = mail[j].id => i = j

Says(m, refused) ==
  /\ m.kind = "result" => (m.result = "not_sent" <=> m.id \in refused)
  /\ m.kind = "frame" /\ m.id # None => m.result = "decoded" /\ m.txid \in TxId

Written == {broker.active} \ {None}

Posted ==
  /\ rejected \subseteq Known
  /\ OneReport(inbox) /\ \A n \in 1 .. Len(inbox) : Says(inbox[n], rejected)
  /\ Queued \cap (Written \cup Reported(inbox) \cup rejected) = {}
  /\ Written \cap (Reported(inbox) \cup rejected) = {}

Expected(c) == Queued \cup Written \cup Reported(inbox) \subseteq c.sends

Used(c, ids) == \A t \in TxId : c.pending[t] # None => c.pending[t].id \in ids

Limited(c) == IsFiniteSet(c.sends) /\ Cardinality(c.sends) <= SendLimit

Open == client.status = "up" /\ broker.up

Accounts ==
  /\ IInv /\ Limited(client)
  /\ Open => Posted /\ Expected(client) /\ Used(client, UnderWay)

\* The queue without one of its submissions.
Differing(queue) == \A i, j \in 1 .. Len(queue) : queue[i] = queue[j] => i = j

Less(rest, queue, n) ==
  /\ Len(rest) = Len(queue) - 1
  /\ \A k \in 1 .. Len(rest) : rest[k] = queue[IF k < n THEN k ELSE k + 1]

LEMMA QueueLess ==
  ASSUME NEW queue \in Seq(Ids), NEW rest \in Seq(Ids), NEW n \in 1 .. Len(queue),
         Differing(queue), Less(rest, queue, n)
  PROVE  Elements(rest) = Elements(queue) \ {queue[n]}
<1> USE DEF Differing, Less
<1>1. Len(queue) \in Nat /\ Len(rest) \in Nat
  OBVIOUS
<1>2. ASSUME NEW k \in 1 .. Len(rest) PROVE rest[k] \in Elements(queue) \ {queue[n]}
  <2>1. CASE k < n
    <3>1. rest[k] = queue[k] /\ k \in 1 .. Len(queue) /\ k # n
      BY <1>1, <2>1
    <3> QED
      BY <3>1 DEF Elements
  <2>2. CASE ~(k < n)
    <3>1. rest[k] = queue[k + 1] /\ k + 1 \in 1 .. Len(queue) /\ k + 1 # n
      BY <1>1, <2>2
    <3> QED
      BY <3>1 DEF Elements
  <2> QED
    BY <2>1, <2>2
<1>3. ASSUME NEW k \in 1 .. Len(queue), k # n PROVE queue[k] \in Elements(rest)
  <2>1. CASE k < n
    <3>1. k \in 1 .. Len(rest) /\ rest[k] = queue[k]
      BY <1>1, <2>1
    <3> QED
      BY <3>1 DEF Elements
  <2>2. CASE ~(k < n)
    <3>1. k - 1 \in 1 .. Len(rest) /\ ~(k - 1 < n) /\ (k - 1) + 1 = k
      BY <1>1, <1>3, <2>2
    <3>2. rest[k - 1] = queue[k]
      BY <3>1
    <3> QED
      BY <3>1, <3>2 DEF Elements
  <2> QED
    BY <2>1, <2>2
<1>4. Elements(rest) \subseteq Elements(queue) \ {queue[n]}
  <2>1. ASSUME NEW x \in Elements(rest) PROVE x \in Elements(queue) \ {queue[n]}
    <3>1. PICK k \in 1 .. Len(rest) : x = rest[k]
      BY DEF Elements
    <3> QED
      BY <1>2, <3>1
  <2> QED
    BY <2>1
<1>5. Elements(queue) \ {queue[n]} \subseteq Elements(rest)
  <2>1. ASSUME NEW x \in Elements(queue), x # queue[n] PROVE x \in Elements(rest)
    <3>1. PICK k \in 1 .. Len(queue) : x = queue[k]
      BY DEF Elements
    <3> QED
      BY <1>3, <2>1, <3>1
  <2> QED
    BY <2>1
<1> QED
  BY <1>4, <1>5

\* A message joins the mailbox.
LEMMA MailGrows ==
  ASSUME NEW mail \in Seq(Mail), NEW m \in Mail, OneReport(mail),
         NEW before, NEW after, \A n \in 1 .. Len(mail) : Says(mail[n], before),
         m.kind = "result" => m.id \notin Reported(mail), Says(m, after),
         \A id \in Reported(mail) : id \in before <=> id \in after
  PROVE  LET more == mail \o <<m>> IN
         /\ OneReport(more) /\ \A n \in 1 .. Len(more) : Says(more[n], after)
         /\ Reported(more) = Reported(mail) \cup (IF m.kind = "result" THEN {m.id} ELSE {})
<1> DEFINE more == mail \o <<m>>  last == Len(mail) + 1
<1>1. /\ Len(mail) \in Nat /\ Len(more) = last /\ more[last] = m
      /\ \A n \in 1 .. Len(mail) : more[n] = mail[n]
  <2> HIDE DEF Mail
  <2> QED
    OBVIOUS
<1> HIDE DEF more
<1>2. \A n \in 1 .. Len(more) : n \in 1 .. Len(mail) \/ n = last
  BY <1>1
<1>3. \A n \in 1 .. Len(mail) : n \in 1 .. Len(more) /\ n # last
  BY <1>1
<1>4. last \in 1 .. Len(more)
  BY <1>1
<1> HIDE DEF last
<1>5. \A n \in 1 .. Len(mail) : mail[n].kind = "result" => mail[n].id \in Reported(mail)
  BY DEF Reported
<1>6. OneReport(more)
  <2>1. ASSUME NEW i \in 1 .. Len(more), NEW j \in 1 .. Len(more),
               more[i].kind = "result", more[j].kind = "result", more[i].id = more[j].id
        PROVE  i = j
    <3>1. CASE i \in 1 .. Len(mail) /\ j \in 1 .. Len(mail)
      BY <1>1, <2>1, <3>1 DEF OneReport
    <3>2. CASE i = last /\ j \in 1 .. Len(mail)
      BY <1>1, <1>5, <2>1, <3>2
    <3>3. CASE i \in 1 .. Len(mail) /\ j = last
      BY <1>1, <1>5, <2>1, <3>3
    <3>4. CASE i = last /\ j = last
      BY <3>4
    <3> QED
      BY <1>2, <3>1, <3>2, <3>3, <3>4
  <2> QED
    BY <2>1 DEF OneReport
<1>7. ASSUME NEW n \in 1 .. Len(more) PROVE Says(more[n], after)
  <2>1. CASE n \in 1 .. Len(mail)
    BY <1>1, <1>5, <2>1 DEF Says
  <2>2. CASE n = last
    BY <1>1, <2>2
  <2> QED
    BY <1>2, <2>1, <2>2
<1>8. Reported(more) = Reported(mail) \cup (IF m.kind = "result" THEN {m.id} ELSE {})
  <2>1. Reported(mail) \subseteq Reported(more)
    BY <1>1, <1>3 DEF Reported
  <2>2. m.kind = "result" => m.id \in Reported(more)
    BY <1>1, <1>4 DEF Reported
  <2>3. Reported(more) \subseteq Reported(mail) \cup (IF m.kind = "result" THEN {m.id} ELSE {})
    BY <1>1, <1>2 DEF Reported
  <2> QED
    BY <2>1, <2>2, <2>3
<1> QED
  BY <1>6, <1>7, <1>8 DEF more

\* The first message is taken.
LEMMA MailShrinks ==
  ASSUME NEW mail \in Seq(Mail), mail # << >>, OneReport(mail), NEW refused,
         \A n \in 1 .. Len(mail) : Says(mail[n], refused)
  PROVE  LET rest == Tail(mail)  m == Head(mail) IN
         /\ OneReport(rest) /\ \A n \in 1 .. Len(rest) : Says(rest[n], refused)
         /\ Reported(rest) \subseteq Reported(mail) /\ Says(m, refused)
         /\ m.kind = "result" => m.id \in Reported(mail) \ Reported(rest)
<1> DEFINE rest == Tail(mail)  m == Head(mail)
<1>1. /\ m = mail[1] /\ 1 \in 1 .. Len(mail)
      /\ \A n \in 1 .. Len(rest) : n + 1 \in 1 .. Len(mail) /\ rest[n] = mail[n + 1] /\ n + 1 # 1 /\ n \in Int
  <2> HIDE DEF Mail
  <2> QED
    OBVIOUS
<1> HIDE DEF rest, m
<1>2. OneReport(rest)
  <2>1. ASSUME NEW i \in 1 .. Len(rest), NEW j \in 1 .. Len(rest),
               rest[i].kind = "result", rest[j].kind = "result", rest[i].id = rest[j].id
        PROVE  i = j
    <3>1. i + 1 = j + 1
      BY <1>1, <2>1 DEF OneReport
    <3> QED
      BY <1>1, <3>1
  <2> QED
    BY <2>1 DEF OneReport
<1>3. \A n \in 1 .. Len(rest) : Says(rest[n], refused)
  BY <1>1
<1>4. Reported(rest) \subseteq Reported(mail) /\ Says(m, refused)
  BY <1>1 DEF Reported
<1>5. ASSUME m.kind = "result" PROVE m.id \in Reported(mail) \ Reported(rest)
  <2>1. m.id \in Reported(mail)
    BY <1>1, <1>5 DEF Reported
  <2>2. ASSUME NEW n \in 1 .. Len(rest), rest[n].kind = "result", rest[n].id = m.id PROVE FALSE
    BY <1>1, <1>5, <2>2 DEF OneReport
  <2> QED
    BY <2>1, <2>2 DEF Reported
<1> QED
  BY <1>2, <1>3, <1>4, <1>5 DEF rest, m

\* The broker and the device go on, and the client waits.
LEMMA WaitKeeps ==
  ASSUME Accounts, IInv', UNCHANGED <<client, submitted>>,
         Open' => Posted' /\ Expected(client)' /\ UnderWay \cap Requests \subseteq UnderWay',
         broker'.up => broker.up
  PROVE  Accounts'
<1>1. Limited(client)'
  BY DEF Accounts, Limited
<1>2. ASSUME Open' PROVE Used(client, UnderWay)'
  <2>1. Used(client, UnderWay)
    BY <1>2 DEF Accounts, Open
  <2>2. \A t \in TxId : client.pending[t] # None => client.pending[t].id \in Requests
    BY DEF Accounts, IInv, Good, Slots
  <2> QED
    BY <1>2, <2>1, <2>2 DEF Used
<1> QED
  BY <1>1, <1>2 DEF Accounts

\* A broker that is gone accounts for nothing.
LEMMA ClosedKeeps ==
  ASSUME Accounts, IInv', Limited(client)', ~Open'
  PROVE  Accounts'
BY DEF Accounts

\* transmit/5: the new submission joins the queue, and its send is outstanding.
LEMMA TransmitAccounts ==
  ASSUME Accounts, IInv', UNCHANGED <<owed, rejected>>, client.status = "up",
         NEW c, NEW s \in Submission, Transmit(c, s), c \in Client, c.sends = client.sends,
         Cardinality(client.sends) < SendLimit,
         \A t \in TxId : c.pending[t] # None =>
           c.pending[t] = client.pending[t] \/ c.pending[t].id = Len(submitted) + 1
  PROVE  Accounts'
<1> DEFINE new == Len(submitted) + 1  d == client'
<1>1. submitted \in Seq(Submission) /\ Len(submitted) \in Nat /\ new \in Ids
  BY ClientAssumption DEF Accounts, IInv, Types, Transmit, Ids
<1>2. new \notin Known /\ None # new
  BY <1>1, NoneAssumption DEF Known, Ids
<1>3. /\ submitted' = Append(submitted, s) /\ d = [c EXCEPT !.sends = c.sends \cup {new}]
      /\ broker' = IF broker.up THEN [broker EXCEPT !.queue = Append(broker.queue, new)] ELSE broker
      /\ broker.up => inbox' = inbox
  BY DEF Transmit
<1>4. Known' = Known \cup {new}
  <2>1. Len(submitted') = new
    <3> HIDE DEF Submission
    <3> QED
      BY <1>1, <1>3
  <2> QED
    BY <1>1, <2>1 DEF Known
<1>5. d.sends = client.sends \cup {new} /\ d.pending = c.pending
  BY <1>3 DEF Client
<1> HIDE DEF d, new
<1>6. Limited(client)'
  <2>1. IsFiniteSet(client.sends) /\ SendLimit \in Nat
    BY ClientAssumption DEF Accounts, Limited
  <2>2. IsFiniteSet(d.sends) /\ Cardinality(d.sends) <= Cardinality(client.sends) + 1
        /\ Cardinality(client.sends) \in Nat
    <3> DEFINE old == client.sends
    <3>1. IsFiniteSet(old) /\ Cardinality(old) \in Nat
      BY <2>1, FS_CardinalityType
    <3> HIDE DEF old
    <3>2. /\ IsFiniteSet(old \cup {new})
          /\ Cardinality(old \cup {new}) = Cardinality(old) \/ Cardinality(old \cup {new}) = Cardinality(old) + 1
      BY <3>1, FS_AddElement
    <3>3. d.sends = old \cup {new}
      BY <1>5 DEF old
    <3>4. Cardinality(old \cup {new}) <= Cardinality(old) + 1
      BY <3>1, <3>2
    <3> QED
      BY <3>1, <3>2, <3>3, <3>4 DEF old
  <2>3. Cardinality(d.sends) \in Nat
    BY <2>2, FS_CardinalityType
  <2>4. Cardinality(d.sends) <= SendLimit
    BY <2>1, <2>2, <2>3
  <2> QED
    BY <2>2, <2>4 DEF Limited, d
<1>7. ASSUME Open' PROVE Posted' /\ Expected(client)' /\ Used(client, UnderWay)'
  <2>1. broker.up
    BY <1>3, <1>7 DEF Open
  <2>2. /\ broker'.queue = Append(broker.queue, new) /\ broker'.active = broker.active
        /\ inbox' = inbox /\ broker.queue \in Seq(Ids)
    BY <1>3, <2>1, BrokerFacts DEF Accounts
  <2>3. Queued' = Queued \cup {new}
    <3>1. Elements(Append(broker.queue, new)) = Elements(broker.queue) \cup {new}
      <4> DEFINE queue == broker.queue  more == Append(queue, new)
      <4>1. /\ Len(more) = Len(queue) + 1 /\ more[Len(queue) + 1] = new /\ Len(queue) \in Nat
            /\ \A n \in 1 .. Len(queue) : more[n] = queue[n]
        BY <2>2
      <4> HIDE DEF more, queue
      <4>2. \A n \in 1 .. Len(more) : n \in 1 .. Len(queue) \/ n = Len(queue) + 1
        BY <4>1
      <4>3. Len(queue) + 1 \in 1 .. Len(more) /\ \A n \in 1 .. Len(queue) : n \in 1 .. Len(more)
        BY <4>1
      <4>4. Elements(more) = Elements(queue) \cup {new}
        BY <4>1, <4>2, <4>3 DEF Elements
      <4> QED
        BY <4>4 DEF more, queue
    <3> QED
      BY <2>2, <3>1 DEF Queued, Elements
  <2>4. Reported(inbox)' = Reported(inbox) /\ Settled(inbox)' = Settled(inbox) /\ Written' = Written
    BY <2>2 DEF Reported, Settled, Written
  <2>5. Posted /\ Expected(client) /\ Used(client, UnderWay)
    BY <2>1 DEF Accounts, Open
  <2>6. Written \subseteq Known /\ Reported(inbox) \subseteq Known /\ rejected \subseteq Known
    <3>1. Written \subseteq Known
      BY BrokerFacts DEF Accounts, Written
    <3>2. Reported(inbox) \subseteq Known
      BY DEF Accounts, IInv, Types, Proper, Reported
    <3> QED
      BY <2>5, <3>1, <3>2 DEF Posted
  <2>7. Posted'
    <3>1. OneReport(inbox)' /\ \A n \in 1 .. Len(inbox') : Says(inbox'[n], rejected')
      BY <2>2, <2>5 DEF Posted, OneReport
    <3>2. rejected' \subseteq Known'
      BY <1>4, <2>6
    <3>3. /\ Queued' \cap (Written' \cup Reported(inbox)' \cup rejected') = {}
          /\ Written' \cap (Reported(inbox)' \cup rejected') = {}
      BY <1>2, <2>3, <2>4, <2>5, <2>6 DEF Posted
    <3> QED
      BY <3>1, <3>2, <3>3 DEF Posted
  <2>8. Expected(client)'
    BY <1>5, <2>3, <2>4, <2>5 DEF Expected, d
  <2>9. UnderWay' = UnderWay \cup {new}
    BY <2>3, <2>4 DEF UnderWay
  <2>10. Used(client, UnderWay)'
    <3>1. ASSUME NEW t \in TxId, d.pending[t] # None PROVE d.pending[t].id \in UnderWay'
      BY <1>5, <2>5, <2>9, <3>1 DEF Used, new
    <3> QED
      BY <3>1 DEF Used, d
  <2> QED
    BY <2>7, <2>8, <2>10
<1> QED
  BY <1>6, <1>7 DEF Accounts

\* request/5: the slot of the new call names a submission that is on its way.
LEMMA RequestAccounts ==
  ASSUME Accounts, IInv', NEW caller \in Caller, Request(caller)
  PROVE  Accounts'
<1> DEFINE txid == FreeSlot(client)  new == Len(submitted) + 1
           entry == [id |-> new, from |-> caller]
           s == [kind |-> "request", txid |-> txid, from |-> caller]
           c == [client EXCEPT !.next = (txid + 1) % Capacity, !.pending[txid] = entry]
<1>1. /\ client.status = "up" /\ Occupied(client) # TxId /\ Transmit(c, s) /\ UNCHANGED <<owed, rejected>>
      /\ client \in Client /\ Cardinality(client.sends) < SendLimit
  BY DEF Request, Accounts, IInv, Good
<1>2. txid \in TxId
  BY <1>1, FreeSlotIsFree
<1> HIDE DEF txid
<1>3. new \in Ids
  BY <1>1, ClientAssumption DEF Transmit, Accounts, IInv, Types, Ids
<1> HIDE DEF new
<1>4. entry \in Entry /\ entry.id = new
  BY <1>3 DEF Entry
<1>5. s \in Submission
  BY <1>2 DEF Submission
<1>6. (txid + 1) % Capacity \in TxId
  BY <1>2, ClientAssumption DEF TxId
<1> HIDE DEF entry, s
<1>7. /\ c \in Client /\ c.sends = client.sends
      /\ \A t \in TxId : c.pending[t] = client.pending[t] \/ c.pending[t] = entry
  BY <1>1, <1>2, <1>4, <1>6 DEF Client
<1> HIDE DEF c
<1>8. \A t \in TxId : c.pending[t] # None =>
        c.pending[t] = client.pending[t] \/ c.pending[t].id = Len(submitted) + 1
  BY <1>4, <1>7 DEF new
<1> QED
  BY <1>1, <1>5, <1>7, <1>8, TransmitAccounts

\* fail/2 waits for nothing.
LEMMA FailLimits ==
  ASSUME NEW c \in Client, Limited(c)
  PROVE  Limited(Fail(c)) /\ Fail(c).status = "down"
<1>1. CASE c.status = "down"
  BY <1>1 DEF Fail
<1>2. CASE c.status # "down"
  <2>1. Fail(c).sends = {} /\ Fail(c).status = "down"
    BY <1>2 DEF Fail, Client
  <2>2. IsFiniteSet({}) /\ Cardinality({}) = 0 /\ SendLimit \in Nat
    BY ClientAssumption, FS_EmptySet
  <2> QED
    BY <2>1, <2>2 DEF Limited
<1> QED
  BY <1>1, <1>2

\* cast/4.
LEMMA CastAccounts ==
  ASSUME Accounts, IInv', Cast
  PROVE  Accounts'
<1> DEFINE s == [kind |-> "cast", txid |-> CastId, from |-> None]
<1>1. client.status = "up" /\ client \in Client /\ UNCHANGED <<owed, rejected>> /\ s \in Submission
      /\ Limited(client)
  BY DEF Cast, Accounts, IInv, Good, Submission
<1>2. CASE Transmit(client, s) /\ Cardinality(client.sends) < SendLimit
  <2> HIDE DEF s
  <2> QED
    BY <1>1, <1>2, TransmitAccounts
<1>3. CASE client' = Fail(client)
  <2>1. Limited(client') /\ client'.status = "down"
    BY <1>1, <1>3, FailLimits
  <2>2. Limited(client)' /\ ~Open'
    BY <2>1 DEF Limited, Open
  <2> QED
    BY <2>2, ClosedKeeps
<1> QED
  BY <1>2, <1>3 DEF Cast

\* The DOWN message of the broker.
LEMMA BrokerDownAccounts ==
  ASSUME Accounts, IInv', BrokerDown
  PROVE  Accounts'
<1>1. client' = Fail(client) /\ client \in Client /\ Limited(client)
  BY DEF BrokerDown, Accounts, IInv, Good
<1>2. Limited(client') /\ client'.status = "down"
  BY <1>1, FailLimits
<1>3. Limited(client)' /\ ~Open'
  BY <1>2 DEF Limited, Open
<1> QED
  BY <1>3, ClosedKeeps

\* caller_info/2 keeps every slot.
LEMMA CallerDownAccounts ==
  ASSUME Accounts, IInv', NEW caller \in Caller, CallerDown(caller)
  PROVE  Accounts'
<1>1. client' = Abandon(client, caller) /\ UNCHANGED <<submitted, broker, rejected, owed, inbox>>
      /\ client \in Client
  BY DEF CallerDown, Accounts, IInv, Good
<1>2. client'.status = client.status /\ client'.sends = client.sends
  BY <1>1 DEF Abandon, Client
<1>3. \A t \in TxId : client'.pending[t] # None =>
        client.pending[t] # None /\ client'.pending[t].id = client.pending[t].id
  <2> DEFINE p == [t \in TxId |-> IF client.pending[t] # None /\ client.pending[t].from = caller
                                  THEN [client.pending[t] EXCEPT !.from = None] ELSE client.pending[t]]
  <2>1. client'.pending = p
    BY <1>1 DEF Abandon, Client
  <2>2. \A t \in TxId : client.pending[t] \in Entry \cup {None}
    BY <1>1 DEF Client
  <2>3. \A e \in Entry : [e EXCEPT !.from = None].id = e.id
    BY DEF Entry
  <2>4. \A t \in TxId : p[t] # None => client.pending[t] # None /\ p[t].id = client.pending[t].id
    BY <2>2, <2>3
  <2> HIDE DEF p
  <2> QED
    BY <2>1, <2>4
<1>4. Limited(client)'
  BY <1>2 DEF Accounts, Limited
<1>5. ASSUME Open' PROVE Posted' /\ Expected(client)' /\ Used(client, UnderWay)'
  <2>1. Posted /\ Expected(client) /\ Used(client, UnderWay)
    BY <1>1, <1>2, <1>5 DEF Accounts, Open
  <2>2. Known' = Known /\ Queued' = Queued /\ Written' = Written /\ Reported(inbox)' = Reported(inbox)
        /\ UnderWay' = UnderWay
    BY <1>1 DEF Known, Queued, Written, Reported, UnderWay, Settled
  <2>3. Posted'
    BY <1>1, <2>1, <2>2 DEF Posted, OneReport
  <2>4. Expected(client)'
    BY <1>2, <2>1, <2>2 DEF Expected
  <2>5. Used(client, UnderWay)'
    BY <1>3, <2>1, <2>2 DEF Used
  <2> QED
    BY <2>3, <2>4, <2>5
<1> QED
  BY <1>4, <1>5 DEF Accounts

\* Nothing that the accounts speak of has changed.
LEMMA IdleAccounts ==
  ASSUME Accounts, IInv', UNCHANGED <<client, submitted, broker, rejected, owed, inbox>>
  PROVE  Accounts'
<1>1. Known' = Known /\ Queued' = Queued /\ Written' = Written /\ Reported(inbox)' = Reported(inbox)
      /\ UnderWay' = UnderWay
  BY DEF Known, Queued, Written, Reported, UnderWay, Settled
<1>2. ASSUME Open' PROVE Posted' /\ Expected(client)' /\ UnderWay \cap Requests \subseteq UnderWay'
  <2>1. Posted /\ Expected(client)
    BY <1>2 DEF Accounts, Open
  <2>2. Posted' /\ Expected(client)'
    BY <1>1, <2>1 DEF Posted, OneReport, Expected
  <2> QED
    BY <1>1, <2>2
<1> QED
  BY <1>2, WaitKeeps

\* The broker takes the oldest submission: it is being written, and a request
\* is now at the device.
LEMMA BrokerTransmitsAccounts ==
  ASSUME Accounts, IInv', BrokerTransmits
  PROVE  Accounts'
<1> DEFINE queue == broker.queue  rest == Tail(queue)  head == Head(queue)
<1>1. /\ broker.up /\ broker.active = None /\ queue # << >> /\ queue \in Seq(Ids)
      /\ broker' = [broker EXCEPT !.active = head, !.queue = rest]
      /\ owed' = owed \cup {id \in {head} : submitted[id].kind = "request"}
      /\ UNCHANGED <<client, submitted, rejected, inbox>>
  BY BrokerFacts DEF BrokerTransmits, Accounts
<1>2. /\ rest \in Seq(Ids) /\ head = queue[1] /\ 1 \in 1 .. Len(queue) /\ Len(rest) = Len(queue) - 1
      /\ \A k \in 1 .. Len(rest) : rest[k] = queue[IF k < 1 THEN k ELSE k + 1]
  BY <1>1
<1> HIDE DEF rest, head
<1>3. Elements(rest) = Elements(queue) \ {head}
  <2>1. Differing(queue)
    BY BrokerFacts DEF Accounts, Differing
  <2> HIDE DEF queue
  <2>2. Less(rest, queue, 1)
    BY <1>2 DEF Less
  <2>3. queue \in Seq(Ids) /\ rest \in Seq(Ids) /\ 1 \in 1 .. Len(queue)
    BY <1>1, <1>2
  <2>4. Elements(rest) = Elements(queue) \ {queue[1]}
    BY ONLY <2>1, <2>2, <2>3, QueueLess
  <2> QED
    BY <1>2, <2>4
<1>4. /\ Queued' = Queued \ {head} /\ head \in Queued /\ head \in Ids /\ head # None
      /\ broker'.active = head /\ broker'.up
  <2>1. broker' \in [up : BOOLEAN, queue : Seq(Ids), active : Ids \cup {None}]
        /\ broker'.queue = rest /\ broker'.active = head /\ broker'.up = broker.up
    BY <1>1, <1>2, BrokerFacts DEF Accounts
  <2>2. head \in Elements(queue) /\ head \in Ids /\ None \notin Ids
    BY <1>1, <1>2, BrokerFacts DEF Elements, Accounts
  <2>3. Queued = Elements(queue) /\ Queued' = Elements(rest)
    BY <2>1 DEF Queued, Elements
  <2> HIDE DEF queue
  <2> QED
    BY <1>1, <1>3, <2>1, <2>2, <2>3
<1>5. Known' = Known /\ Reported(inbox)' = Reported(inbox) /\ Settled(inbox)' = Settled(inbox)
      /\ Written = {} /\ Written' = {head}
  BY <1>1, <1>4 DEF Known, Reported, Settled, Written
<1>6. ASSUME Open' PROVE Posted' /\ Expected(client)' /\ UnderWay \cap Requests \subseteq UnderWay'
  <2>1. Posted /\ Expected(client)
    BY <1>1, <1>6 DEF Accounts, Open
  <2>2. Posted'
    BY <1>1, <1>4, <1>5, <2>1 DEF Posted, OneReport
  <2>3. Expected(client)'
    BY <1>1, <1>4, <1>5, <2>1 DEF Expected
  <2>4. head \in Requests => head \in owed'
    BY <1>1 DEF Requests
  <2>5. UnderWay \cap Requests \subseteq UnderWay'
    BY <1>1, <1>4, <1>5, <2>4 DEF UnderWay
  <2> QED
    BY <2>2, <2>3, <2>5
<1> QED
  BY <1>1, <1>6, WaitKeeps

\* The write of the active submission is done.
LEMMA BrokerCompletesAccounts ==
  ASSUME Accounts, IInv', BrokerCompletes
  PROVE  Accounts'
<1> DEFINE id == broker.active  m == Message("result", id, None, "ok")
<1>1. /\ broker.up /\ id # None /\ id \in Ids /\ inbox' = inbox \o <<m>>
      /\ broker' = [broker EXCEPT !.active = None]
      /\ UNCHANGED <<client, submitted, rejected, owed>> /\ inbox \in Seq(Mail)
  BY BrokerFacts DEF BrokerCompletes, Send, Accounts, IInv, Types
<1>2. m \in Mail /\ m.kind = "result" /\ m.id = id /\ m.result = "ok"
  BY <1>1 DEF Message, Mail
<1>3. broker'.queue = broker.queue /\ broker'.active = None /\ broker'.up
  BY <1>1, BrokerFacts DEF Accounts
<1> HIDE DEF m
<1>4. Known' = Known /\ Queued' = Queued /\ Written = {id} /\ Written' = {}
  BY <1>1, <1>3 DEF Known, Queued, Written
<1>5. Settled(inbox) \subseteq Settled(inbox)'
  <2>1. \A n \in 1 .. Len(inbox) : n \in 1 .. Len(inbox') /\ inbox'[n] = inbox[n]
    <3> HIDE DEF Mail
    <3> QED
      BY <1>1
  <2> QED
    BY <2>1 DEF Settled
<1>6. ASSUME Open' PROVE Posted' /\ Expected(client)' /\ UnderWay \cap Requests \subseteq UnderWay'
  <2>1. Posted /\ Expected(client)
    BY <1>1, <1>6 DEF Accounts, Open
  <2>2. id \notin Reported(inbox) /\ Says(m, rejected) /\ OneReport(inbox)
        /\ \A n \in 1 .. Len(inbox) : Says(inbox[n], rejected)
    BY <1>2, <1>4, <2>1 DEF Posted, Says
  <2> DEFINE more == inbox \o <<m>>
  <2>3. /\ OneReport(more) /\ \A n \in 1 .. Len(more) : Says(more[n], rejected)
        /\ Reported(more) = Reported(inbox) \cup {id}
    BY <1>1, <1>2, <2>2, MailGrows
  <2>4. inbox' = more
    BY <1>1
  <2> HIDE DEF more
  <2>5. Posted'
    <3>1. OneReport(inbox)' /\ \A n \in 1 .. Len(inbox') : Says(inbox'[n], rejected)
      BY ONLY <2>3, <2>4 DEF OneReport
    <3>2. Reported(inbox)' = Reported(inbox) \cup {id}
      BY ONLY <2>3, <2>4 DEF Reported
    <3>3. rejected' = rejected
      BY <1>1
    <3>4. (Queued \cap (Written \cup Reported(inbox) \cup rejected))' = {}
      BY ONLY <1>4, <2>1, <3>2, <3>3 DEF Posted
    <3> QED
      BY ONLY <1>4, <2>1, <3>1, <3>3, <3>4 DEF Posted
  <2>6. Expected(client)'
    <3>1. Reported(inbox)' = Reported(inbox) \cup {id}
      BY <2>3, <2>4 DEF Reported
    <3>2. client' = client
      BY <1>1
    <3> QED
      BY <1>4, <2>1, <3>1, <3>2 DEF Expected
  <2>7. UnderWay \cap Requests \subseteq UnderWay'
    BY <1>1, <1>4, <1>5 DEF UnderWay
  <2> QED
    BY <2>5, <2>6, <2>7
<1> QED
  BY <1>1, <1>6, WaitKeeps

\* A submission that leaves the queue unsent is reported as such.
LEMMA BrokerRejectsAccounts ==
  ASSUME Accounts, IInv', NEW n \in Ids, BrokerRejects(n)
  PROVE  Accounts'
<1> DEFINE queue == broker.queue  id == queue[n]  m == Message("result", id, None, "not_sent")
           rest == SubSeq(queue, 1, n - 1) \o SubSeq(queue, n + 1, Len(queue))
<1>1. /\ broker.up /\ n \in 1 .. Len(queue) /\ queue \in Seq(Ids) /\ inbox' = inbox \o <<m>>
      /\ broker' = [broker EXCEPT !.queue = rest] /\ rejected' = rejected \cup {id}
      /\ UNCHANGED <<client, submitted, owed>> /\ inbox \in Seq(Mail)
      /\ \A i, j \in 1 .. Len(queue) : queue[i] = queue[j] => i = j
      /\ \A k \in 1 .. Len(queue) : queue[k] \in Known
  BY BrokerFacts DEF BrokerRejects, Send, Accounts, IInv, Types
<1>2. id \in Ids /\ id \in Known /\ id \in Queued
  BY <1>1 DEF Queued
<1>3. m \in Mail /\ m.kind = "result" /\ m.id = id /\ m.result = "not_sent"
  BY <1>2 DEF Message, Mail
<1> HIDE DEF queue
<1>4. Elements(rest) = Elements(queue) \ {id} /\ rest \in Seq(Ids)
  <2>1. /\ rest \in Seq(Ids) /\ Len(rest) = Len(queue) - 1
        /\ \A k \in 1 .. Len(rest) : rest[k] = queue[IF k < n THEN k ELSE k + 1]
    <3>1. queue \in Seq(Ids) /\ n \in 1 .. Len(queue)
      BY <1>1
    <3> QED
      BY ONLY <3>1, RemoveFacts
  <2> HIDE DEF rest
  <2>2. queue \in Seq(Ids) /\ rest \in Seq(Ids) /\ n \in 1 .. Len(queue)
    BY <1>1, <2>1
  <2>2a. Differing(queue) /\ Less(rest, queue, n)
    BY <1>1, <2>1 DEF Differing, Less
  <2>3. Elements(rest) = Elements(queue) \ {queue[n]}
    BY ONLY <2>2, <2>2a, QueueLess
  <2> QED
    BY <2>1, <2>3
<1> HIDE DEF rest, id, m
<1>5. broker'.queue = rest /\ broker'.active = broker.active /\ broker'.up
  BY <1>1, <1>4, BrokerFacts DEF Accounts
<1>6. Known' = Known /\ Queued' = Queued \ {id} /\ Written' = Written
  <2>1. Queued = Elements(queue) /\ Queued' = Elements(rest)
    BY <1>5 DEF Queued, Elements, queue
  <2>2. Known' = Known /\ Written' = Written
    BY <1>1, <1>5 DEF Known, Written
  <2> QED
    BY <1>4, <2>1, <2>2
<1>7. Settled(inbox) \cup {id} \subseteq Settled(inbox)'
  <2>1. /\ \A k \in 1 .. Len(inbox) : k \in 1 .. Len(inbox') /\ inbox'[k] = inbox[k]
        /\ Len(inbox) + 1 \in 1 .. Len(inbox') /\ inbox'[Len(inbox) + 1] = m
    <3> HIDE DEF Mail
    <3> QED
      BY <1>1
  <2>2. Settles(m)
    BY <1>3 DEF Settles
  <2> QED
    BY <1>3, <2>1, <2>2 DEF Settled
<1>8. ASSUME Open' PROVE Posted' /\ Expected(client)' /\ UnderWay \cap Requests \subseteq UnderWay'
  <2>1. Posted /\ Expected(client)
    BY <1>1, <1>8 DEF Accounts, Open
  <2>2. id \notin Reported(inbox) /\ id \notin Written /\ Says(m, rejected') /\ OneReport(inbox)
        /\ \A k \in 1 .. Len(inbox) : Says(inbox[k], rejected)
    BY <1>1, <1>2, <1>3, <2>1 DEF Posted, Says
  <2>3. \A k \in Reported(inbox) : k \in rejected <=> k \in rejected'
    BY <1>1, <2>2
  <2> DEFINE more == inbox \o <<m>>
  <2>4. /\ OneReport(more) /\ \A k \in 1 .. Len(more) : Says(more[k], rejected')
        /\ Reported(more) = Reported(inbox) \cup {id}
    BY <1>1, <1>3, <2>2, <2>3, MailGrows
  <2>5. inbox' = more
    BY <1>1
  <2> HIDE DEF more
  <2>6. Posted'
    <3>1. OneReport(inbox)' /\ \A k \in 1 .. Len(inbox') : Says(inbox'[k], rejected')
      BY <2>4, <2>5 DEF OneReport
    <3>2. Reported(inbox)' = Reported(inbox) \cup {id}
      BY <2>4, <2>5 DEF Reported
    <3>3. rejected' = rejected \cup {id}
      BY <1>1
    <3>4. rejected' \subseteq Known'
      BY ONLY <1>2, <1>6, <2>1, <3>3 DEF Posted
    <3>5. (Queued \cap (Written \cup Reported(inbox) \cup rejected))' = {}
      BY ONLY <1>6, <2>1, <3>2, <3>3 DEF Posted
    <3>6. (Written \cap (Reported(inbox) \cup rejected))' = {}
      BY ONLY <1>6, <2>1, <2>2, <3>2, <3>3 DEF Posted
    <3> QED
      BY ONLY <3>1, <3>4, <3>5, <3>6 DEF Posted
  <2>7. Expected(client)'
    <3>1. Reported(inbox)' = Reported(inbox) \cup {id}
      BY <2>4, <2>5 DEF Reported
    <3>2. client' = client
      BY <1>1
    <3> QED
      BY <1>2, <1>6, <2>1, <3>1, <3>2 DEF Expected
  <2>8. UnderWay \cap Requests \subseteq UnderWay'
    BY <1>1, <1>6, <1>7 DEF UnderWay
  <2> QED
    BY <2>6, <2>7, <2>8
<1> QED
  BY <1>1, <1>8, WaitKeeps

\* The device answers, or sends something else.
LEMMA FrameAccounts ==
  ASSUME Accounts, IInv', UNCHANGED <<client, submitted, broker, rejected>>,
         NEW m \in Mail, inbox' = inbox \o <<m>>, m.kind = "frame", Says(m, rejected),
         owed \ owed' \subseteq IF Settles(m) THEN {m.id} ELSE {}
  PROVE  Accounts'
<1>1. Known' = Known /\ Queued' = Queued /\ Written' = Written /\ inbox \in Seq(Mail)
  BY DEF Known, Queued, Written, Accounts, IInv, Types
<1>2. Settled(inbox) \cup (owed \ owed') \subseteq Settled(inbox)'
  <2>1. /\ \A k \in 1 .. Len(inbox) : k \in 1 .. Len(inbox') /\ inbox'[k] = inbox[k]
        /\ Len(inbox) + 1 \in 1 .. Len(inbox') /\ inbox'[Len(inbox) + 1] = m
    <3> HIDE DEF Mail
    <3> QED
      BY <1>1
  <2> QED
    BY <2>1 DEF Settled
<1>3. ASSUME Open' PROVE Posted' /\ Expected(client)' /\ UnderWay \cap Requests \subseteq UnderWay'
  <2>1. Posted /\ Expected(client)
    BY <1>3 DEF Accounts, Open
  <2> DEFINE more == inbox \o <<m>>
  <2>2. OneReport(inbox) /\ \A k \in 1 .. Len(inbox) : Says(inbox[k], rejected)
    BY <2>1 DEF Posted
  <2>3. /\ OneReport(more) /\ \A k \in 1 .. Len(more) : Says(more[k], rejected)
        /\ Reported(more) = Reported(inbox)
    <3> HIDE DEF Mail
    <3>1. m.kind # "result"
      OBVIOUS
    <3> QED
      BY <1>1, <2>2, <3>1, MailGrows
  <2>4. inbox' = more
    OBVIOUS
  <2> HIDE DEF more
  <2>5. Posted'
    BY <1>1, <2>1, <2>3, <2>4 DEF Posted, OneReport, Reported
  <2>6. Expected(client)'
    BY <1>1, <2>1, <2>3, <2>4 DEF Expected, Reported
  <2>7. UnderWay \cap Requests \subseteq UnderWay'
    BY <1>1, <1>2 DEF UnderWay
  <2> QED
    BY <2>5, <2>6, <2>7
<1> QED
  BY <1>3, WaitKeeps

\* finish/2 touches one slot.
LEMMA FinishFields ==
  ASSUME NEW c \in Client, NEW t \in TxId, NEW answer
  PROVE  LET d == Finish(c, t, answer) IN
         /\ d.sends = c.sends /\ d.status = c.status
         /\ \A u \in TxId : d.pending[u] = IF u = t THEN None ELSE c.pending[u]
<1>1. CASE c.pending[t].from = None
  BY <1>1 DEF Finish, Client
<1>2. CASE c.pending[t].from # None
  BY <1>2 DEF Finish, Client
<1> QED
  BY <1>1, <1>2

\* What is left to settle when the first message is taken.
LEMMA SettledLess ==
  ASSUME NEW mail \in Seq(Mail), mail # << >>
  PROVE  \A id \in Settled(mail) :
           id \in Settled(Tail(mail)) \/ (Settles(Head(mail)) /\ id = Head(mail).id)
<1> SUFFICES ASSUME NEW id \in Settled(mail), id \notin Settled(Tail(mail))
             PROVE  Settles(Head(mail)) /\ id = Head(mail).id
  OBVIOUS
<1>1. PICK n \in 1 .. Len(mail) : Settles(mail[n]) /\ mail[n].id = id
  BY DEF Settled
<1>2. CASE n = 1
  <2>1. Head(mail) = mail[1]
    <3> HIDE DEF Mail
    <3> QED
      OBVIOUS
  <2> QED
    BY <1>1, <1>2, <2>1
<1>3. CASE n # 1
  <2>1. n - 1 \in 1 .. Len(Tail(mail)) /\ Tail(mail)[n - 1] = mail[n]
    <3> HIDE DEF Mail
    <3> QED
      BY <1>3
  <2> QED
    BY <1>1, <2>1 DEF Settled
<1> QED
  BY <1>2, <1>3

\* The client takes a message of the broker: a slot that it frees is the one
\* of the request that the message settles.
LEMMA HandleAccounts ==
  ASSUME Accounts, IInv', Handle
  PROVE  Accounts'
<1> DEFINE m == Head(inbox)  rest == Tail(inbox)  d == client'
           fewer == client.sends \ {m.id}  waits == [client EXCEPT !.sends = fewer]
<1>1. /\ IInv /\ inbox # << >> /\ inbox' = rest /\ UNCHANGED <<submitted, broker, rejected, owed>>
      /\ inbox \in Seq(Mail) /\ client \in Client
  BY DEF Handle, Accounts, IInv, Types, Good
<1>2. /\ UnderWay' \subseteq UnderWay /\ Proper(m) /\ m \in Mail
      /\ Settles(m) => m.id \in UnderWay
      /\ Requests' = Requests /\ Known' = Known
  BY <1>1, TakeFacts
<1>3. d = CASE m.kind = "frame" -> ReceiveReply(client, m.txid, m.result = "decoded", m.id)
            [] m.kind = "down" -> Fail(client)
            [] m.kind = "result" /\ m.id \in client.sends -> Sent(client, m.id, m.result)
            [] OTHER -> client
  BY DEF Handle
<1>4. \A id \in UnderWay : id \in UnderWay' \/ (Settles(m) /\ id = m.id)
  <2>1. \A id \in Settled(inbox) : id \in Settled(rest) \/ (Settles(m) /\ id = m.id)
    BY <1>1, SettledLess
  <2>2. Settled(inbox)' = Settled(rest) /\ Queued' = Queued
    BY <1>1 DEF Settled, Queued
  <2> HIDE DEF m, rest
  <2> QED
    BY <1>1, <2>1, <2>2 DEF UnderWay
<1> HIDE DEF m, rest, d
<1>5. waits \in Client /\ waits.status = client.status /\ waits.pending = client.pending
      /\ waits.sends = client.sends \ {m.id}
  <2>1. fewer \in SUBSET Ids
    BY <1>1 DEF Client
  <2> HIDE DEF fewer
  <2>2. waits \in Client /\ waits.status = client.status /\ waits.pending = client.pending
        /\ waits.sends = fewer
    BY <1>1, <2>1 DEF Client
  <2> QED
    BY <2>2 DEF fewer
<1>6. \A c \in Client : Fail(c).sends \subseteq c.sends /\ Fail(c).status = "down"
  BY DEF Fail, Client
<1>7. \/ m.kind = "frame" /\ m.result = "decoded" /\ m.txid \in Occupied(client)
         /\ d = Finish(client, m.txid, Reply(m.id))
      \/ m.kind = "frame" /\ ~(m.result = "decoded" /\ m.txid \in Occupied(client)) /\ d = client
      \/ d = Fail(client)
      \/ m.kind = "result" /\ m.result = "ok" /\ d = waits
      \/ /\ m.kind = "result" /\ m.result = "not_sent" /\ submitted[m.id].kind = "request"
         /\ client.pending[submitted[m.id].txid] # None /\ client.pending[submitted[m.id].txid].id = m.id
         /\ d = Finish(waits, submitted[m.id].txid, NotSent)
      \/ /\ m.kind = "result" /\ m.result = "not_sent" /\ submitted[m.id].kind = "request"
         /\ ~(client.pending[submitted[m.id].txid] # None /\ client.pending[submitted[m.id].txid].id = m.id)
         /\ d = waits
      \/ d = Fail(waits)
      \/ m.kind = "result" /\ m.id \notin client.sends /\ d = client
  <2> HIDE DEF waits
  <2>1. CASE m.kind = "frame"
    <3>1. d = ReceiveReply(client, m.txid, m.result = "decoded", m.id)
      BY <1>3, <2>1
    <3> QED
      BY <2>1, <3>1 DEF ReceiveReply
  <2>2. CASE m.kind = "down"
    BY <1>3, <2>2
  <2>3. CASE m.kind = "result" /\ m.id \in client.sends
    <3>1. d = Sent(client, m.id, m.result)
      BY <1>3, <2>3
    <3>2. CASE m.result = "ok"
      BY <2>3, <3>1, <3>2 DEF Sent, waits, fewer
    <3>3. CASE m.result = "not_sent" /\ submitted[m.id].kind = "request"
      BY <2>3, <3>1, <3>3 DEF Sent, waits, fewer
    <3>4. CASE m.result # "ok" /\ ~(m.result = "not_sent" /\ submitted[m.id].kind = "request")
      BY <2>3, <3>1, <3>4 DEF Sent, waits, fewer
    <3> QED
      BY <3>2, <3>3, <3>4
  <2>4. CASE m.kind = "result" /\ m.id \notin client.sends
    BY <1>3, <2>4
  <2>5. m.kind \in {"frame", "down", "result"}
    BY <1>2 DEF Mail
  <2> QED
    BY <2>1, <2>2, <2>3, <2>4, <2>5
<1> HIDE DEF waits
<1>8. submitted[m.id].kind = "request" /\ m.kind = "result" => submitted[m.id].txid \in TxId /\ m.id \in Requests
  BY <1>1, <1>2 DEF IInv, Types, Proper, Requests, Known
<1>9. d.sends \subseteq client.sends /\ (d.status = "up" => client.status = "up")
  <2>1. Occupied(client) \subseteq TxId
    BY DEF Occupied
  <2> QED
    BY <1>1, <1>5, <1>6, <1>7, <1>8, <2>1, FinishFields
<1>10. Limited(client)'
  <2>1. IsFiniteSet(client.sends) /\ Cardinality(client.sends) <= SendLimit
    BY DEF Accounts, Limited
  <2>2. d.sends \in SUBSET client.sends
    BY <1>9
  <2>3. /\ IsFiniteSet(d.sends) /\ Cardinality(d.sends) <= Cardinality(client.sends)
        /\ Cardinality(d.sends) \in Nat /\ Cardinality(client.sends) \in Nat /\ SendLimit \in Nat
    BY <2>1, <2>2, FS_Subset, FS_CardinalityType, ClientAssumption
  <2>4. Cardinality(d.sends) <= SendLimit
    BY <2>1, <2>3
  <2> QED
    BY <2>3, <2>4 DEF Limited, d
<1>11. ASSUME Open' PROVE Posted' /\ Expected(client)' /\ Used(client, UnderWay)'
  <2>1. d.status = "up" /\ client.status = "up" /\ broker.up
    BY <1>1, <1>9, <1>11 DEF Open, d
  <2>2. Posted /\ Expected(client) /\ Used(client, UnderWay)
    BY <2>1 DEF Accounts, Open
  <2>3. OneReport(inbox) /\ \A n \in 1 .. Len(inbox) : Says(inbox[n], rejected)
    BY <2>2 DEF Posted
  <2>4. /\ OneReport(rest) /\ \A n \in 1 .. Len(rest) : Says(rest[n], rejected)
        /\ Reported(rest) \subseteq Reported(inbox) /\ Says(m, rejected)
        /\ m.kind = "result" => m.id \in Reported(inbox) \ Reported(rest)
    BY <1>1, <2>3, MailShrinks DEF m, rest
  <2>5. Queued' = Queued /\ Written' = Written /\ Reported(inbox)' = Reported(rest)
    BY <1>1 DEF Queued, Written, Reported
  <2>6. Posted'
    <3>1. OneReport(inbox)' /\ \A n \in 1 .. Len(inbox') : Says(inbox'[n], rejected')
      BY <1>1, <2>4 DEF OneReport
    <3> QED
      BY <1>1, <1>2, <2>2, <2>4, <2>5, <3>1 DEF Posted
  <2>7. m.kind = "result" => m.id \notin Queued \cup Written \cup Reported(rest) /\ m.id \in client.sends
    BY <2>2, <2>4 DEF Posted, Expected
  <2>8. Queued \cup Written \cup Reported(rest) \subseteq client.sends
    BY <2>2, <2>4 DEF Expected
  <2>9. \A t \in TxId : client.pending[t] # None =>
          client.pending[t].id \in UnderWay /\ submitted[client.pending[t].id].txid = t
    BY <1>1, <2>2 DEF Used, IInv, Good, Slots
  <2>10. Settles(m) /\ m.id \in Requests => client.pending[submitted[m.id].txid] # None
                                            /\ client.pending[submitted[m.id].txid].id = m.id
    BY <1>1, <1>2, <2>1 DEF IInv, Holds
  \* The client still waits for what is not reported, and holds what is under way.
  <2> DEFINE Fits(c) == /\ Queued \cup Written \cup Reported(rest) \subseteq c.sends
                        /\ \A t \in TxId : c.pending[t] # None => c.pending[t].id \in UnderWay'
  <2>11. ASSUME m.kind = "frame" /\ m.result = "decoded" /\ m.txid \in Occupied(client)
                /\ d = Finish(client, m.txid, Reply(m.id))
         PROVE  Fits(d)
    <3>1. m.txid \in TxId /\ Settles(m) /\ m.id \in Requests /\ submitted[m.id].txid = m.txid
      BY <1>2, <2>11 DEF Occupied, Settles, Proper
    <3>2. /\ d.sends = client.sends
          /\ \A u \in TxId : d.pending[u] = IF u = m.txid THEN None ELSE client.pending[u]
      BY <1>1, <2>11, <3>1, FinishFields
    <3>3. ASSUME NEW t \in TxId, d.pending[t] # None PROVE d.pending[t].id \in UnderWay'
      <4>1. t # m.txid /\ d.pending[t] = client.pending[t] /\ client.pending[t] # None
        BY <3>2, <3>3
      <4>2. client.pending[t].id # m.id
        BY <2>9, <3>1, <4>1
      <4> QED
        BY <1>4, <2>9, <4>1, <4>2
    <3> QED
      BY <2>8, <3>2, <3>3
  <2>12. ASSUME m.kind = "frame" /\ ~(m.result = "decoded" /\ m.txid \in Occupied(client)) /\ d = client
         PROVE  Fits(d)
    <3>1. ~Settles(m)
      <4> SUFFICES ASSUME Settles(m) PROVE FALSE
        OBVIOUS
      <4>1. m.result = "decoded" /\ m.txid \in TxId /\ m.id \in Requests /\ submitted[m.id].txid = m.txid
        BY <1>2, <2>12 DEF Settles, Proper
      <4> QED
        BY <2>10, <2>12, <4>1 DEF Occupied
    <3> QED
      BY <1>4, <2>8, <2>9, <2>12, <3>1
  <2>13. ASSUME m.kind = "result" /\ m.result = "ok" /\ d = waits
         PROVE  Fits(d)
    <3>1. ~Settles(m)
      BY <2>13 DEF Settles
    <3> QED
      BY <1>4, <1>5, <2>7, <2>8, <2>9, <2>13, <3>1
  <2>14. ASSUME m.kind = "result" /\ m.result = "not_sent" /\ submitted[m.id].kind = "request"
         PROVE  Fits(d)
    <3> DEFINE t == submitted[m.id].txid
    <3>1. Settles(m) /\ m.id \in Requests /\ t \in TxId
      BY <1>8, <2>14 DEF Settles
    <3>2. client.pending[t] # None /\ client.pending[t].id = m.id
      BY <2>10, <3>1
    <3>3. d = Finish(waits, t, NotSent)
      BY <1>6, <1>1, <1>5, <1>7, <2>1, <2>7, <2>14, <3>2
    <3> HIDE DEF t
    <3>4. /\ d.sends = waits.sends
          /\ \A u \in TxId : d.pending[u] = IF u = t THEN None ELSE waits.pending[u]
      BY <1>5, <3>1, <3>3, FinishFields
    <3>5. ASSUME NEW u \in TxId, d.pending[u] # None PROVE d.pending[u].id \in UnderWay'
      <4>1. u # t /\ d.pending[u] = client.pending[u] /\ client.pending[u] # None
        BY <1>5, <3>4, <3>5
      <4>2. client.pending[u].id # m.id
        BY <2>9, <4>1 DEF t
      <4> QED
        BY <1>4, <2>9, <4>1, <4>2
    <3> QED
      BY <1>5, <2>7, <2>8, <2>14, <3>4, <3>5
  <2>15. Fits(d)
    BY <1>1, <1>5, <1>6, <1>7, <2>1, <2>7, <2>11, <2>12, <2>13, <2>14
  <2>16. Expected(client)' /\ Used(client, UnderWay)'
    BY <2>5, <2>15 DEF Expected, Used, d
  <2> QED
    BY <2>6, <2>16
<1> QED
  BY <1>10, <1>11 DEF Accounts

-----------------------------------------------------------------------------
\* The accounts are right at the start.
LEMMA AccountsStart == Init => Accounts
<1> SUFFICES ASSUME Init PROVE Accounts
  OBVIOUS
<1>1. IInv
  BY InitHolds
<1>2. client.sends = {} /\ \A t \in TxId : client.pending[t] = None
  BY DEF Init
<1>3. Limited(client)
  <2>1. IsFiniteSet({}) /\ Cardinality({}) = 0 /\ SendLimit \in Nat
    BY ClientAssumption, FS_EmptySet
  <2> QED
    BY <1>2, <2>1 DEF Limited
<1>4. Queued = {} /\ Written = {} /\ Reported(inbox) = {} /\ rejected = {}
  BY DEF Init, Queued, Written, Reported
<1>5. Posted /\ Expected(client) /\ Used(client, UnderWay)
  BY <1>2, <1>4 DEF Init, Posted, Expected, Used, OneReport
<1> QED
  BY <1>1, <1>3, <1>5 DEF Accounts

\* Every step of the client, the broker, the device and the callers keeps them.
LEMMA AccountsKept == Accounts /\ [Next]_vars => Accounts'
<1> SUFFICES ASSUME Accounts, [Next]_vars PROVE Accounts'
  OBVIOUS
<1>1. IInv'
  BY NextKeeps DEF Accounts
<1>2. ASSUME NEW caller \in Caller, Request(caller) \/ CallerDown(caller) \/ CallerDies(caller)
      PROVE  Accounts'
  <2>1. CASE CallerDies(caller)
    BY <1>1, <2>1, IdleAccounts DEF CallerDies
  <2> QED
    BY <1>1, <1>2, <2>1, RequestAccounts, CallerDownAccounts
<1>3. CASE Cast \/ Handle \/ BrokerDown
  BY <1>1, <1>3, CastAccounts, HandleAccounts, BrokerDownAccounts
<1>4. CASE BrokerTransmits \/ BrokerCompletes \/ \E n \in Ids : BrokerRejects(n)
  BY <1>1, <1>4, BrokerTransmitsAccounts, BrokerCompletesAccounts, BrokerRejectsAccounts
<1>5. CASE BrokerStops \/ BrokerKilled
  <2>1. client' = client /\ broker' = [up |-> FALSE, queue |-> << >>, active |-> None]
    BY <1>5 DEF BrokerStops, BrokerKilled
  <2>2. Limited(client)' /\ ~Open'
    BY <2>1 DEF Accounts, Limited, Open
  <2> QED
    BY <1>1, <2>2, ClosedKeeps
<1>6. ASSUME NEW id \in Ids, DeviceReplies(id) PROVE Accounts'
  <2> DEFINE m == Message("frame", id, submitted[id].txid, "decoded")
  <2>1. /\ inbox' = inbox \o <<m>> /\ owed' = owed \ {id}
        /\ UNCHANGED <<client, submitted, broker, rejected>> /\ submitted[id].txid \in TxId
    BY <1>6 DEF DeviceReplies, Send, Accounts, IInv, Types
  <2>2. m \in Mail /\ m.kind = "frame" /\ m.id = id /\ Settles(m) /\ Says(m, rejected)
    BY <2>1 DEF Message, Mail, Settles, Says
  <2> HIDE DEF m
  <2> QED
    BY <1>1, <2>1, <2>2, FrameAccounts
<1>7. CASE StrayFrame
  <2>1. PICK txid \in TxId \cup {CastId} :
          Send(<<Message("frame", None, txid, IF txid = CastId THEN "decoded" ELSE "refused")>>)
    BY <1>7 DEF StrayFrame
  <2> DEFINE m == Message("frame", None, txid, IF txid = CastId THEN "decoded" ELSE "refused")
  <2>2. inbox' = inbox \o <<m>> /\ UNCHANGED <<client, submitted, broker, rejected, owed>>
    BY <1>7, <2>1 DEF StrayFrame, Send
  <2>3. m \in Mail /\ m.kind = "frame" /\ Says(m, rejected)
    BY DEF Message, Mail, Says
  <2> HIDE DEF m
  <2> QED
    BY <1>1, <2>2, <2>3, FrameAccounts
<1>8. CASE UNCHANGED vars
  BY <1>1, <1>8, IdleAccounts DEF vars
<1> QED
  BY <1>2, <1>3, <1>4, <1>5, <1>6, <1>7, <1>8 DEF Next

\* While client and broker run, a slot is in use exactly as long as its request
\* is queued, at the device, or about to be settled by a message: none is lent
\* too early, and none leaks.  No more sends are outstanding than TX_LIMIT
\* (hls_fabric_client.erl, request/5, cast/4, sent/3 and receive_reply/5).
THEOREM SlotsReturn == Spec => []SlotHeldWhileOpen
<1>1. Accounts => SlotHeldWhileOpen
  <2> SUFFICES ASSUME Accounts, client.status = "up", broker.up, NEW id \in Requests
               PROVE  (client.pending[submitted[id].txid] # None /\ client.pending[submitted[id].txid].id = id)
                        <=> \/ \E n \in 1 .. Len(broker.queue) : broker.queue[n] = id
                            \/ id \in rejected /\ InInbox("result", id)
                            \/ id \in owed \/ InInbox("frame", id)
    BY DEF SlotHeldWhileOpen, Accounts, Limited
  <2>1. IInv /\ Posted /\ Used(client, UnderWay) /\ id \in Ids /\ id # None /\ submitted[id].txid \in TxId
    BY BrokerFacts DEF Accounts, Open, IInv, Types, Requests, Known
  <2>2. ASSUME client.pending[submitted[id].txid] # None, client.pending[submitted[id].txid].id = id
        PROVE  \/ \E n \in 1 .. Len(broker.queue) : broker.queue[n] = id
               \/ id \in rejected /\ InInbox("result", id)
               \/ id \in owed \/ InInbox("frame", id)
    <3>1. id \in UnderWay
      BY <2>1, <2>2 DEF Used
    <3>2. CASE id \in Queued
      BY <3>2 DEF Queued
    <3>3. CASE id \in Settled(inbox)
      <4>1. PICK n \in 1 .. Len(inbox) : Settles(inbox[n]) /\ inbox[n].id = id
        BY <3>3 DEF Settled
      <4>2. inbox[n].kind = "frame" => InInbox("frame", id)
        BY <4>1 DEF InInbox
      <4>3. inbox[n].kind # "frame" => id \in rejected /\ InInbox("result", id)
        BY <2>1, <4>1 DEF InInbox, Settles, Posted, Says
      <4> QED
        BY <4>2, <4>3
    <3> QED
      BY <3>1, <3>2, <3>3 DEF UnderWay
  <2>3. ASSUME \/ \E n \in 1 .. Len(broker.queue) : broker.queue[n] = id
               \/ id \in rejected /\ InInbox("result", id)
               \/ id \in owed \/ InInbox("frame", id)
        PROVE  client.pending[submitted[id].txid] # None /\ client.pending[submitted[id].txid].id = id
    <3>1. CASE \E n \in 1 .. Len(broker.queue) : broker.queue[n] = id
      BY <2>1, <3>1 DEF IInv, Holds, UnderWay, Queued
    <3>2. CASE id \in owed
      BY <2>1, <3>2 DEF IInv, Holds, UnderWay
    <3>3. CASE (id \in rejected /\ InInbox("result", id)) \/ InInbox("frame", id)
      <4>1. PICK n \in 1 .. Len(inbox) : inbox[n].id = id
                   /\ (inbox[n].kind = "frame" \/ (inbox[n].kind = "result" /\ id \in rejected))
        BY <3>3 DEF InInbox
      <4>2. Says(inbox[n], rejected)
        BY <2>1 DEF Posted
      <4>3. Settles(inbox[n])
        BY <2>1, <4>1, <4>2 DEF Says, Settles
      <4>4. id \in Settled(inbox)
        BY <4>1, <4>3 DEF Settled
      <4> QED
        BY <2>1, <4>4 DEF IInv, Holds, UnderWay
    <3> QED
      BY <2>3, <3>1, <3>2, <3>3
  <2> QED
    BY <2>2, <2>3
<1> QED
  BY <1>1, AccountsStart, AccountsKept, PTL DEF Spec
=============================================================================
