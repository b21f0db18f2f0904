---------------------------- MODULE FabricProofs ----------------------------
(* What the fabric broker guarantees for any number of processes, sessions *)
(* and routes and any windows: what reaches the device and what its       *)
(* callers hear of it agree (WritesTruthful), receive credits can always   *)
(* be returned (CreditsCanReturn), a drain that is answered left nothing   *)
(* behind (DrainIsClean), and a route has one owner (RoutesNeverReused).   *)
EXTENDS Fabric, OrderLemmas, FiniteSetTheorems

-----------------------------------------------------------------------------
(* The inductive invariant.                                                *)

Tx == [id : TxIds, session : Session \cup {None}, from : Owner \cup {None}, route : Route]

Receipt == [id : Nat, owner : Owner, route : Route]

Reply == {"ok", "not_sent", "session_closed", "transport_down", "write_timeout", "write_failed"}

Broker == [status : {"up", "down"},
           sessions : [Session -> {"unknown", "open", "draining", "closed"}],
           routes : [Route -> Owned \cup {Free, Retired}],
           queued : Seq(Tx), active : Tx \cup {None}, ready : BOOLEAN,
           receipts : SUBSET Receipt, buffered : Route \cup {None}, reading : BOOLEAN,
           toWriter : TxIds \cup {None}, toReader : BOOLEAN,
           replies : [TxIds -> Seq(Reply)], drained : SUBSET Session,
           admitted : Seq(Tx), delivered : Seq(Owned), acked : SUBSET Nat]

Request == Call \cup [kind : {"drain"}]

\* What the writer has, or is about to be given.
Given(b, w) == Elements(w) \cup (IF b.toWriter = None THEN {} ELSE {b.toWriter})

Admitted(b) == 1 .. Len(b.admitted)

\* The queue and the active transmission hold what was admitted, but that
\* nobody may be waiting for the active one any more.
Recorded(b) ==
  /\ Len(b.admitted) <= MaxTx
  /\ \A n \in Admitted(b) : b.admitted[n].id = n /\ b.admitted[n].from \in Owner
  /\ \A n \in 1 .. Len(b.queued) :
       b.queued[n].id \in Admitted(b) /\ b.queued[n] = b.admitted[b.queued[n].id]
  /\ b.active # None =>
       /\ b.active.id \in Admitted(b)
       /\ b.active.session = b.admitted[b.active.id].session
       /\ b.active.from \in {None, b.admitted[b.active.id].from}

\* The wire, the request to the writer and the queue are one line, in the order
\* of admission.
InLine(b, w) ==
  /\ \A m, n \in 1 .. Len(w) : m < n => w[m] < w[n]
  /\ b.toWriter # None => \A m \in 1 .. Len(w) : w[m] < b.toWriter
  /\ \A m, n \in 1 .. Len(b.queued) : m < n => b.queued[m].id < b.queued[n].id
  /\ \A id \in Given(b, w), n \in 1 .. Len(b.queued) : id < b.queued[n].id
  /\ Given(b, w) \subseteq Admitted(b)
  /\ b.active # None => b.active.id \in Given(b, w)

\* An answer is given once and is true, and whoever can still be answered was not.
Truthful(b, w) ==
  /\ \A id \in TxIds :
       /\ Len(b.replies[id]) <= 1
       /\ b.replies[id] # << >> =>
            id \in Admitted(b) /\ (id \in Given(b, w) <=> b.replies[id][1] \notin NotSent)
  /\ \A n \in 1 .. Len(b.queued) : b.replies[b.queued[n].id] = << >>
  /\ b.active # None /\ b.active.from # None => b.replies[b.active.id] = << >>

\* A session that was retired, and not because its drain had completed.
Abandoned(b, s) == s \in Session /\ b.sessions[s] = "closed" /\ s \notin b.drained

SettledTx(b, al, n) ==
  \/ ~al[b.admitted[n].from]
  \/ b.replies[n] # << >> /\ b.replies[n][1] \notin {"session_closed", "transport_down"}

\* An admitted write is settled, or lost with its session or the broker, or
\* somebody will hear of it.
WritesPending(b, al) ==
  \A n \in Admitted(b) :
    \/ SettledTx(b, al, n) \/ Abandoned(b, b.admitted[n].session)
    \/ b.status = "down" /\ b.admitted[n].session \notin b.drained
    \/ \E k \in 1 .. Len(b.queued) : b.queued[k].id = n
    \/ b.active # None /\ b.active.id = n /\ b.active.from # None

\* A closed session has no queued write, and a drained one no write at all.
WritesClosed(b) ==
  /\ \A s \in b.drained : b.sessions[s] = "closed" /\ (b.active # None => b.active.session # s)
  /\ \A n \in 1 .. Len(b.queued) :
       b.queued[n].session \in Session => b.sessions[b.queued[n].session] # "closed"

Writing(b, w, al) ==
  Recorded(b) /\ InLine(b, w) /\ Truthful(b, w) /\ WritesPending(b, al) /\ WritesClosed(b)

Windows(b) ==
  /\ IsFiniteSet(b.receipts) /\ Cardinality(b.receipts) <= RxLimit
  /\ \A r \in Route : Cardinality(OnRoute(b, r)) <= RxRouteLimit

Returnable(b) == \A r \in b.receipts : IsOwned(b, r.route) /\ b.routes[r.route].owner = r.owner

Returned(b, al, n) == n \in b.acked \/ ~al[b.delivered[n].owner]

\* The frame was acknowledged, or lost with its session, or its receipt is
\* outstanding.
Credits(b, al) ==
  \A n \in 1 .. Len(b.delivered) :
    \/ Returned(b, al, n) \/ Abandoned(b, b.delivered[n].session)
    \/ \E r \in b.receipts : r.id = n /\ b.routes[r.route] = b.delivered[n]

\* A closed session has no route.
RoutesClosed(b) ==
  \A r \in Route : IsOwned(b, r) /\ b.routes[r].session \in Session =>
    b.sessions[b.routes[r].session] # "closed"

Receiving(b, al) == Windows(b) /\ Returnable(b) /\ Credits(b, al) /\ RoutesClosed(b)

Sound(b, w, al) == b \in Broker /\ Writing(b, w, al) /\ Receiving(b, al)

\* The writer is where the broker believes it to be.
Hand(b, wr) ==
  IF b.status = "down" THEN b.active = None /\ b.queued = << >>
  ELSE IF b.active = None
       THEN b.toWriter = None /\ wr.state \in (IF b.ready THEN {"idle"} ELSE {"opening", "ready"})
  ELSE /\ b.ready
       /\ \/ b.toWriter = b.active.id /\ wr.state = "idle"
          \/ b.toWriter = None /\ wr.state \in {"writing", "wrote", "failed"}

Surroundings ==
  /\ writer \in [state : {"opening", "ready", "idle", "writing", "wrote", "failed"},
                 id : TxIds \cup {None}]
  /\ reader \in [state : {"opening", "waiting", "reading", "received"}, route : Route \cup {None}]
  /\ reader.state = "received" => reader.route \in Route
  /\ wire \in Seq(TxIds)
  /\ session \in [Session -> {"absent", "open", "draining", "drained", "dead"}]
  /\ channel \in [Session -> Seq(Request)]
  /\ alive \in [Owner -> BOOLEAN]
  /\ \A s \in Session : session[s] = "absent" => broker.sessions[s] = "unknown"

IInv == Sound(broker, wire, alive) /\ Hand(broker, writer) /\ Surroundings

-----------------------------------------------------------------------------
(* Records of the broker.                                                  *)

\* The fields of a broker have their types.
LEMMA BrokerFields ==
  ASSUME NEW b \in Broker
  PROVE  /\ b.status \in {"up", "down"}
         /\ b.sessions \in [Session -> {"unknown", "open", "draining", "closed"}]
         /\ b.routes \in [Route -> Owned \cup {Free, Retired}]
         /\ b.queued \in Seq(Tx) /\ b.active \in Tx \cup {None} /\ b.ready \in BOOLEAN
         /\ b.receipts \subseteq Receipt /\ b.buffered \in Route \cup {None}
         /\ b.reading \in BOOLEAN /\ b.toWriter \in TxIds \cup {None} /\ b.toReader \in BOOLEAN
         /\ b.replies \in [TxIds -> Seq(Reply)] /\ b.drained \subseteq Session
         /\ b.admitted \in Seq(Tx) /\ b.delivered \in Seq(Owned) /\ b.acked \subseteq Nat
BY DEF Broker

\* No transmission and no identifier is None.
LEMMA NothingIsNone ==
  /\ None \notin Tx /\ None \notin TxIds /\ None \notin Owner /\ None \notin Session
  /\ None \notin Route /\ Free # Retired /\ Free \notin Owned /\ Retired \notin Owned
  /\ MaxTx \in Nat /\ MaxFrames \in Nat /\ TxIds \subseteq Nat
<1>1. MaxTx \in Nat /\ MaxFrames \in Nat
  BY LimitAssumption
<1>2. None \notin Tx
  <2> SUFFICES ASSUME NEW tx \in Tx PROVE None # tx
    OBVIOUS
  <2>1. tx = [id |-> tx.id, session |-> tx.session, from |-> tx.from, route |-> tx.route]
        /\ tx.id \in 1 .. MaxTx /\ tx.session \in Session \cup {None}
        /\ tx.from \in Owner \cup {None} /\ tx.route \in Route
    BY DEF Tx, TxIds
  <2> QED
    BY <2>1, NameAssumption
<1>3. TxIds \subseteq Nat
  BY <1>1 DEF TxIds
<1>4. Free # Retired /\ \A o \in Owned : o # Free /\ o # Retired
  BY NameAssumption
<1>5. None \notin TxIds /\ None \notin Owner /\ None \notin Session /\ None \notin Route
  BY <1>3, NameAssumption
<1> QED
  BY <1>1, <1>2, <1>3, <1>4, <1>5

\* A part of a queue: some of its elements, in their order.
Part(q, p) ==
  \E place \in [1 .. Len(q) -> 1 .. Len(p)] :
    /\ \A k \in 1 .. Len(q) : q[k] = p[place[k]]
    /\ \A j, k \in 1 .. Len(q) : j < k => place[j] < place[k]

\* What Without leaves is a part of the queue.
LEMMA WithoutIsPart ==
  ASSUME NEW T, NEW q \in Seq(T), NEW gone
  PROVE  /\ Without(q, gone) \in Seq(T) /\ Part(Without(q, gone), q)
         /\ Elements(Without(q, gone)) = Elements(q) \ gone
<1> DEFINE p == Without(q, gone)
<1>1. PICK place \in [1 .. Len(p) -> 1 .. Len(q)] :
         /\ \A k \in 1 .. Len(p) : p[k] = q[place[k]] /\ q[place[k]] \notin gone
         /\ \A j, k \in 1 .. Len(p) : j < k => place[j] < place[k]
         /\ \A n \in 1 .. Len(q) : q[n] \notin gone => \E k \in 1 .. Len(p) : place[k] = n
  BY WithoutFacts
<1>2. p \in Seq(T)
  BY WithoutFacts
<1> HIDE DEF p
<1>3. Part(p, q)
  BY <1>1 DEF Part
<1>4. Elements(p) \subseteq Elements(q) \ gone
  BY <1>1 DEF Elements
<1>5. Elements(q) \ gone \subseteq Elements(p)
  BY <1>1 DEF Elements
<1> QED
  BY <1>2, <1>3, <1>4, <1>5 DEF p

\* A tail of a queue is a part of it.
LEMMA TailIsPart ==
  ASSUME NEW T, NEW q \in Seq(T), NEW n \in 1 .. Len(q) + 1
  PROVE  LET p == SubSeq(q, n, Len(q)) IN
         /\ p \in Seq(T) /\ Len(p) = Len(q) - n + 1
         /\ \A k \in 1 .. Len(p) : k + n - 1 \in 1 .. Len(q) /\ p[k] = q[k + n - 1]
         /\ Part(p, q)
<1> DEFINE p == SubSeq(q, n, Len(q))
           place == [k \in 1 .. Len(p) |-> k + n - 1]
<1>1. Len(q) \in Nat /\ n \in Nat
  OBVIOUS
<1>2. p \in Seq(T) /\ Len(p) = Len(q) - n + 1
      /\ \A k \in 1 .. Len(p) : k + n - 1 \in 1 .. Len(q) /\ p[k] = q[k + n - 1]
  OBVIOUS
<1> HIDE DEF p
<1>3. place \in [1 .. Len(p) -> 1 .. Len(q)] /\ \A k \in 1 .. Len(p) : place[k] = k + n - 1
  BY <1>2
<1> HIDE DEF place
<1>4. \A k \in 1 .. Len(p) : p[k] = q[place[k]]
  BY <1>2, <1>3
<1>5. \A j, k \in 1 .. Len(p) : j < k => place[j] < place[k]
  BY <1>1, <1>2, <1>3
<1>6. Part(p, q)
  BY <1>3, <1>4, <1>5 DEF Part
<1> QED
  BY <1>2, <1>6 DEF p

-----------------------------------------------------------------------------
(* Answers.                                                                *)

\* What the caller of a transmission has heard when a set of them was answered.
Heard(b, txs, reply, id) ==
  IF \E tx \in txs : tx.id = id /\ tx.from # None
  THEN Append(b.replies[id], reply) ELSE b.replies[id]

\* AnswerAll adds the answer to what the callers of the set have heard.
LEMMA AnswerAllFacts ==
  ASSUME NEW b \in Broker, NEW txs, txs \subseteq Tx, NEW reply \in Reply
  PROVE  /\ AnswerAll(b, txs, reply) \in Broker
         /\ AnswerAll(b, txs, reply) = [b EXCEPT !.replies = AnswerAll(b, txs, reply).replies]
         /\ \A id \in TxIds : AnswerAll(b, txs, reply).replies[id] = Heard(b, txs, reply, id)
<1> DEFINE replies == [id \in TxIds |-> Heard(b, txs, reply, id)]
<1>1. AnswerAll(b, txs, reply) = [b EXCEPT !.replies = replies]
  BY DEF AnswerAll, Heard
<1>2. replies \in [TxIds -> Seq(Reply)]
  <2> SUFFICES ASSUME NEW id \in TxIds
               PROVE  Append(b.replies[id], reply) \in Seq(Reply) /\ b.replies[id] \in Seq(Reply)
    BY DEF Heard
  <2>1. b.replies[id] \in Seq(Reply)
    BY BrokerFields
  <2> QED
    BY <2>1
<1>3. \A id \in TxIds : replies[id] = Heard(b, txs, reply, id)
  OBVIOUS
<1> HIDE DEF replies
<1>4. [b EXCEPT !.replies = replies] \in Broker /\ [b EXCEPT !.replies = replies].replies = replies
  BY <1>2 DEF Broker
<1> QED
  BY <1>1, <1>3, <1>4

\* An answer to one caller is the answer to a set of one.
LEMMA AnswerIsAnswerAll ==
  ASSUME NEW b \in Broker, NEW tx \in Tx, NEW reply \in Reply
  PROVE  Answer(b, tx, reply) = AnswerAll(b, {tx}, reply)
<1> DEFINE F(id) == IF \E t \in {tx} : t.id = id /\ t.from # None
                    THEN Append(b.replies[id], reply) ELSE b.replies[id]
           replies == [id \in TxIds |-> F(id)]
<1>1. AnswerAll(b, {tx}, reply) = [b EXCEPT !.replies = replies]
  BY DEF AnswerAll
<1>2. b.replies \in [TxIds -> Seq(Reply)] /\ tx.id \in TxIds
  BY BrokerFields DEF Tx
<1>3. CASE tx.from = None
  <2>1. \A id \in TxIds : F(id) = b.replies[id]
    BY <1>3
  <2>2. replies = b.replies
    BY <1>2, <2>1
  <2>3. [b EXCEPT !.replies = b.replies] = b
    BY DEF Broker
  <2> QED
    BY <1>1, <1>3, <2>2, <2>3 DEF Answer
<1>4. CASE tx.from # None
  <2>1. \A id \in TxIds : F(id) = IF id = tx.id THEN Append(b.replies[id], reply) ELSE b.replies[id]
    BY <1>4
  <2>2. replies = [b.replies EXCEPT ![tx.id] = Append(b.replies[tx.id], reply)]
    BY <1>2, <2>1
  <2>3. Answer(b, tx, reply) = [b EXCEPT !.replies = [b.replies EXCEPT ![tx.id] = Append(b.replies[tx.id], reply)]]
    BY <1>4, <1>2 DEF Answer, Broker
  <2> HIDE DEF replies
  <2> QED
    BY <1>1, <2>2, <2>3
<1> QED
  BY <1>3, <1>4

-----------------------------------------------------------------------------
(* Steps that leave one half of the broker alone.                          *)

SameWriting(b, c) ==
  /\ c.status = b.status /\ c.sessions = b.sessions /\ c.drained = b.drained
  /\ c.queued = b.queued /\ c.active = b.active /\ c.ready = b.ready
  /\ c.toWriter = b.toWriter /\ c.replies = b.replies /\ c.admitted = b.admitted

SameReceiving(b, c) ==
  /\ c.sessions = b.sessions /\ c.drained = b.drained
  /\ c.routes = b.routes /\ c.receipts = b.receipts
  /\ c.delivered = b.delivered /\ c.acked = b.acked

\* Answers are given, and the queue is replaced.
LEMMA QueueReplaced ==
  ASSUME NEW b \in Broker, NEW d \in Broker, d = [b EXCEPT !.replies = d.replies],
         NEW queued \in Seq(Tx), NEW c, c = [d EXCEPT !.queued = queued]
  PROVE  /\ c \in Broker /\ c.queued = queued /\ c.replies = d.replies
         /\ c.status = b.status /\ c.admitted = b.admitted /\ c.toWriter = b.toWriter
         /\ c.active = b.active /\ c.drained = b.drained /\ c.sessions = b.sessions
         /\ c.ready = b.ready /\ SameReceiving(b, c)
<1>1. /\ d.status = b.status /\ d.admitted = b.admitted /\ d.toWriter = b.toWriter
      /\ d.active = b.active /\ d.drained = b.drained /\ d.sessions = b.sessions
      /\ d.ready = b.ready /\ SameReceiving(b, d)
  BY DEF Broker, SameReceiving
<1>2. /\ c \in Broker /\ c.queued = queued /\ c.replies = d.replies
      /\ c.status = d.status /\ c.admitted = d.admitted /\ c.toWriter = d.toWriter
      /\ c.active = d.active /\ c.drained = d.drained /\ c.sessions = d.sessions
      /\ c.ready = d.ready /\ SameReceiving(d, c)
  BY DEF Broker, SameReceiving
<1> QED
  BY <1>1, <1>2 DEF SameReceiving

\* What is said about writes depends on these fields only.
LEMMA WritingKept ==
  ASSUME NEW b, NEW c, NEW w, NEW al, Writing(b, w, al), SameWriting(b, c)
  PROVE  Writing(c, w, al)
<1>1. Given(b, w) = Given(c, w) /\ Admitted(b) = Admitted(c)
  BY DEF SameWriting, Given, Admitted
<1>2. Recorded(c) /\ InLine(c, w) /\ Truthful(c, w)
  BY <1>1 DEF SameWriting, Writing, Recorded, InLine, Truthful
<1>3. \A s : Abandoned(b, s) <=> Abandoned(c, s)
  BY DEF SameWriting, Abandoned
<1>4. \A n : SettledTx(b, al, n) <=> SettledTx(c, al, n)
  BY DEF SameWriting, SettledTx
<1>5. WritesPending(c, al)
  BY <1>1, <1>3, <1>4 DEF SameWriting, Writing, WritesPending
<1>6. WritesClosed(c)
  BY DEF SameWriting, Writing, WritesClosed
<1> QED
  BY <1>2, <1>5, <1>6 DEF Writing

\* What is said about receiving depends on these fields only.
LEMMA ReceivingKept ==
  ASSUME NEW b, NEW c, NEW al, Receiving(b, al), SameReceiving(b, c)
  PROVE  Receiving(c, al)
<1>1. \A r : OnRoute(c, r) = OnRoute(b, r) /\ IsOwned(c, r) = IsOwned(b, r)
  BY DEF SameReceiving, OnRoute, IsOwned
<1>2. \A s : Abandoned(b, s) <=> Abandoned(c, s)
  BY DEF SameReceiving, Abandoned
<1>3. \A n : Returned(b, al, n) <=> Returned(c, al, n)
  BY DEF SameReceiving, Returned
<1>4. Windows(c) /\ Returnable(c)
  BY <1>1 DEF SameReceiving, Receiving, Windows, Returnable
<1>5. Credits(c, al)
  BY <1>2, <1>3 DEF SameReceiving, Receiving, Credits
<1>6. RoutesClosed(c)
  BY <1>1 DEF SameReceiving, Receiving, RoutesClosed
<1> QED
  BY <1>4, <1>5, <1>6 DEF Receiving

-----------------------------------------------------------------------------
(* Steps of the writing half.                                              *)

\* A queued transmission is what was admitted; its caller has heard nothing,
\* and the writer has not seen it.
LEMMA QueuedFacts ==
  ASSUME NEW b \in Broker, NEW w \in Seq(TxIds), NEW al, Writing(b, w, al),
         NEW tx \in Elements(b.queued)
  PROVE  /\ tx \in Tx /\ tx.id \in TxIds /\ tx.id \in Admitted(b) /\ tx = b.admitted[tx.id]
         /\ tx.from \in Owner /\ tx.from # None /\ b.replies[tx.id] = << >>
         /\ tx.id \notin Given(b, w)
<1>1. PICK n \in 1 .. Len(b.queued) : tx = b.queued[n]
  BY DEF Elements
<1>2. b.queued \in Seq(Tx)
  BY BrokerFields
<1>3. tx \in Tx
  BY <1>1, <1>2
<1>4. tx.id \in TxIds /\ tx.id \in Nat
  BY <1>3, NothingIsNone DEF Tx
<1>5. tx.id \in Admitted(b) /\ tx = b.admitted[tx.id]
  BY <1>1 DEF Writing, Recorded
<1>6. tx.from \in Owner /\ tx.from # None
  BY <1>5, NothingIsNone DEF Writing, Recorded
<1>7. b.replies[tx.id] = << >>
  BY <1>1 DEF Writing, Truthful
<1>8. tx.id \notin Given(b, w)
  <2>1. \A id \in Given(b, w) : id < tx.id
    BY <1>1 DEF Writing, InLine
  <2>2. ~(tx.id < tx.id)
    BY <1>4
  <2> QED
    BY <2>1, <2>2
<1> QED
  BY <1>3, <1>4, <1>5, <1>6, <1>7, <1>8

\* The elements of a part are elements of the whole.
LEMMA PartElements ==
  ASSUME NEW q, NEW p, Part(q, p)
  PROVE  Elements(q) \subseteq Elements(p)
<1>1. PICK place \in [1 .. Len(q) -> 1 .. Len(p)] : \A k \in 1 .. Len(q) : q[k] = p[place[k]]
  BY DEF Part
<1> QED
  BY <1>1 DEF Elements

\* Transmissions that leave the queue unsent, and are told so.
LEMMA DropKeeps ==
  ASSUME NEW b \in Broker, NEW c \in Broker, NEW w \in Seq(TxIds), NEW al,
         NEW reply \in NotSent, NEW gone, gone = Elements(b.queued) \ Elements(c.queued),
         Writing(b, w, al), Part(c.queued, b.queued),
         c.status = b.status, c.admitted = b.admitted, c.toWriter = b.toWriter,
         c.active = b.active, c.drained = b.drained,
         c.replies = AnswerAll(b, gone, reply).replies,
         \A s \in Session : b.sessions[s] = "closed" => c.sessions[s] = "closed",
         \A tx \in gone : reply = "session_closed" => Abandoned(c, tx.session),
         \A tx \in Elements(c.queued) : tx.session \in Session => c.sessions[tx.session] # "closed"
  PROVE  Writing(c, w, al)
<1>1. Elements(c.queued) \subseteq Elements(b.queued) /\ gone \subseteq Tx /\ reply \in Reply
  BY PartElements, QueuedFacts DEF NotSent, Reply
<1>2. Given(b, w) = Given(c, w) /\ Admitted(b) = Admitted(c)
  BY DEF Given, Admitted
<1>3. \A id \in TxIds :
        \/ c.replies[id] = b.replies[id] /\ \A tx \in gone : tx.id # id
        \/ c.replies[id] = << reply >> /\ b.replies[id] = << >> /\ \E tx \in gone : tx.id = id
  <2> SUFFICES ASSUME NEW id \in TxIds
               PROVE  \/ c.replies[id] = b.replies[id] /\ \A tx \in gone : tx.id # id
                      \/ /\ c.replies[id] = << reply >> /\ b.replies[id] = << >>
                         /\ \E tx \in gone : tx.id = id
    OBVIOUS
  <2>1. c.replies[id] = Heard(b, gone, reply, id)
    BY <1>1, AnswerAllFacts
  <2>2. \A tx \in gone : tx.from # None /\ b.replies[tx.id] = << >>
    BY QueuedFacts
  <2>3. Append(<< >>, reply) = << reply >>
    OBVIOUS
  <2> QED
    BY <2>1, <2>2, <2>3 DEF Heard
<1>4. \A n \in 1 .. Len(c.queued) : c.queued[n] \in Elements(c.queued)
  BY DEF Elements
<1>5. \A tx \in Elements(c.queued), t \in gone : tx.id # t.id
  BY <1>1, QueuedFacts
<1>6. Recorded(c)
  <2>1. ASSUME NEW n \in 1 .. Len(c.queued)
        PROVE  c.queued[n].id \in Admitted(c) /\ c.queued[n] = c.admitted[c.queued[n].id]
    BY <1>1, <1>2, <1>4, QueuedFacts
  <2> QED
    BY <1>2, <2>1 DEF Writing, Recorded
<1>7. InLine(c, w)
  <2>1. PICK place \in [1 .. Len(c.queued) -> 1 .. Len(b.queued)] :
           /\ \A k \in 1 .. Len(c.queued) : c.queued[k] = b.queued[place[k]]
           /\ \A j, k \in 1 .. Len(c.queued) : j < k => place[j] < place[k]
    BY DEF Part
  <2>2. ASSUME NEW m \in 1 .. Len(c.queued), NEW n \in 1 .. Len(c.queued), m < n
        PROVE  c.queued[m].id < c.queued[n].id
    <3>1. place[m] \in 1 .. Len(b.queued) /\ place[n] \in 1 .. Len(b.queued) /\ place[m] < place[n]
      BY <2>1, <2>2
    <3>2. b.queued[place[m]].id < b.queued[place[n]].id
      BY <3>1 DEF Writing, InLine
    <3> QED
      BY <2>1, <3>2
  <2>3. \A id \in Given(c, w), n \in 1 .. Len(c.queued) : id < c.queued[n].id
    BY <1>2, <2>1 DEF Writing, InLine
  <2> QED
    BY <1>2, <2>2, <2>3 DEF Writing, InLine
<1>8. Truthful(c, w)
  <2>1. ASSUME NEW id \in TxIds
        PROVE  /\ Len(c.replies[id]) <= 1
               /\ c.replies[id] # << >> =>
                    id \in Admitted(c) /\ (id \in Given(c, w) <=> c.replies[id][1] \notin NotSent)
    <3>1. CASE c.replies[id] = b.replies[id]
      BY <1>2, <3>1 DEF Writing, Truthful
    <3>2. CASE c.replies[id] = << reply >> /\ \E tx \in gone : tx.id = id
      <4>1. id \in Admitted(c) /\ id \notin Given(c, w)
        BY <1>2, <3>2, QueuedFacts
      <4>2. Len(<< reply >>) = 1 /\ << reply >>[1] = reply
        OBVIOUS
      <4>3. c.replies[id] = << reply >>
        BY <3>2
      <4>4. Len(c.replies[id]) = 1 /\ c.replies[id][1] = reply
        BY ONLY <4>2, <4>3
      <4>5. Len(c.replies[id]) <= 1
        BY ONLY <4>4
      <4> QED
        BY <4>1, <4>4, <4>5
    <3>3. c.replies[id] = b.replies[id] \/ (c.replies[id] = << reply >> /\ \E tx \in gone : tx.id = id)
      BY <1>3
    <3> QED
      BY <3>1, <3>2, <3>3
  <2>2. ASSUME NEW n \in 1 .. Len(c.queued) PROVE c.replies[c.queued[n].id] = << >>
    <3>1. c.queued[n] \in Elements(b.queued) /\ c.queued[n].id \in TxIds
      BY <1>1, <1>4, QueuedFacts
    <3>2. b.replies[c.queued[n].id] = << >>
      BY <3>1, QueuedFacts
    <3>3. \A t \in gone : t.id # c.queued[n].id
      BY <1>4, <1>5
    <3>4. c.replies[c.queued[n].id] = b.replies[c.queued[n].id]
      BY <1>3, <3>1, <3>3
    <3> QED
      BY <3>2, <3>4
  <2>3. c.active # None /\ c.active.from # None => c.replies[c.active.id] = << >>
    <3> SUFFICES ASSUME c.active # None, c.active.from # None PROVE c.replies[c.active.id] = << >>
      OBVIOUS
    <3>1. c.active.id \in Given(b, w) /\ b.replies[c.active.id] = << >>
      BY DEF Writing, InLine, Truthful
    <3>2. c.active.id \in TxIds
      BY BrokerFields DEF Tx
    <3> QED
      BY <1>3, <3>1, <3>2, QueuedFacts
  <2> QED
    BY <2>1, <2>2, <2>3 DEF Truthful
<1>9. WritesPending(c, al)
  <2> SUFFICES ASSUME NEW n \in Admitted(c)
               PROVE  \/ SettledTx(c, al, n) \/ Abandoned(c, c.admitted[n].session)
                      \/ c.status = "down" /\ c.admitted[n].session \notin c.drained
                      \/ \E k \in 1 .. Len(c.queued) : c.queued[k].id = n
                      \/ c.active # None /\ c.active.id = n /\ c.active.from # None
    BY DEF WritesPending
  <2>1. n \in TxIds
    <3>1. Len(b.admitted) \in Nat /\ Len(b.admitted) <= MaxTx /\ MaxTx \in Nat
      BY BrokerFields, NothingIsNone DEF Writing, Recorded
    <3> QED
      BY <1>2, <3>1 DEF Admitted, TxIds
  <2>2. CASE SettledTx(b, al, n)
    BY <1>3, <2>1, <2>2, QueuedFacts DEF SettledTx
  <2>3. CASE Abandoned(b, b.admitted[n].session)
    BY <2>3 DEF Abandoned
  <2>4. CASE b.status = "down" /\ b.admitted[n].session \notin b.drained
    BY <2>4
  <2>5. CASE b.active # None /\ b.active.id = n /\ b.active.from # None
    BY <2>5
  <2>6. CASE \E k \in 1 .. Len(b.queued) : b.queued[k].id = n
    <3>1. PICK tx \in Elements(b.queued) : tx.id = n
      BY <2>6 DEF Elements
    <3>2. CASE tx \in Elements(c.queued)
      BY <3>1, <3>2 DEF Elements
    <3>3. CASE tx \in gone
      <4>1. c.replies[n] = << reply >> /\ << reply >>[1] = reply /\ << reply >> # << >>
        BY <1>3, <2>1, <3>1, <3>3
      <4>2. tx = c.admitted[n]
        BY <3>1, QueuedFacts
      <4>3. CASE reply = "session_closed"
        BY <3>3, <4>2, <4>3
      <4>4. CASE reply = "not_sent"
        <5>1. c.replies[n] # << >> /\ c.replies[n][1] \notin {"session_closed", "transport_down"}
          BY <4>1, <4>4
        <5> QED
          BY <5>1 DEF SettledTx
      <4> QED
        BY <4>3, <4>4 DEF NotSent
    <3> QED
      BY <3>1, <3>2, <3>3
  <2> QED
    BY <1>2, <2>2, <2>3, <2>4, <2>5, <2>6 DEF Writing, WritesPending
<1>10. WritesClosed(c)
  BY <1>4, BrokerFields DEF Writing, WritesClosed
<1> QED
  BY <1>6, <1>7, <1>8, <1>9, <1>10 DEF Writing

\* The active transmission is with the writer.
LEMMA ActiveFacts ==
  ASSUME NEW b \in Broker, NEW w, NEW al, Writing(b, w, al), b.active # None
  PROVE  /\ b.active \in Tx /\ b.active.id \in TxIds /\ b.active.id \in Admitted(b)
         /\ b.active.id \in Given(b, w)
         /\ b.active.session = b.admitted[b.active.id].session
         /\ b.active.from \in {None, b.admitted[b.active.id].from}
         /\ b.admitted[b.active.id].from \in Owner
         /\ b.active.from # None => b.replies[b.active.id] = << >>
         /\ \A tx \in Elements(b.queued) : tx.id # b.active.id
<1>1. b.active \in Tx /\ b.active.id \in TxIds
  BY BrokerFields DEF Tx
<1>2. b.active.id \in Admitted(b) /\ b.active.session = b.admitted[b.active.id].session
      /\ b.active.from \in {None, b.admitted[b.active.id].from}
      /\ b.admitted[b.active.id].from \in Owner
  BY DEF Writing, Recorded
<1>3. b.active.id \in Given(b, w)
  BY DEF Writing, InLine
<1>4. b.active.from # None => b.replies[b.active.id] = << >>
  BY DEF Writing, Truthful
<1>5. \A tx \in Elements(b.queued) : tx.id # b.active.id
  <2> SUFFICES ASSUME NEW n \in 1 .. Len(b.queued) PROVE b.queued[n].id # b.active.id
    BY DEF Elements
  <2>1. b.active.id < b.queued[n].id
    BY <1>3 DEF Writing, InLine
  <2>2. b.active.id \in Nat
    BY <1>1, NothingIsNone
  <2> QED
    BY <2>1, <2>2
<1> QED
  BY <1>1, <1>2, <1>3, <1>4, <1>5

\* The caller of the active transmission hears of it, and is not waited for
\* any more.
LEMMA AnswerActiveKeeps ==
  ASSUME NEW b \in Broker, NEW c \in Broker, NEW w \in Seq(TxIds), NEW al,
         NEW reply \in Reply \ NotSent, Writing(b, w, al), b.active # None,
         c.status = b.status, c.sessions = b.sessions, c.drained = b.drained,
         c.admitted = b.admitted, c.toWriter = b.toWriter, c.queued = b.queued,
         c.active \in {None, [b.active EXCEPT !.from = None]},
         c.replies = AnswerAll(b, {b.active}, reply).replies,
         reply = "transport_down" => Abandoned(b, b.active.session) \/ b.status = "down"
  PROVE  Writing(c, w, al)
<1>1. Given(b, w) = Given(c, w) /\ Admitted(b) = Admitted(c)
  BY DEF Given, Admitted
<1>2. /\ b.active \in Tx /\ b.active.id \in TxIds /\ b.active.id \in Admitted(b)
      /\ b.active.id \in Given(b, w)
      /\ b.active.session = b.admitted[b.active.id].session
      /\ b.active.from # None => b.replies[b.active.id] = << >>
      /\ \A tx \in Elements(b.queued) : tx.id # b.active.id
  BY ActiveFacts
<1>3. c.active # None => c.active.id = b.active.id /\ c.active.session = b.active.session
                         /\ c.active.from = None
  BY <1>2 DEF Tx
<1>4. \A id \in TxIds :
        \/ c.replies[id] = b.replies[id] /\ (id = b.active.id => b.active.from = None)
        \/ /\ c.replies[id] = << reply >> /\ b.replies[id] = << >>
           /\ id = b.active.id /\ b.active.from # None
  <2> SUFFICES ASSUME NEW id \in TxIds
               PROVE  \/ c.replies[id] = b.replies[id] /\ (id = b.active.id => b.active.from = None)
                      \/ /\ c.replies[id] = << reply >> /\ b.replies[id] = << >>
                         /\ id = b.active.id /\ b.active.from # None
    OBVIOUS
  <2>1. {b.active} \subseteq Tx /\ reply \in Reply
    BY <1>2
  <2>2. c.replies[id] = Heard(b, {b.active}, reply, id)
    BY <2>1, AnswerAllFacts
  <2>3. Append(<< >>, reply) = << reply >>
    OBVIOUS
  <2> QED
    BY <1>2, <2>2, <2>3 DEF Heard
<1>5. Recorded(c)
  BY <1>1, <1>2, <1>3 DEF Writing, Recorded
<1>6. InLine(c, w)
  BY <1>1, <1>2, <1>3 DEF Writing, InLine
<1>7. Truthful(c, w)
  <2>1. ASSUME NEW id \in TxIds
        PROVE  /\ Len(c.replies[id]) <= 1
               /\ c.replies[id] # << >> =>
                    id \in Admitted(c) /\ (id \in Given(c, w) <=> c.replies[id][1] \notin NotSent)
    <3>1. CASE c.replies[id] = b.replies[id]
      BY <1>1, <3>1 DEF Writing, Truthful
    <3>2. CASE c.replies[id] = << reply >> /\ id = b.active.id
      <4>1. id \in Admitted(c) /\ id \in Given(c, w)
        BY <1>1, <1>2, <3>2
      <4>2. Len(<< reply >>) = 1 /\ << reply >>[1] = reply
        OBVIOUS
      <4>3. c.replies[id] = << reply >>
        BY <3>2
      <4>4. Len(c.replies[id]) = 1 /\ c.replies[id][1] = reply
        BY ONLY <4>2, <4>3
      <4>5. Len(c.replies[id]) <= 1
        BY ONLY <4>4
      <4> QED
        BY <4>1, <4>4, <4>5
    <3>3. c.replies[id] = b.replies[id] \/ (c.replies[id] = << reply >> /\ id = b.active.id)
      BY <1>4
    <3> QED
      BY <3>1, <3>2, <3>3
  <2>2. ASSUME NEW n \in 1 .. Len(c.queued) PROVE c.replies[c.queued[n].id] = << >>
    <3>1. c.queued[n] \in Elements(b.queued)
      BY DEF Elements
    <3>2. c.queued[n].id \in TxIds /\ b.replies[c.queued[n].id] = << >>
      BY <3>1, QueuedFacts
    <3>3. c.queued[n].id # b.active.id
      BY <1>2, <3>1
    <3> QED
      BY <1>4, <3>2, <3>3
  <2> QED
    BY <1>3, <2>1, <2>2 DEF Truthful
<1>8. WritesPending(c, al)
  <2> SUFFICES ASSUME NEW n \in Admitted(c)
               PROVE  \/ SettledTx(c, al, n) \/ Abandoned(c, c.admitted[n].session)
                      \/ c.status = "down" /\ c.admitted[n].session \notin c.drained
                      \/ \E k \in 1 .. Len(c.queued) : c.queued[k].id = n
    BY DEF WritesPending
  <2>1. n \in TxIds
    <3>1. Len(b.admitted) \in Nat /\ Len(b.admitted) <= MaxTx /\ MaxTx \in Nat
      BY BrokerFields, NothingIsNone DEF Writing, Recorded
    <3> QED
      BY <1>1, <3>1 DEF Admitted, TxIds
  <2>2. CASE SettledTx(b, al, n)
    <3>1. CASE c.replies[n] = b.replies[n]
      BY <2>2, <3>1 DEF SettledTx
    <3>2. CASE b.replies[n] = << >>
      BY <2>2, <3>2 DEF SettledTx
    <3> QED
      BY <1>4, <2>1, <3>1, <3>2
  <2>3. CASE Abandoned(b, b.admitted[n].session)
    BY <2>3 DEF Abandoned
  <2>4. CASE b.status = "down" /\ b.admitted[n].session \notin b.drained
    BY <2>4
  <2>5. CASE b.active.id = n /\ b.active.from # None
    <3>1. << reply >>[1] = reply /\ << reply >> # << >>
      OBVIOUS
    <3>2. c.replies[n] = << reply >>
      BY <1>4, <2>1, <2>5
    <3>3. c.replies[n][1] = reply /\ c.replies[n] # << >>
      BY ONLY <3>1, <3>2
    <3>4. CASE reply = "transport_down"
      <4>1. b.active.session \notin b.drained
        BY DEF Writing, WritesClosed
      <4> QED
        BY <1>2, <2>5, <3>4, <4>1 DEF Abandoned
    <3>5. CASE reply # "transport_down"
      BY <3>3, <3>5 DEF SettledTx, NotSent
    <3> QED
      BY <3>4, <3>5
  <2>6. CASE \E k \in 1 .. Len(b.queued) : b.queued[k].id = n
    BY <2>6
  <2> QED
    BY <1>1, <2>2, <2>3, <2>4, <2>5, <2>6 DEF Writing, WritesPending
<1>9. WritesClosed(c)
  BY <1>3 DEF Writing, WritesClosed
<1> QED
  BY <1>5, <1>6, <1>7, <1>8, <1>9 DEF Writing

\* Nobody waits for a dead caller.
LEMMA ForgetKeeps ==
  ASSUME NEW b \in Broker, NEW c \in Broker, NEW w \in Seq(TxIds), NEW al,
         Writing(b, w, al), b.active # None,
         c.status = b.status, c.sessions = b.sessions, c.drained = b.drained,
         c.admitted = b.admitted, c.toWriter = b.toWriter, c.queued = b.queued,
         c.replies = b.replies, c.active = [b.active EXCEPT !.from = None],
         b.active.from # None => ~al[b.active.from]
  PROVE  Writing(c, w, al)
<1>1. Given(b, w) = Given(c, w) /\ Admitted(b) = Admitted(c)
  BY DEF Given, Admitted
<1>2. /\ b.active \in Tx /\ b.active.id \in Admitted(b)
      /\ b.active.id \in Given(b, w)
      /\ b.active.session = b.admitted[b.active.id].session
      /\ b.active.from \in {None, b.admitted[b.active.id].from}
  BY ActiveFacts
<1>3. c.active # None /\ c.active.id = b.active.id /\ c.active.session = b.active.session
      /\ c.active.from = None
  BY <1>2, NothingIsNone, BrokerFields DEF Tx
<1>4. Recorded(c)
  BY <1>1, <1>2, <1>3 DEF Writing, Recorded
<1>5. InLine(c, w)
  BY <1>1, <1>2, <1>3 DEF Writing, InLine
<1>6. Truthful(c, w)
  BY <1>1, <1>3 DEF Writing, Truthful
<1>7. WritesPending(c, al)
  <2> SUFFICES ASSUME NEW n \in Admitted(c)
               PROVE  \/ SettledTx(c, al, n) \/ Abandoned(c, c.admitted[n].session)
                      \/ c.status = "down" /\ c.admitted[n].session \notin c.drained
                      \/ \E k \in 1 .. Len(c.queued) : c.queued[k].id = n
    BY DEF WritesPending
  <2>1. SettledTx(b, al, n) => SettledTx(c, al, n)
    BY DEF SettledTx
  <2>2. Abandoned(b, b.admitted[n].session) => Abandoned(c, c.admitted[n].session)
    BY DEF Abandoned
  <2>3. b.active.id = n /\ b.active.from # None => SettledTx(c, al, n)
    BY <1>2 DEF SettledTx
  <2> QED
    BY <1>1, <2>1, <2>2, <2>3 DEF Writing, WritesPending
<1>8. WritesClosed(c)
  BY <1>3 DEF Writing, WritesClosed
<1> QED
  BY <1>4, <1>5, <1>6, <1>7, <1>8 DEF Writing

\* The head of the queue goes to the writer.
LEMMA TakeKeeps ==
  ASSUME NEW b \in Broker, NEW c \in Broker, NEW w \in Seq(TxIds), NEW al,
         Writing(b, w, al), b.active = None, b.toWriter = None, Len(b.queued) >= 1,
         c.status = b.status, c.sessions = b.sessions, c.drained = b.drained,
         c.admitted = b.admitted, c.replies = b.replies,
         c.active = b.queued[1], c.toWriter = b.queued[1].id,
         Len(c.queued) = Len(b.queued) - 1,
         \A k \in 1 .. Len(c.queued) : c.queued[k] = b.queued[k + 1]
  PROVE  Writing(c, w, al)
<1> DEFINE head == b.queued[1]
<1>1. Len(b.queued) \in Nat /\ Len(c.queued) \in Nat /\ 1 \in 1 .. Len(b.queued)
      /\ \A k \in 1 .. Len(c.queued) : k + 1 \in 1 .. Len(b.queued) /\ k + 1 # 1
  BY BrokerFields
<1>2. head \in Elements(b.queued)
  BY <1>1 DEF Elements
<1> HIDE DEF head
<1>3. /\ head \in Tx /\ head.id \in TxIds /\ head.id \in Admitted(b) /\ head = b.admitted[head.id]
      /\ head.from \in Owner /\ b.replies[head.id] = << >> /\ head.id \notin Given(b, w)
      /\ head # None /\ head.id # None
  BY <1>2, QueuedFacts, NothingIsNone
<1>4. c.active = head /\ c.toWriter = head.id
  BY DEF head
<1>5. Given(c, w) = Given(b, w) \cup {head.id} /\ Admitted(b) = Admitted(c) /\ Given(b, w) = Elements(w)
  BY <1>3, <1>4 DEF Given, Admitted
<1>6. Recorded(c)
  <2>1. /\ Len(c.admitted) <= MaxTx
        /\ \A n \in Admitted(c) : c.admitted[n].id = n /\ c.admitted[n].from \in Owner
        /\ \A n \in 1 .. Len(b.queued) :
             b.queued[n].id \in Admitted(b) /\ b.queued[n] = b.admitted[b.queued[n].id]
    BY <1>5 DEF Writing, Recorded
  <2>2. \A n \in 1 .. Len(c.queued) :
          c.queued[n].id \in Admitted(c) /\ c.queued[n] = c.admitted[c.queued[n].id]
    <3> SUFFICES ASSUME NEW n \in 1 .. Len(c.queued)
                 PROVE  c.queued[n].id \in Admitted(c) /\ c.queued[n] = c.admitted[c.queued[n].id]
      OBVIOUS
    <3>1. n + 1 \in 1 .. Len(b.queued) /\ c.queued[n] = b.queued[n + 1]
      BY <1>1
    <3> QED
      BY <1>5, <2>1, <3>1
  <2>3. /\ c.active.id \in Admitted(c) /\ c.active = c.admitted[c.active.id]
    BY <1>3, <1>4, <1>5
  <2> QED
    BY <2>1, <2>2, <2>3 DEF Recorded
<1>7. InLine(c, w)
  <2>1. \A m \in 1 .. Len(w) : w[m] < head.id
    BY <1>1, <1>5 DEF Writing, InLine, Elements, head
  <2>2. ASSUME NEW m \in 1 .. Len(c.queued), NEW n \in 1 .. Len(c.queued), m < n
        PROVE  c.queued[m].id < c.queued[n].id
    <3>1. m + 1 < n + 1 /\ m + 1 \in 1 .. Len(b.queued) /\ n + 1 \in 1 .. Len(b.queued)
      BY <1>1, <2>2
    <3>2. b.queued[m + 1].id < b.queued[n + 1].id
      BY <3>1 DEF Writing, InLine
    <3> QED
      BY <3>2
  <2>3. ASSUME NEW id \in Given(c, w), NEW n \in 1 .. Len(c.queued)
        PROVE  id < c.queued[n].id
    <3>1. CASE id \in Given(b, w)
      BY <1>1, <3>1 DEF Writing, InLine
    <3>2. CASE id = head.id
      <4>1. 1 < n + 1 /\ n + 1 \in 1 .. Len(b.queued)
        BY <1>1
      <4>2. b.queued[1].id < b.queued[n + 1].id
        BY <1>1, <4>1 DEF Writing, InLine
      <4> QED
        BY <3>2, <4>2 DEF head
    <3> QED
      BY <1>5, <3>1, <3>2
  <2>4. c.active.id \in Given(c, w) /\ Given(c, w) \subseteq Admitted(c)
    BY <1>3, <1>4, <1>5 DEF Writing, InLine
  <2> QED
    BY <1>4, <2>1, <2>2, <2>3, <2>4 DEF Writing, InLine
<1>8. Truthful(c, w)
  <2>1. \A id \in TxIds : c.replies[id] # << >> => (id \in Given(c, w) <=> id \in Given(b, w))
    BY <1>3, <1>5
  <2>2. /\ \A id \in TxIds : Len(b.replies[id]) <= 1
        /\ \A id \in TxIds : b.replies[id] # << >> =>
             id \in Admitted(b) /\ (id \in Given(b, w) <=> b.replies[id][1] \notin NotSent)
        /\ \A n \in 1 .. Len(b.queued) : b.replies[b.queued[n].id] = << >>
    BY DEF Writing, Truthful
  <2>3. \A id \in TxIds :
          /\ Len(c.replies[id]) <= 1
          /\ c.replies[id] # << >> =>
               id \in Admitted(c) /\ (id \in Given(c, w) <=> c.replies[id][1] \notin NotSent)
    BY <1>5, <2>1, <2>2
  <2>4. \A n \in 1 .. Len(c.queued) : c.replies[c.queued[n].id] = << >>
    BY <1>1, <2>2
  <2>5. c.replies[c.active.id] = << >>
    BY <1>3, <1>4
  <2> QED
    BY <2>3, <2>4, <2>5 DEF Truthful
<1>9. WritesPending(c, al)
  <2> SUFFICES ASSUME NEW n \in Admitted(c)
               PROVE  \/ SettledTx(c, al, n) \/ Abandoned(c, c.admitted[n].session)
                      \/ c.status = "down" /\ c.admitted[n].session \notin c.drained
                      \/ \E k \in 1 .. Len(c.queued) : c.queued[k].id = n
                      \/ c.active # None /\ c.active.id = n /\ c.active.from # None
    BY DEF WritesPending
  <2>1. SettledTx(b, al, n) => SettledTx(c, al, n)
    BY DEF SettledTx
  <2>2. Abandoned(b, b.admitted[n].session) => Abandoned(c, c.admitted[n].session)
    BY DEF Abandoned
  <2>3. ASSUME NEW k \in 1 .. Len(b.queued), b.queued[k].id = n
        PROVE  \/ \E j \in 1 .. Len(c.queued) : c.queued[j].id = n
               \/ c.active # None /\ c.active.id = n /\ c.active.from # None
    <3>1. CASE k = 1
      BY <1>3, <1>4, <2>3, <3>1, NothingIsNone DEF head
    <3>2. CASE k # 1
      <4>1. k - 1 \in 1 .. Len(c.queued) /\ (k - 1) + 1 = k
        BY <1>1, <3>2
      <4> QED
        BY <2>3, <4>1
    <3> QED
      BY <3>1, <3>2
  <2> QED
    BY <1>5, <2>1, <2>2, <2>3 DEF Writing, WritesPending
<1>10. WritesClosed(c)
  <2>1. \A s \in c.drained : c.sessions[s] = "closed" /\ c.active.session # s
    <3>1. head.session \in Session => b.sessions[head.session] # "closed"
      BY <1>1 DEF Writing, WritesClosed, head
    <3> QED
      BY <1>4, <3>1, BrokerFields DEF Writing, WritesClosed
  <2> QED
    BY <1>1, <2>1 DEF Writing, WritesClosed
<1> QED
  BY <1>6, <1>7, <1>8, <1>9, <1>10 DEF Writing

\* The broker stops.
LEMMA DownKeeps ==
  ASSUME NEW b \in Broker, NEW c \in Broker, NEW w \in Seq(TxIds), NEW al,
         Writing(b, w, al), c = [b EXCEPT !.status = "down"]
  PROVE  Writing(c, w, al)
<1>1. /\ c.status = "down" /\ c.sessions = b.sessions /\ c.drained = b.drained
      /\ c.queued = b.queued /\ c.active = b.active
      /\ c.toWriter = b.toWriter /\ c.replies = b.replies /\ c.admitted = b.admitted
  BY DEF Broker
<1>2. Given(b, w) = Given(c, w) /\ Admitted(b) = Admitted(c)
  BY <1>1 DEF Given, Admitted
<1>3. Recorded(c) /\ InLine(c, w) /\ Truthful(c, w)
  <2>1. Recorded(b) /\ InLine(b, w) /\ Truthful(b, w)
    BY DEF Writing
  <2>2. Recorded(c)
    BY <1>1, <1>2, <2>1 DEF Recorded
  <2>3. InLine(c, w)
    BY <1>1, <1>2, <2>1 DEF InLine
  <2>4. Truthful(c, w)
    BY <1>1, <1>2, <2>1 DEF Truthful
  <2> QED
    BY <2>2, <2>3, <2>4
<1>4. \A s : Abandoned(b, s) <=> Abandoned(c, s)
  BY <1>1 DEF Abandoned
<1>5. \A n : SettledTx(b, al, n) <=> SettledTx(c, al, n)
  BY <1>1 DEF SettledTx
<1>6. WritesPending(c, al)
  BY <1>1, <1>2, <1>4, <1>5 DEF Writing, WritesPending
<1>7. WritesClosed(c)
  BY <1>1 DEF Writing, WritesClosed
<1> QED
  BY <1>3, <1>6, <1>7 DEF Writing

\* The writer takes what it is given.
LEMMA WireKeeps ==
  ASSUME NEW b \in Broker, NEW c \in Broker, NEW w \in Seq(TxIds), NEW al,
         Writing(b, w, al), b.toWriter # None, c.toWriter = None,
         c.status = b.status, c.sessions = b.sessions, c.drained = b.drained,
         c.queued = b.queued, c.active = b.active,
         c.replies = b.replies, c.admitted = b.admitted
  PROVE  /\ Append(w, b.toWriter) \in Seq(TxIds)
         /\ Writing(c, Append(w, b.toWriter), al)
<1> DEFINE v == Append(w, b.toWriter)
<1>1. b.toWriter \in TxIds /\ TxIds \subseteq Nat
  BY BrokerFields, NothingIsNone
<1>2. v \in Seq(TxIds) /\ Len(v) = Len(w) + 1 /\ Len(w) \in Nat /\ v[Len(w) + 1] = b.toWriter
      /\ \A m \in 1 .. Len(w) : v[m] = w[m]
  BY <1>1
<1> HIDE DEF v
<1>3. \A m \in 1 .. Len(v) : m \in 1 .. Len(w) \/ m = Len(w) + 1
  BY <1>2
<1>4. Elements(v) = Elements(w) \cup {b.toWriter}
  <2>1. Elements(v) \subseteq Elements(w) \cup {b.toWriter}
    BY <1>2, <1>3 DEF Elements
  <2>2. \A m \in 1 .. Len(w) : m \in 1 .. Len(v) /\ v[m] = w[m]
    BY <1>2
  <2>3. Len(w) + 1 \in 1 .. Len(v)
    BY <1>2
  <2> QED
    BY <1>2, <2>1, <2>2, <2>3 DEF Elements
<1>5. Given(c, v) = Given(b, w) /\ Admitted(c) = Admitted(b)
  BY <1>4 DEF Given, Admitted
<1>6. Recorded(c)
  BY <1>5 DEF Writing, Recorded
<1>7. InLine(c, v)
  <2>1. ASSUME NEW m \in 1 .. Len(v), NEW n \in 1 .. Len(v), m < n PROVE v[m] < v[n]
    <3>1. m \in 1 .. Len(w) /\ v[m] = w[m]
      BY <1>2, <2>1
    <3>2. CASE n \in 1 .. Len(w)
      BY <1>2, <2>1, <3>1, <3>2 DEF Writing, InLine
    <3>3. CASE n = Len(w) + 1
      BY <1>2, <3>1, <3>3 DEF Writing, InLine
    <3> QED
      BY <1>3, <3>2, <3>3
  <2> QED
    BY <1>5, <2>1 DEF Writing, InLine
<1>8. Truthful(c, v)
  BY <1>5 DEF Writing, Truthful
<1>9. \A s : Abandoned(b, s) <=> Abandoned(c, s)
  BY DEF Abandoned
<1>10. \A n : SettledTx(b, al, n) <=> SettledTx(c, al, n)
  BY DEF SettledTx
<1>11. WritesPending(c, al)
  BY <1>5, <1>9, <1>10 DEF Writing, WritesPending
<1>12. WritesClosed(c)
  BY DEF Writing, WritesClosed
<1>13. Writing(c, v, al)
  BY <1>6, <1>7, <1>8, <1>11, <1>12 DEF Writing
<1> QED
  BY <1>2, <1>13 DEF v

\* A new transmission joins the end of the line.
LEMMA JoinKeeps ==
  ASSUME NEW b \in Broker, NEW c \in Broker, NEW w \in Seq(TxIds), NEW al, NEW tx \in Tx,
         tx.id = Len(b.admitted) + 1, tx.from \in Owner,
         tx.session \in Session => b.sessions[tx.session] = "open",
         Writing(b, w, al), Len(b.admitted) < MaxTx,
         c.queued = Append(b.queued, tx), c.admitted = Append(b.admitted, tx),
         c.status = b.status, c.sessions = b.sessions, c.drained = b.drained,
         c.toWriter = b.toWriter, c.replies = b.replies, c.active = b.active
  PROVE  Writing(c, w, al)
<1> DEFINE N == Len(b.admitted)
           Q == Len(b.queued)
<1>1. b.admitted \in Seq(Tx) /\ b.queued \in Seq(Tx) /\ N \in Nat /\ Q \in Nat /\ MaxTx \in Nat
  BY BrokerFields, NothingIsNone
<1>2. tx.id = N + 1 /\ tx.id \in TxIds
  BY <1>1 DEF Tx, TxIds
<1>3. /\ c.status = b.status /\ c.sessions = b.sessions /\ c.drained = b.drained
      /\ c.toWriter = b.toWriter /\ c.replies = b.replies /\ c.active = b.active
      /\ c.queued = Append(b.queued, tx) /\ c.admitted = Append(b.admitted, tx)
  OBVIOUS
<1>4. /\ Len(c.admitted) = N + 1 /\ c.admitted[N + 1] = tx
      /\ \A n \in 1 .. N : c.admitted[n] = b.admitted[n]
  BY <1>1, <1>2, <1>3
<1>5. /\ Len(c.queued) = Q + 1 /\ c.queued[Q + 1] = tx
      /\ \A n \in 1 .. Q : c.queued[n] = b.queued[n]
  BY <1>1, <1>2, <1>3
<1> HIDE DEF N, Q
<1>6. /\ Admitted(b) = 1 .. N /\ Admitted(c) = 1 .. N + 1 /\ N + 1 \notin 1 .. N
      /\ \A n \in 1 .. N + 1 : n \in 1 .. N \/ n = N + 1
      /\ \A n \in 1 .. Q + 1 : n \in 1 .. Q \/ n = Q + 1
      /\ \A n \in 1 .. N : n \in 1 .. N + 1 /\ n < N + 1
      /\ N + 1 \in 1 .. N + 1 /\ Q + 1 \in 1 .. Q + 1
  BY <1>1, <1>4 DEF Admitted, N
<1>7. Given(c, w) = Given(b, w)
  BY <1>3 DEF Given
<1>8. b.replies[N + 1] = << >>
  <2>1. N + 1 \in TxIds
    BY <1>2
  <2> QED
    BY <1>6, <2>1 DEF Writing, Truthful
<1>9. Recorded(c)
  <2>1. Len(c.admitted) <= MaxTx
    BY <1>1, <1>4 DEF N
  <2>2. \A n \in Admitted(c) : c.admitted[n].id = n /\ c.admitted[n].from \in Owner
    BY <1>2, <1>4, <1>6 DEF Writing, Recorded
  <2>3. ASSUME NEW n \in 1 .. Len(c.queued)
        PROVE  c.queued[n].id \in Admitted(c) /\ c.queued[n] = c.admitted[c.queued[n].id]
    <3>1. CASE n \in 1 .. Q
      <4>1. b.queued[n].id \in 1 .. N /\ b.queued[n] = b.admitted[b.queued[n].id]
        BY <1>6, <3>1 DEF Writing, Recorded, Q
      <4> QED
        BY <1>4, <1>5, <1>6, <3>1, <4>1
    <3>2. CASE n = Q + 1
      BY <1>2, <1>4, <1>5, <1>6, <3>2
    <3> QED
      BY <1>5, <1>6, <3>1, <3>2
  <2>4. c.active # None =>
          /\ c.active.id \in Admitted(c)
          /\ c.active.session = c.admitted[c.active.id].session
          /\ c.active.from \in {None, c.admitted[c.active.id].from}
    BY <1>3, <1>4, <1>6 DEF Writing, Recorded
  <2> QED
    BY <2>1, <2>2, <2>3, <2>4 DEF Recorded
<1>10. InLine(c, w)
  <2>1. \A n \in 1 .. Q : b.queued[n].id \in 1 .. N
    BY <1>6 DEF Writing, Recorded, Q
  <2>2. ASSUME NEW m \in 1 .. Len(c.queued), NEW n \in 1 .. Len(c.queued), m < n
        PROVE  c.queued[m].id < c.queued[n].id
    <3>1. m \in 1 .. Q
      BY <1>1, <1>5, <2>2
    <3>2. CASE n \in 1 .. Q
      BY <1>5, <2>2, <3>1, <3>2 DEF Writing, InLine, Q
    <3>3. CASE n = Q + 1
      BY <1>2, <1>5, <1>6, <2>1, <3>1, <3>3
    <3> QED
      BY <1>5, <1>6, <3>2, <3>3
  <2>3. Given(b, w) \subseteq 1 .. N
    BY <1>6 DEF Writing, InLine
  <2>4. ASSUME NEW id \in Given(c, w), NEW n \in 1 .. Len(c.queued)
        PROVE  id < c.queued[n].id
    <3>1. CASE n \in 1 .. Q
      BY <1>5, <1>7, <3>1 DEF Writing, InLine, Q
    <3>2. CASE n = Q + 1
      BY <1>2, <1>5, <1>6, <1>7, <2>3, <3>2
    <3> QED
      BY <1>5, <1>6, <3>1, <3>2
  <2>5. Given(c, w) \subseteq Admitted(c) /\ (c.active # None => c.active.id \in Given(c, w))
    BY <1>3, <1>6, <1>7, <2>3 DEF Writing, InLine
  <2> QED
    BY <1>3, <2>2, <2>4, <2>5 DEF Writing, InLine
<1>11. Truthful(c, w)
  <2>1. \A id \in TxIds : c.replies[id] # << >> => id \in Admitted(c)
    BY <1>3, <1>6 DEF Writing, Truthful
  <2>2. \A n \in 1 .. Len(c.queued) : c.replies[c.queued[n].id] = << >>
    BY <1>2, <1>3, <1>5, <1>6, <1>8 DEF Writing, Truthful, Q
  <2> QED
    BY <1>3, <1>7, <2>1, <2>2 DEF Writing, Truthful
<1>12. WritesPending(c, al)
  <2> SUFFICES ASSUME NEW n \in Admitted(c)
               PROVE  \/ SettledTx(c, al, n) \/ Abandoned(c, c.admitted[n].session)
                      \/ c.status = "down" /\ c.admitted[n].session \notin c.drained
                      \/ \E k \in 1 .. Len(c.queued) : c.queued[k].id = n
                      \/ c.active # None /\ c.active.id = n /\ c.active.from # None
    BY DEF WritesPending
  <2>1. CASE n = N + 1
    BY <1>2, <1>5, <1>6, <2>1
  <2>2. CASE n \in 1 .. N
    <3>1. SettledTx(b, al, n) => SettledTx(c, al, n)
      BY <1>3, <1>4, <2>2 DEF SettledTx
    <3>2. Abandoned(b, b.admitted[n].session) => Abandoned(c, c.admitted[n].session)
      BY <1>3, <1>4, <2>2 DEF Abandoned
    <3>3. ASSUME NEW k \in 1 .. Q, b.queued[k].id = n
          PROVE  \E j \in 1 .. Len(c.queued) : c.queued[j].id = n
      <4>1. k \in 1 .. Len(c.queued)
        BY <1>1, <1>5
      <4> QED
        BY <1>5, <3>3, <4>1
    <3> QED
      BY <1>3, <1>4, <1>6, <2>2, <3>1, <3>2, <3>3 DEF Writing, WritesPending, Q
  <2> QED
    BY <1>6, <2>1, <2>2
<1>13. WritesClosed(c)
  BY <1>2, <1>3, <1>5, <1>6 DEF Writing, WritesClosed, Q
<1> QED
  BY <1>9, <1>10, <1>11, <1>12, <1>13 DEF Writing

-----------------------------------------------------------------------------
(* Steps of the receiving half.                                            *)

\* pump_rx/1 delivers at most one frame, to the owner of its route and within
\* the windows, and leaves the writing half alone.
Delivers(b, c, route) ==
  /\ IsOwned(b, route) /\ WindowOpen(b, route)
  /\ c.delivered = Append(b.delivered, b.routes[route])
  /\ c.receipts = b.receipts \cup {[id |-> Len(b.delivered) + 1,
                                    owner |-> b.routes[route].owner, route |-> route]}

Pumped(b, c) ==
  /\ SameWriting(b, c) /\ c.routes = b.routes /\ c.acked = b.acked
  /\ \/ c.delivered = b.delivered /\ c.receipts = b.receipts
     \/ \E route \in Route : Delivers(b, c, route)

\* pump_rx/1 moves the receiving half only: the buffered message, the reader's
\* turn and the counts of what was delivered.
LEMMA PumpRxPumps ==
  ASSUME NEW b \in Broker
  PROVE  PumpRx(b) \in Broker /\ Pumped(b, PumpRx(b))
<1> DEFINE d == DeliverOrDiscard(b)
<1>1. d \in Broker /\ Pumped(b, d)
  <2>1. CASE b.buffered = None
    BY <2>1 DEF DeliverOrDiscard, Pumped, SameWriting
  <2>2. CASE b.buffered # None /\ ~IsOwned(b, b.buffered)
    <3>1. d = [b EXCEPT !.buffered = None]
      BY <2>2 DEF DeliverOrDiscard
    <3> QED
      BY <3>1 DEF Pumped, SameWriting, Broker
  <2>3. CASE b.buffered # None /\ IsOwned(b, b.buffered) /\ WindowOpen(b, b.buffered)
    <3> DEFINE new == [id |-> Len(b.delivered) + 1, owner |-> b.routes[b.buffered].owner,
                       route |-> b.buffered]
               delivered == Append(b.delivered, b.routes[b.buffered])
               receipts == b.receipts \cup {new}
    <3>1. b.buffered \in Route /\ b.routes[b.buffered] \in Owned /\ b.delivered \in Seq(Owned)
      BY <2>3, BrokerFields DEF IsOwned
    <3>2. delivered \in Seq(Owned)
      BY <3>1
    <3>3. new \in Receipt
      BY <3>1 DEF Receipt, Owned
    <3>4. receipts \subseteq Receipt
      BY <3>3, BrokerFields
    <3>5. d = [b EXCEPT !.buffered = None, !.delivered = delivered, !.receipts = receipts]
      BY <2>3 DEF DeliverOrDiscard, Deliver
    <3>6. d.delivered = Append(b.delivered, b.routes[b.buffered])
          /\ d.receipts = b.receipts \cup {new}
      BY <3>5 DEF Broker
    <3> HIDE DEF new, delivered, receipts, d
    <3>7. d \in Broker /\ SameWriting(b, d) /\ d.routes = b.routes /\ d.acked = b.acked
      BY <3>2, <3>4, <3>5 DEF SameWriting, Broker
    <3>8. Delivers(b, d, b.buffered)
      BY <2>3, <3>6 DEF Delivers, new
    <3> QED
      BY <3>1, <3>7, <3>8 DEF Pumped
  <2>4. CASE b.buffered # None /\ IsOwned(b, b.buffered) /\ ~WindowOpen(b, b.buffered)
    BY <2>4 DEF DeliverOrDiscard, Pumped, SameWriting
  <2> QED
    BY <2>1, <2>2, <2>3, <2>4
<1> HIDE DEF d
<1> DEFINE e == AskReader(d)
<1>2. /\ e \in Broker /\ SameWriting(d, e) /\ e.routes = d.routes /\ e.acked = d.acked
      /\ e.delivered = d.delivered /\ e.receipts = d.receipts
  <2>1. e = d \/ e = [d EXCEPT !.reading = TRUE, !.toReader = TRUE]
    BY DEF AskReader
  <2> HIDE DEF e
  <2>2. CASE e = d
    BY <1>1, <2>2 DEF SameWriting
  <2>3. CASE e = [d EXCEPT !.reading = TRUE, !.toReader = TRUE]
    BY <1>1, <2>3 DEF SameWriting, Broker
  <2> QED
    BY <2>1, <2>2, <2>3
<1>3. PumpRx(b) = e
  BY DEF PumpRx, d
<1> HIDE DEF e
<1>4. SameWriting(b, e)
  BY <1>1, <1>2 DEF Pumped, SameWriting
<1>5. \A route : Delivers(b, d, route) => Delivers(b, e, route)
  BY <1>2 DEF Delivers
<1>6. Pumped(b, e)
  BY <1>1, <1>2, <1>4, <1>5 DEF Pumped
<1> QED
  BY <1>2, <1>3, <1>6

\* Deliveries respect the windows, and go to who can return the credit.
LEMMA PumpedKeeps ==
  ASSUME NEW b \in Broker, NEW c \in Broker, NEW al, Receiving(b, al), Pumped(b, c)
  PROVE  Receiving(c, al)
<1>1. CASE c.delivered = b.delivered /\ c.receipts = b.receipts
  <2>1. SameReceiving(b, c)
    BY <1>1 DEF Pumped, SameWriting, SameReceiving
  <2> QED
    BY <2>1, ReceivingKept
<1>2. CASE \E route \in Route : Delivers(b, c, route)
  <2>1. PICK route \in Route : Delivers(b, c, route)
    BY <1>2
  <2> DEFINE N == Len(b.delivered)
             new == [id |-> N + 1, owner |-> b.routes[route].owner, route |-> route]
  <2>2. /\ IsOwned(b, route) /\ WindowOpen(b, route)
        /\ c.delivered = Append(b.delivered, b.routes[route])
        /\ c.receipts = b.receipts \cup {new}
    BY <2>1 DEF Delivers
  <2>3. new.id = N + 1 /\ new.owner = b.routes[route].owner /\ new.route = route
    OBVIOUS
  <2>4. /\ c.routes = b.routes /\ c.acked = b.acked /\ c.sessions = b.sessions
        /\ c.drained = b.drained
    BY DEF Pumped, SameWriting
  <2> HIDE DEF new
  <2>5. b.delivered \in Seq(Owned) /\ b.routes[route] \in Owned /\ N \in Nat
    BY <2>2, BrokerFields DEF IsOwned
  <2>6. /\ Len(c.delivered) = N + 1 /\ c.delivered[N + 1] = b.routes[route]
        /\ \A n \in 1 .. N : c.delivered[n] = b.delivered[n]
    BY <2>2, <2>5
  <2>7. /\ RxLimit \in Nat /\ RxRouteLimit \in Nat
        /\ IsFiniteSet(b.receipts) /\ IsFiniteSet(OnRoute(b, route))
        /\ Cardinality(b.receipts) \in Nat /\ Cardinality(OnRoute(b, route)) \in Nat
    <3>1. IsFiniteSet(b.receipts)
      BY DEF Receiving, Windows
    <3>2. OnRoute(b, route) \in SUBSET b.receipts
      BY DEF OnRoute
    <3>3. IsFiniteSet(OnRoute(b, route))
      BY <3>1, <3>2, FS_Subset
    <3>4. Cardinality(b.receipts) \in Nat /\ Cardinality(OnRoute(b, route)) \in Nat
      BY <3>1, <3>3, FS_CardinalityType
    <3> QED
      BY <3>1, <3>3, <3>4, LimitAssumption
  <2>8. Windows(c)
    <3>1. /\ IsFiniteSet(c.receipts)
          /\ Cardinality(c.receipts) = IF new \in b.receipts THEN Cardinality(b.receipts)
                                       ELSE Cardinality(b.receipts) + 1
      <4>1. c.receipts = b.receipts \cup {new}
        BY <2>2
      <4> QED
        BY ONLY <2>7, <4>1, FS_AddElement
    <3>2. Cardinality(c.receipts) <= RxLimit
      BY <2>2, <2>7, <3>1 DEF WindowOpen
    <3>3. ASSUME NEW r \in Route PROVE Cardinality(OnRoute(c, r)) <= RxRouteLimit
      <4>1. CASE r = route
        <5>1. OnRoute(c, r) = OnRoute(b, route) \cup {new}
          BY <2>2, <2>3, <4>1 DEF OnRoute
        <5>2. Cardinality(OnRoute(c, r)) = IF new \in OnRoute(b, route)
                 THEN Cardinality(OnRoute(b, route)) ELSE Cardinality(OnRoute(b, route)) + 1
          BY <2>7, <5>1, FS_AddElement
        <5> QED
          BY <2>2, <2>7, <5>2 DEF WindowOpen
      <4>2. CASE r # route
        <5>1. OnRoute(c, r) = OnRoute(b, r)
          BY <2>2, <2>3, <4>2 DEF OnRoute
        <5> QED
          BY <5>1 DEF Receiving, Windows
      <4> QED
        BY <4>1, <4>2
    <3> QED
      BY <3>1, <3>2, <3>3 DEF Windows
  <2>9. Returnable(c)
    BY <2>2, <2>3, <2>4 DEF Receiving, Returnable, IsOwned
  <2>10. Credits(c, al)
    <3> SUFFICES ASSUME NEW n \in 1 .. Len(c.delivered)
                 PROVE  \/ Returned(c, al, n) \/ Abandoned(c, c.delivered[n].session)
                        \/ \E r \in c.receipts : r.id = n /\ c.routes[r.route] = c.delivered[n]
      BY DEF Credits
    <3>1. CASE n = N + 1
      <4>1. new \in c.receipts
        BY <2>2
      <4> QED
        BY <2>3, <2>4, <2>6, <3>1, <4>1
    <3>2. CASE n \in 1 .. N
      <4>1. \/ Returned(b, al, n) \/ Abandoned(b, b.delivered[n].session)
            \/ \E r \in b.receipts : r.id = n /\ b.routes[r.route] = b.delivered[n]
        BY <3>2 DEF Receiving, Credits
      <4>2. Returned(b, al, n) => Returned(c, al, n)
        BY <2>4, <2>6, <3>2 DEF Returned
      <4>3. Abandoned(b, b.delivered[n].session) => Abandoned(c, c.delivered[n].session)
        BY <2>4, <2>6, <3>2 DEF Abandoned
      <4>4. ASSUME NEW r \in b.receipts, r.id = n, b.routes[r.route] = b.delivered[n]
            PROVE  r \in c.receipts /\ r.id = n /\ c.routes[r.route] = c.delivered[n]
        BY <2>2, <2>4, <2>6, <3>2, <4>4
      <4> QED
        BY <4>1, <4>2, <4>3, <4>4
    <3> QED
      BY <2>5, <2>6, <3>1, <3>2
  <2>11. RoutesClosed(c)
    BY <2>4 DEF Receiving, RoutesClosed, IsOwned
  <2> QED
    BY <2>8, <2>9, <2>10, <2>11 DEF Receiving
<1> QED
  BY <1>1, <1>2 DEF Pumped

\* The credit of a receipt was returned, or nobody is left to return it.
Released(b, c, al, r) ==
  r.id \in c.acked \/ ~al[r.owner] \/ Abandoned(c, b.routes[r.route].session)

\* Receipts go away when they are released.
LEMMA ReleaseKeeps ==
  ASSUME NEW b \in Broker, NEW c \in Broker, NEW al, Receiving(b, al),
         c.delivered = b.delivered, c.receipts \subseteq b.receipts, b.acked \subseteq c.acked,
         \A s : Abandoned(b, s) => Abandoned(c, s),
         \A r \in c.receipts : c.routes[r.route] = b.routes[r.route],
         \A r \in b.receipts \ c.receipts : Released(b, c, al, r),
         RoutesClosed(c)
  PROVE  Receiving(c, al)
<1>1. IsFiniteSet(b.receipts) /\ RxLimit \in Nat /\ RxRouteLimit \in Nat
  BY LimitAssumption DEF Receiving, Windows
<1>2. Windows(c)
  <2>1. IsFiniteSet(c.receipts) /\ Cardinality(c.receipts) <= Cardinality(b.receipts)
        /\ Cardinality(c.receipts) \in Nat /\ Cardinality(b.receipts) \in Nat
    BY <1>1, FS_Subset, FS_CardinalityType
  <2>2. ASSUME NEW r \in Route PROVE Cardinality(OnRoute(c, r)) <= RxRouteLimit
    <3>1. OnRoute(b, r) \in SUBSET b.receipts /\ OnRoute(c, r) \in SUBSET OnRoute(b, r)
      BY DEF OnRoute
    <3>2. IsFiniteSet(OnRoute(b, r))
      BY <1>1, <3>1, FS_Subset
    <3>3. IsFiniteSet(OnRoute(c, r)) /\ Cardinality(OnRoute(c, r)) <= Cardinality(OnRoute(b, r))
          /\ Cardinality(OnRoute(c, r)) \in Nat /\ Cardinality(OnRoute(b, r)) \in Nat
      BY <3>1, <3>2, FS_Subset, FS_CardinalityType
    <3>4. Cardinality(OnRoute(b, r)) <= RxRouteLimit
      BY DEF Receiving, Windows
    <3> QED
      BY <1>1, <3>3, <3>4
  <2>3. Cardinality(b.receipts) <= RxLimit
    BY DEF Receiving, Windows
  <2>4. Cardinality(c.receipts) <= RxLimit
    BY <1>1, <2>1, <2>3
  <2> QED
    BY <2>1, <2>2, <2>4 DEF Windows
<1>3. Returnable(c)
  BY DEF Receiving, Returnable, IsOwned
<1>4. Credits(c, al)
  <2> SUFFICES ASSUME NEW n \in 1 .. Len(b.delivered)
               PROVE  \/ Returned(c, al, n) \/ Abandoned(c, c.delivered[n].session)
                      \/ \E r \in c.receipts : r.id = n /\ c.routes[r.route] = c.delivered[n]
    BY DEF Credits
  <2>1. \/ Returned(b, al, n) \/ Abandoned(b, b.delivered[n].session)
        \/ \E r \in b.receipts : r.id = n /\ b.routes[r.route] = b.delivered[n]
    BY DEF Receiving, Credits
  <2>2. Returned(b, al, n) => Returned(c, al, n)
    BY DEF Returned
  <2>3. ASSUME NEW r \in b.receipts, r.id = n, b.routes[r.route] = b.delivered[n]
        PROVE  \/ Returned(c, al, n) \/ Abandoned(c, c.delivered[n].session)
               \/ r \in c.receipts /\ c.routes[r.route] = c.delivered[n]
    <3>1. CASE r \in c.receipts
      BY <2>3, <3>1
    <3>2. CASE r \notin c.receipts
      <4>1. r.owner = c.delivered[n].owner
        BY <2>3 DEF Receiving, Returnable
      <4> QED
        BY <2>3, <3>2, <4>1 DEF Returned, Released
    <3> QED
      BY <3>1, <3>2
  <2> QED
    BY <2>1, <2>2, <2>3
<1> QED
  BY <1>2, <1>3, <1>4 DEF Receiving

-----------------------------------------------------------------------------
(* The operators of a broker that is up.                                   *)

Working(b, w, al, wr) == b.status = "up" /\ Sound(b, w, al) /\ Hand(b, wr)

\* Routes are not used again, and sessions are known only when they open.
Onward(b, c) ==
  /\ \A r \in Route : b.routes[r] # Free => c.routes[r] \in {b.routes[r], Retired}
  /\ \A s \in Session : b.sessions[s] = "unknown" => c.sessions[s] = "unknown"

\* Routes go forward over two changes if they do over each.
LEMMA OnwardTransitive ==
  ASSUME NEW b, NEW c, NEW d, Onward(b, c), Onward(c, d)
  PROVE  Onward(b, d)
<1>1. ASSUME NEW r \in Route, b.routes[r] # Free
      PROVE  d.routes[r] \in {b.routes[r], Retired}
  <2>1. c.routes[r] \in {b.routes[r], Retired} /\ c.routes[r] # Free
    BY <1>1, NothingIsNone DEF Onward
  <2> QED
    BY <2>1 DEF Onward
<1>2. \A s \in Session : b.sessions[s] = "unknown" => d.sessions[s] = "unknown"
  BY DEF Onward
<1> QED
  BY <1>1, <1>2 DEF Onward

\* The elements of a queue in line differ.
LEMMA QueueDiffers ==
  ASSUME NEW b \in Broker, NEW w, NEW al, Writing(b, w, al),
         NEW m \in 1 .. Len(b.queued), NEW n \in 1 .. Len(b.queued), m # n
  PROVE  b.queued[m].id # b.queued[n].id /\ b.queued[m] # b.queued[n]
<1>1. b.queued[m].id \in Nat /\ b.queued[n].id \in Nat /\ m \in Nat /\ n \in Nat
  <2>1. b.queued[m] \in Tx /\ b.queued[n] \in Tx
    BY BrokerFields
  <2> QED
    BY <2>1, NothingIsNone DEF Tx
<1>2. m < n \/ n < m
  BY <1>1
<1>3. b.queued[m].id < b.queued[n].id \/ b.queued[n].id < b.queued[m].id
  BY <1>2 DEF Writing, InLine
<1> QED
  BY <1>1, <1>3

\* What FirstInTime chooses: all before it are late, and it is not.
LEMMA FirstInTimeFacts ==
  ASSUME NEW T, NEW q \in Seq(T)
  PROVE  /\ FirstInTime(q) \in 1 .. Len(q) + 1
         /\ FirstInTime(q) <= Len(q) => q[FirstInTime(q)].id \notin late
         /\ \A m \in 1 .. FirstInTime(q) - 1 : q[m].id \in late
<1> DEFINE S == {n \in 1 .. Len(q) + 1 : n <= Len(q) => q[n].id \notin late}
<1>1. Len(q) \in Nat
  OBVIOUS
<1>2. S \subseteq Nat /\ Len(q) + 1 \in S
  BY <1>1
<1>3. PICK n \in S : \A m \in S : n <= m
  <2> HIDE DEF S
  <2>1. S # {}
    BY <1>2
  <2> QED
    BY <1>2, <2>1, MinimumExists
<1>4. \A m \in 1 .. n - 1 : q[m].id \in late
  <2> SUFFICES ASSUME NEW m \in 1 .. n - 1, q[m].id \notin late PROVE FALSE
    OBVIOUS
  <2>1. m \in S /\ ~(n <= m)
    BY <1>1
  <2> QED
    BY <1>3, <2>1
<1>5. n \in 1 .. Len(q) + 1 /\ (n <= Len(q) => q[n].id \notin late)
  OBVIOUS
<1> QED
  BY <1>4, <1>5 DEF FirstInTime

\* pump_tx/1.
LEMMA PumpTxKeeps ==
  ASSUME NEW b, NEW w \in Seq(TxIds), NEW al, NEW wr, Working(b, w, al, wr)
  PROVE  Working(PumpTx(b), w, al, wr) /\ Onward(b, PumpTx(b))
<1>1. b \in Broker /\ Writing(b, w, al) /\ Receiving(b, al) /\ Hand(b, wr) /\ b.status = "up"
  BY DEF Working, Sound
<1>2. CASE ~(b.ready /\ b.active = None)
  BY <1>2 DEF PumpTx, Onward
<1>3. CASE b.ready /\ b.active = None
  <2> DEFINE q == b.queued
             n == FirstInTime(q)
             txs == Elements(SubSeq(q, 1, n - 1))
             rest == SubSeq(q, n, Len(q))
             dropped == AnswerAll(b, txs, "not_sent")
             mid == [dropped EXCEPT !.queued = rest]
             c == PumpTx(b)
  <2>1. q \in Seq(Tx) /\ n \in 1 .. Len(q) + 1 /\ Len(q) \in Nat
    BY <1>1, BrokerFields, FirstInTimeFacts
  <2>2. b.toWriter = None /\ wr.state = "idle" /\ None \notin Tx /\ None \notin TxIds
    BY <1>1, <1>3, NothingIsNone DEF Hand
  <2>3. c = IF n > Len(q) THEN [dropped EXCEPT !.queued = << >>]
            ELSE [dropped EXCEPT !.active = q[n], !.toWriter = q[n].id,
                                 !.queued = SubSeq(@, n + 1, Len(@))]
    BY <1>3 DEF PumpTx
  <2> HIDE DEF n, c
  <2>4. /\ rest \in Seq(Tx) /\ Len(rest) = Len(q) - n + 1 /\ Part(rest, q)
        /\ \A k \in 1 .. Len(rest) : k + n - 1 \in 1 .. Len(q) /\ rest[k] = q[k + n - 1]
    BY <2>1, TailIsPart
  <2>5. txs = {q[m] : m \in 1 .. n - 1}
    <3>1. Len(SubSeq(q, 1, n - 1)) = n - 1
          /\ \A m \in 1 .. n - 1 : SubSeq(q, 1, n - 1)[m] = q[m]
      BY <2>1
    <3> QED
      BY <3>1 DEF Elements
  <2>6. txs = Elements(q) \ Elements(rest)
    <3>1. ASSUME NEW m \in 1 .. n - 1 PROVE q[m] \in Elements(q) \ Elements(rest)
      <4>1. m \in 1 .. Len(q)
        BY <2>1
      <4>2. ASSUME NEW k \in 1 .. Len(rest), q[m] = rest[k] PROVE FALSE
        <5>1. k + n - 1 \in 1 .. Len(q) /\ k + n - 1 # m /\ rest[k] = q[k + n - 1]
          BY <2>1, <2>4
        <5> QED
          BY <1>1, <4>1, <4>2, <5>1, QueueDiffers
      <4> QED
        BY <4>1, <4>2 DEF Elements
    <3>2. ASSUME NEW m \in 1 .. Len(q), m \notin 1 .. n - 1 PROVE q[m] \in Elements(rest)
      <4>1. m - n + 1 \in 1 .. Len(rest) /\ (m - n + 1) + n - 1 = m
        BY <2>1, <2>4, <3>2
      <4>2. rest[m - n + 1] = q[m]
        BY <2>4, <4>1
      <4> QED
        BY <4>1, <4>2 DEF Elements
    <3> HIDE DEF rest, txs
    <3> QED
      BY <2>5, <3>1, <3>2 DEF Elements
  <2>7. txs \subseteq Tx
    BY <1>1, <2>6, QueuedFacts
  <2>8. dropped \in Broker /\ dropped = [b EXCEPT !.replies = dropped.replies]
    BY <1>1, <2>7, AnswerAllFacts DEF Reply
  <2> HIDE DEF rest, txs, dropped
  <2>9. /\ mid \in Broker /\ mid.queued = rest /\ mid.replies = dropped.replies
        /\ mid.status = b.status /\ mid.admitted = b.admitted /\ mid.toWriter = b.toWriter
        /\ mid.active = b.active /\ mid.drained = b.drained /\ mid.sessions = b.sessions
        /\ mid.ready = b.ready /\ SameReceiving(b, mid)
    <3>1. b \in Broker /\ rest \in Seq(Tx) /\ mid = [dropped EXCEPT !.queued = rest]
      BY <1>1, <2>4
    <3> HIDE DEF mid, q
    <3> QED
      BY <2>8, <3>1, QueueReplaced
  <2> HIDE DEF mid
  <2>10. Writing(mid, w, al)
    <3>1. "not_sent" \in NotSent /\ "not_sent" # "session_closed"
      BY DEF NotSent
    <3>2. \A tx \in Elements(mid.queued) : tx.session \in Session => mid.sessions[tx.session] # "closed"
      <4>1. Elements(mid.queued) \subseteq Elements(q)
        BY <2>4, <2>9, PartElements
      <4> QED
        BY <1>1, <2>9, <4>1 DEF Writing, WritesClosed, Elements
    <3>3. mid.replies = AnswerAll(b, txs, "not_sent").replies
      BY <2>9 DEF dropped
    <3> HIDE DEF q
    <3>4. Part(mid.queued, b.queued) /\ txs = Elements(b.queued) \ Elements(mid.queued)
      BY <2>4, <2>6, <2>9 DEF q
    <3> QED
      BY <1>1, <2>9, <3>1, <3>2, <3>3, <3>4, DropKeeps
  <2>11. CASE n > Len(q)
    <3>1. rest = << >>
      BY <2>1, <2>4, <2>11
    <3>2. c = mid
      BY <2>3, <2>11, <3>1 DEF mid
    <3>3. Hand(mid, wr)
      BY <1>1, <1>3, <2>9 DEF Hand
    <3>4. Receiving(mid, al)
      BY <1>1, <2>9, ReceivingKept
    <3>5. Onward(b, mid)
      BY <2>9 DEF Onward, SameReceiving
    <3> QED
      BY <1>1, <2>9, <2>10, <3>2, <3>3, <3>4, <3>5 DEF Working, Sound, c
  <2>12. CASE ~(n > Len(q))
    <3> DEFINE last == SubSeq(q, n + 1, Len(q))
    <3>1. n \in 1 .. Len(q) /\ n + 1 \in 1 .. Len(q) + 1
      BY <2>1, <2>12
    <3>2. /\ last \in Seq(Tx) /\ Len(last) = Len(q) - n
          /\ \A k \in 1 .. Len(last) : k + n \in 1 .. Len(q) /\ last[k] = q[k + n]
      <4>1. /\ last \in Seq(Tx) /\ Len(last) = Len(q) - (n + 1) + 1
            /\ \A k \in 1 .. Len(last) : k + (n + 1) - 1 \in 1 .. Len(q) /\ last[k] = q[k + (n + 1) - 1]
        BY <2>1, <3>1, TailIsPart
      <4>2. \A k \in Int : k + (n + 1) - 1 = k + n
        BY <3>1
      <4> HIDE DEF last, q
      <4>3. ASSUME NEW k \in 1 .. Len(last)
            PROVE  k + n \in 1 .. Len(q) /\ last[k] = q[k + n]
        <5>1. k + (n + 1) - 1 = k + n
          BY <4>2
        <5> QED
          BY <4>1, <5>1
      <4>4. Len(last) = Len(q) - n
        BY <2>1, <4>1
      <4> QED
        BY <4>1, <4>3, <4>4
    <3> HIDE DEF last
    <3>3. q[n] \in Tx /\ q[n].id \in TxIds
      <4>1. q[n] \in Tx
        BY <2>1, <3>1
      <4> HIDE DEF q
      <4> QED
        BY <4>1 DEF Tx
    <3>4. c = [dropped EXCEPT !.active = q[n], !.toWriter = q[n].id, !.queued = last]
      <4>1. dropped.queued = q
        BY <1>1, <2>8 DEF Broker
      <4> QED
        BY <2>3, <2>12, <4>1 DEF last
    <3>5. /\ c \in Broker /\ c.active = q[n] /\ c.toWriter = q[n].id /\ c.queued = last
          /\ c.status = mid.status /\ c.sessions = mid.sessions /\ c.drained = mid.drained
          /\ c.admitted = mid.admitted /\ c.replies = mid.replies /\ c.ready = b.ready
          /\ SameReceiving(b, c)
      <4> HIDE DEF q
      <4>1. /\ dropped.status = b.status /\ dropped.sessions = b.sessions /\ dropped.drained = b.drained
            /\ dropped.admitted = b.admitted /\ dropped.ready = b.ready /\ SameReceiving(b, dropped)
        BY <1>1, <2>8 DEF Broker, SameReceiving
      <4>2. /\ c \in Broker /\ c.active = q[n] /\ c.toWriter = q[n].id /\ c.queued = last
            /\ c.status = dropped.status /\ c.sessions = dropped.sessions /\ c.drained = dropped.drained
            /\ c.admitted = dropped.admitted /\ c.replies = dropped.replies /\ c.ready = dropped.ready
            /\ SameReceiving(dropped, c)
        BY <2>8, <3>2, <3>3, <3>4 DEF Broker, SameReceiving
      <4> QED
        BY <2>9, <4>1, <4>2 DEF SameReceiving
    <3>6. Len(mid.queued) >= 1 /\ mid.queued[1] = q[n]
      <4>1. 1 \in 1 .. Len(rest) /\ 1 + n - 1 = n
        BY <2>1, <2>4, <3>1
      <4> QED
        BY <2>4, <2>9, <4>1
    <3>7. /\ Len(c.queued) = Len(mid.queued) - 1
          /\ \A k \in 1 .. Len(c.queued) : c.queued[k] = mid.queued[k + 1]
      <4>1. Len(last) = Len(rest) - 1
        BY <2>1, <2>4, <3>2
      <4>2. ASSUME NEW k \in 1 .. Len(last) PROVE last[k] = rest[k + 1]
        <5>1. k + 1 \in 1 .. Len(rest) /\ (k + 1) + n - 1 = k + n
          BY <2>1, <2>4, <3>2
        <5> QED
          BY <2>4, <3>2, <5>1
      <4> QED
        BY <2>9, <3>5, <4>1, <4>2
    <3>8. Writing(c, w, al)
      <4>1. mid.active = None /\ mid.toWriter = None /\ c.active = mid.queued[1]
            /\ c.toWriter = mid.queued[1].id
        BY <1>3, <2>2, <2>9, <3>5, <3>6
      <4> QED
        BY <2>9, <2>10, <3>5, <3>6, <3>7, <4>1, TakeKeeps
    <3>9. Hand(c, wr)
      BY <1>1, <1>3, <2>2, <2>9, <3>3, <3>5 DEF Hand
    <3>10. Receiving(c, al) /\ Onward(b, c)
      BY <1>1, <2>9, <3>5, ReceivingKept DEF Onward, SameReceiving
    <3> QED
      BY <1>1, <2>9, <3>5, <3>8, <3>9, <3>10 DEF Working, Sound, c
  <2> QED
    BY <2>11, <2>12
<1> QED
  BY <1>2, <1>3

\* The answers depend on what the callers have heard only.
LEMMA AnswersAgree ==
  ASSUME NEW b \in Broker, NEW c \in Broker, NEW txs, NEW reply, b.replies = c.replies
  PROVE  AnswerAll(b, txs, reply).replies = AnswerAll(c, txs, reply).replies
<1> DEFINE replies == [id \in TxIds |->
              IF \E tx \in txs : tx.id = id /\ tx.from # None
              THEN Append(b.replies[id], reply) ELSE b.replies[id]]
<1>1. AnswerAll(b, txs, reply) = [b EXCEPT !.replies = replies]
      /\ AnswerAll(c, txs, reply) = [c EXCEPT !.replies = replies]
  BY DEF AnswerAll
<1> HIDE DEF replies
<1> QED
  BY <1>1 DEF Broker

\* What pump_rx/1 does to a broker that is up.
LEMMA PumpRxKeeps ==
  ASSUME NEW b, NEW w \in Seq(TxIds), NEW al, NEW wr, Working(b, w, al, wr)
  PROVE  Working(PumpRx(b), w, al, wr) /\ Onward(b, PumpRx(b))
<1> DEFINE c == PumpRx(b)
<1>1. b \in Broker /\ Writing(b, w, al) /\ Receiving(b, al) /\ Hand(b, wr) /\ b.status = "up"
  BY DEF Working, Sound
<1>2. c \in Broker /\ Pumped(b, c)
  BY <1>1, PumpRxPumps
<1> HIDE DEF c
<1>3. Writing(c, w, al) /\ Receiving(c, al)
  BY <1>1, <1>2, WritingKept, PumpedKeeps DEF Pumped
<1>4. c.status = "up" /\ Hand(c, wr) /\ Onward(b, c)
  BY <1>1, <1>2 DEF Pumped, SameWriting, Hand, Onward
<1> QED
  BY <1>2, <1>3, <1>4 DEF Working, Sound, c

\* retire/2 of a process that died.
LEMMA RetireKeeps ==
  ASSUME NEW b, NEW w \in Seq(TxIds), NEW al, NEW wr, Working(b, w, al, wr),
         NEW owner \in Owner, ~al[owner]
  PROVE  Working(Retire(owner, b), w, al, wr) /\ Onward(b, Retire(owner, b))
<1> DEFINE gone == {tx \in Elements(b.queued) : tx.from = owner}
           answered == AnswerAll(b, gone, "not_sent")
           routes == [r \in Route |-> IF IsOwned(b, r) /\ b.routes[r].owner = owner
                                      THEN Retired ELSE b.routes[r]]
           queued == Without(b.queued, gone)
           active == IF b.active # None /\ b.active.from = owner
                     THEN [b.active EXCEPT !.from = None] ELSE b.active
           receipts == {r \in b.receipts : r.owner # owner}
           f == [b EXCEPT !.active = active]
           c == [answered EXCEPT !.routes = routes, !.queued = queued, !.active = active,
                                 !.receipts = receipts]
<1>1. b \in Broker /\ Writing(b, w, al) /\ Receiving(b, al) /\ Hand(b, wr) /\ b.status = "up"
  BY DEF Working, Sound
<1>2. gone \subseteq Tx /\ "not_sent" \in Reply
  BY <1>1, QueuedFacts DEF Reply
<1>3. answered \in Broker /\ answered = [b EXCEPT !.replies = answered.replies]
  <2>1. b \in Broker
    BY <1>1
  <2> HIDE DEF gone
  <2> QED
    BY ONLY <1>2, <2>1, AnswerAllFacts
<1>4. /\ queued \in Seq(Tx) /\ Part(queued, b.queued)
      /\ Elements(queued) = Elements(b.queued) \ gone
  <2>1. b.queued \in Seq(Tx)
    BY <1>1, BrokerFields
  <2> HIDE DEF gone
  <2> QED
    BY <2>1, WithoutIsPart
<1>5. active \in Tx \cup {None} /\ routes \in [Route -> Owned \cup {Free, Retired}]
      /\ receipts \subseteq Receipt
  <2>1. b.active \in Tx => [b.active EXCEPT !.from = None] \in Tx
    BY DEF Tx
  <2>2. routes \in [Route -> Owned \cup {Free, Retired}]
    BY <1>1, BrokerFields
  <2>3. receipts \subseteq Receipt
    BY <1>1, BrokerFields
  <2> QED
    BY <1>1, <2>1, <2>2, <2>3, BrokerFields
<1>6. Retire(owner, b) = PumpRx(c)
  <2>1. /\ answered.queued = b.queued /\ answered.routes = b.routes /\ answered.active = b.active
        /\ answered.receipts = b.receipts
    BY <1>1, <1>3 DEF Broker
  <2> QED
    BY <2>1 DEF Retire
<1>7. (b.active # None <=> active # None) /\ (b.active # None => active.id = b.active.id)
  BY <1>1, BrokerFields, NothingIsNone DEF Tx
<1>8. \A r \in Route : 
        routes[r] = b.routes[r] \/ (routes[r] = Retired /\ b.routes[r].owner = owner)
  OBVIOUS
<1> HIDE DEF answered, routes, queued
<1>9. /\ f \in Broker /\ f.active = active /\ f.queued = b.queued /\ f.replies = b.replies
      /\ f.status = b.status /\ f.sessions = b.sessions /\ f.drained = b.drained
      /\ f.admitted = b.admitted /\ f.toWriter = b.toWriter
  BY <1>1, <1>5 DEF Broker
<1>10. Writing(f, w, al)
  <2> HIDE DEF f
  <2>1. CASE b.active # None /\ b.active.from = owner
    BY <1>1, <1>9, <2>1, ForgetKeeps
  <2>2. CASE ~(b.active # None /\ b.active.from = owner)
    <3>1. f = b
      BY <1>1, <2>2 DEF f, Broker
    <3> QED
      BY <1>1, <3>1
  <2> QED
    BY <2>1, <2>2
<1> HIDE DEF active, receipts
<1>11. /\ c \in Broker /\ c.queued = queued /\ c.active = active /\ c.replies = answered.replies
       /\ c.status = b.status /\ c.sessions = b.sessions /\ c.drained = b.drained
       /\ c.admitted = b.admitted /\ c.toWriter = b.toWriter /\ c.ready = b.ready
       /\ c.routes = routes /\ c.receipts = receipts /\ c.delivered = b.delivered
       /\ c.acked = b.acked
  <2>1. /\ answered.status = b.status /\ answered.sessions = b.sessions /\ answered.drained = b.drained
        /\ answered.admitted = b.admitted /\ answered.toWriter = b.toWriter
        /\ answered.ready = b.ready /\ answered.delivered = b.delivered /\ answered.acked = b.acked
    BY <1>1, <1>3 DEF Broker
  <2>2. /\ c \in Broker /\ c.queued = queued /\ c.active = active /\ c.replies = answered.replies
        /\ c.routes = routes /\ c.receipts = receipts
        /\ c.status = answered.status /\ c.sessions = answered.sessions
        /\ c.drained = answered.drained /\ c.admitted = answered.admitted
        /\ c.toWriter = answered.toWriter /\ c.ready = answered.ready
        /\ c.delivered = answered.delivered /\ c.acked = answered.acked
    BY <1>3, <1>4, <1>5 DEF Broker
  <2> HIDE DEF c
  <2> QED
    BY <2>1, <2>2
<1> HIDE DEF c, f
<1>12. Writing(c, w, al)
  <2>1. c.replies = AnswerAll(f, gone, "not_sent").replies
    <3>1. AnswerAll(b, gone, "not_sent").replies = AnswerAll(f, gone, "not_sent").replies
      BY <1>1, <1>9, AnswersAgree
    <3> QED
      BY <1>11, <3>1 DEF answered
  <2>2. gone = Elements(f.queued) \ Elements(c.queued) /\ Part(c.queued, f.queued)
    BY <1>4, <1>9, <1>11
  <2>3. \A tx \in Elements(c.queued) : tx.session \in Session => c.sessions[tx.session] # "closed"
    <3>1. Elements(c.queued) \subseteq Elements(b.queued)
      BY <1>4, <1>11
    <3> QED
      BY <1>1, <1>11, <3>1 DEF Writing, WritesClosed, Elements
  <2>4. "not_sent" \in NotSent /\ "not_sent" # "session_closed"
    BY DEF NotSent
  <2> HIDE DEF gone
  <2> QED
    BY <1>9, <1>10, <1>11, <2>1, <2>2, <2>3, <2>4, DropKeeps
<1>13. Receiving(c, al)
  <2>1. \A s : Abandoned(b, s) => Abandoned(c, s)
    BY <1>11 DEF Abandoned
  <2>2. ASSUME NEW r \in c.receipts PROVE c.routes[r.route] = b.routes[r.route]
    <3>1. r \in b.receipts /\ r.owner # owner
      BY <1>11 DEF receipts
    <3>2. b.routes[r.route].owner = r.owner /\ r.route \in Route
      BY <1>1, <3>1, BrokerFields DEF Receiving, Returnable, Receipt
    <3> QED
      BY <1>8, <1>11, <3>1, <3>2
  <2>3. \A r \in b.receipts \ c.receipts : Released(b, c, al, r)
    BY <1>11 DEF receipts, Released
  <2>4. RoutesClosed(c)
    <3>1. ASSUME NEW r \in Route, IsOwned(c, r) PROVE IsOwned(b, r) /\ c.routes[r] = b.routes[r]
      BY <1>8, <1>11, <3>1, NothingIsNone DEF IsOwned
    <3> QED
      BY <1>1, <1>11, <3>1 DEF Receiving, RoutesClosed
  <2>5. c.receipts \subseteq b.receipts
    BY <1>11 DEF receipts
  <2> QED
    BY <1>1, <1>11, <2>1, <2>2, <2>3, <2>4, <2>5, ReleaseKeeps
<1>14. Hand(c, wr)
  BY <1>1, <1>7, <1>11 DEF Hand
<1>15. Onward(b, c)
  BY <1>8, <1>11 DEF Onward
<1>16. Working(c, w, al, wr)
  BY <1>1, <1>11, <1>12, <1>13, <1>14 DEF Working, Sound
<1>17. Working(PumpRx(c), w, al, wr) /\ Onward(c, PumpRx(c))
  BY <1>16, PumpRxKeeps
<1> QED
  BY <1>6, <1>15, <1>17, OnwardTransitive

\* retire_session/2, up to its call of pump_rx/1.
Closing(ss, b) ==
  LET gone == {tx \in Elements(b.queued) : tx.session \in ss} IN
  [ReleaseActive(AnswerAll(b, gone, "session_closed"), ss) EXCEPT
     !.sessions = [s \in Session |-> IF s \in ss THEN "closed" ELSE @[s]],
     !.routes = [r \in Route |-> IF r \in RoutesOf(b, ss) THEN Retired ELSE @[r]],
     !.queued = Without(@, gone),
     !.receipts = {r \in @ : r.route \notin RoutesOf(b, ss)}]

\* The queue without the writes of the sessions, their callers answered.
Emptied(ss, b) ==
  LET gone == {tx \in Elements(b.queued) : tx.session \in ss} IN
  [AnswerAll(b, gone, "session_closed") EXCEPT
     !.sessions = [s \in Session |-> IF s \in ss THEN "closed" ELSE b.sessions[s]],
     !.queued = Without(b.queued, gone)]

\* Taking out of the queue what sessions being retired had queued, and answering
\* it, keeps the order of the rest.
LEMMA EmptiedKeeps ==
  ASSUME NEW b \in Broker, NEW w \in Seq(TxIds), NEW al, Writing(b, w, al),
         NEW ss \in SUBSET Session, ss \cap b.drained = {}
  PROVE  LET c == Emptied(ss, b) IN
         /\ c \in Broker /\ Writing(c, w, al)
         /\ c.status = b.status /\ c.active = b.active /\ c.toWriter = b.toWriter
         /\ c.drained = b.drained /\ c.admitted = b.admitted /\ c.ready = b.ready
         /\ c.routes = b.routes /\ c.receipts = b.receipts /\ c.delivered = b.delivered
         /\ c.acked = b.acked /\ c.buffered = b.buffered /\ c.reading = b.reading
         /\ c.toReader = b.toReader
         /\ \A s \in Session : c.sessions[s] = IF s \in ss THEN "closed" ELSE b.sessions[s]
         /\ (\A tx \in Elements(b.queued) : tx.session \notin ss) => c.replies = b.replies
<1> DEFINE gone == {tx \in Elements(b.queued) : tx.session \in ss}
           answered == AnswerAll(b, gone, "session_closed")
           sessions == [s \in Session |-> IF s \in ss THEN "closed" ELSE b.sessions[s]]
           queued == Without(b.queued, gone)
           c == Emptied(ss, b)
<1>1. gone \subseteq Tx /\ "session_closed" \in Reply
  BY QueuedFacts DEF Reply
<1>2. /\ answered \in Broker /\ answered = [b EXCEPT !.replies = answered.replies]
      /\ \A id \in TxIds : answered.replies[id] = Heard(b, gone, "session_closed", id)
  BY <1>1, AnswerAllFacts
<1>3. /\ queued \in Seq(Tx) /\ Part(queued, b.queued)
      /\ Elements(queued) = Elements(b.queued) \ gone
  <2>1. b.queued \in Seq(Tx)
    BY BrokerFields
  <2> HIDE DEF gone
  <2> QED
    BY <2>1, WithoutIsPart
<1>4. sessions \in [Session -> {"unknown", "open", "draining", "closed"}]
  BY BrokerFields
<1>5. c = [answered EXCEPT !.sessions = sessions, !.queued = queued]
  BY DEF Emptied
<1>6. \A s \in Session : sessions[s] = IF s \in ss THEN "closed" ELSE b.sessions[s]
  OBVIOUS
<1> HIDE DEF answered, sessions, queued, c
<1>7. /\ c \in Broker /\ c.sessions = sessions /\ c.queued = queued /\ c.replies = answered.replies
      /\ c.status = b.status /\ c.active = b.active /\ c.toWriter = b.toWriter
      /\ c.drained = b.drained /\ c.admitted = b.admitted /\ c.ready = b.ready
      /\ c.routes = b.routes /\ c.receipts = b.receipts /\ c.delivered = b.delivered
      /\ c.acked = b.acked /\ c.buffered = b.buffered /\ c.reading = b.reading
      /\ c.toReader = b.toReader
  BY <1>2, <1>3, <1>4, <1>5 DEF Broker
<1>8. Writing(c, w, al)
  <2>1. "session_closed" \in NotSent
    BY DEF NotSent
  <2>2. gone = Elements(b.queued) \ Elements(c.queued) /\ Part(c.queued, b.queued)
    BY <1>3, <1>7
  <2>3. \A s \in Session : b.sessions[s] = "closed" => c.sessions[s] = "closed"
    BY <1>6, <1>7
  <2>4. \A tx \in gone : Abandoned(c, tx.session)
    BY <1>6, <1>7 DEF Abandoned
  <2>5. \A tx \in Elements(c.queued) : tx.session \in Session => c.sessions[tx.session] # "closed"
    BY <1>3, <1>6, <1>7 DEF Writing, WritesClosed, Elements
  <2>6. c.replies = AnswerAll(b, gone, "session_closed").replies
    BY <1>7 DEF answered
  <2> HIDE DEF gone
  <2> QED
    BY <1>7, <2>1, <2>2, <2>3, <2>4, <2>5, <2>6, DropKeeps
<1>9. (\A tx \in Elements(b.queued) : tx.session \notin ss) => c.replies = b.replies
  <2> SUFFICES ASSUME \A tx \in Elements(b.queued) : tx.session \notin ss
               PROVE  answered.replies = b.replies
    BY <1>7
  <2>1. gone = {}
    OBVIOUS
  <2>2. \A id \in TxIds : answered.replies[id] = b.replies[id]
    BY <1>2, <2>1 DEF Heard
  <2>3. answered.replies \in [TxIds -> Seq(Reply)] /\ b.replies \in [TxIds -> Seq(Reply)]
    BY <1>2, BrokerFields
  <2> QED
    BY <2>2, <2>3
<1>10. \A s \in Session : c.sessions[s] = IF s \in ss THEN "closed" ELSE b.sessions[s]
  BY <1>6, <1>7
<1> QED
  BY <1>7, <1>8, <1>9, <1>10 DEF c

\* Retiring sessions that had not drained keeps the broker working.
LEMMA ClosingKeeps ==
  ASSUME NEW b, NEW w \in Seq(TxIds), NEW al, NEW wr, Working(b, w, al, wr),
         NEW ss \in SUBSET Session, ss \cap b.drained = {}
  PROVE  LET c == Closing(ss, b) IN
         /\ Working(c, w, al, wr)
         /\ c.drained = b.drained /\ c.admitted = b.admitted
         /\ c.delivered = b.delivered /\ c.acked = b.acked
         /\ \A s \in Session : c.sessions[s] = IF s \in ss THEN "closed" ELSE b.sessions[s]
         /\ \A r \in Route : c.routes[r] = IF r \in RoutesOf(b, ss) THEN Retired ELSE b.routes[r]
         /\ (\A tx \in Transactions(b) : tx.session \notin ss) =>
              c.replies = b.replies /\ c.active = b.active
<1> DEFINE e == Emptied(ss, b)
           f == ReleaseActive(e, ss)
           routes == [r \in Route |-> IF r \in RoutesOf(b, ss) THEN Retired ELSE b.routes[r]]
           receipts == {r \in b.receipts : r.route \notin RoutesOf(b, ss)}
           c == Closing(ss, b)
<1>1. b \in Broker /\ Writing(b, w, al) /\ Receiving(b, al) /\ Hand(b, wr) /\ b.status = "up"
  BY DEF Working, Sound
<1>2. /\ e \in Broker /\ Writing(e, w, al)
      /\ e.status = b.status /\ e.active = b.active /\ e.toWriter = b.toWriter
      /\ e.drained = b.drained /\ e.admitted = b.admitted /\ e.ready = b.ready
      /\ e.routes = b.routes /\ e.receipts = b.receipts /\ e.delivered = b.delivered
      /\ e.acked = b.acked /\ e.buffered = b.buffered /\ e.reading = b.reading
      /\ e.toReader = b.toReader
      /\ \A s \in Session : e.sessions[s] = IF s \in ss THEN "closed" ELSE b.sessions[s]
      /\ (\A tx \in Elements(b.queued) : tx.session \notin ss) => e.replies = b.replies
  BY <1>1, EmptiedKeeps
<1>3. /\ routes \in [Route -> Owned \cup {Free, Retired}] /\ receipts \subseteq Receipt
      /\ \A r \in Route : routes[r] = IF r \in RoutesOf(b, ss) THEN Retired ELSE b.routes[r]
  BY <1>1, BrokerFields
<1>4. c = [f EXCEPT !.routes = routes, !.receipts = receipts]
  <2> DEFINE gone == {tx \in Elements(b.queued) : tx.session \in ss}
             a == AnswerAll(b, gone, "session_closed")
             sessions == [s \in Session |-> IF s \in ss THEN "closed" ELSE b.sessions[s]]
             queued == Without(b.queued, gone)
  <2>1. gone \subseteq Tx /\ "session_closed" \in Reply
    BY <1>1, QueuedFacts DEF Reply
  <2>2. a \in Broker /\ a = [b EXCEPT !.replies = a.replies]
    <3>1. b \in Broker
      BY <1>1
    <3> HIDE DEF gone
    <3> QED
      BY ONLY <2>1, <3>1, AnswerAllFacts
  <2>3. e = [a EXCEPT !.sessions = sessions, !.queued = queued]
    BY DEF Emptied
  <2> HIDE DEF a, sessions, queued, e
  <2>4. e.replies = a.replies /\ a.active = b.active /\ e.active = b.active /\ a.sessions = b.sessions
        /\ a.queued = b.queued /\ a.routes = b.routes /\ a.receipts = b.receipts
    BY <1>1, <2>2, <2>3 DEF Broker
  <2> DEFINE h == ReleaseActive(a, ss)
  <2>5. c = [h EXCEPT !.sessions = [s \in Session |-> IF s \in ss THEN "closed" ELSE @[s]],
                      !.routes = [r \in Route |-> IF r \in RoutesOf(b, ss) THEN Retired ELSE @[r]],
                      !.queued = Without(@, gone),
                      !.receipts = {r \in @ : r.route \notin RoutesOf(b, ss)}]
    BY DEF Closing, a
  <2>6. CASE b.active = None \/ b.active.session \notin ss
    <3>1. h = a /\ f = e
      BY <2>4, <2>6 DEF ReleaseActive
    <3> HIDE DEF h, f
    <3>2. c = [a EXCEPT !.sessions = sessions, !.routes = routes, !.queued = queued,
                        !.receipts = receipts]
      <4>1. h.sessions = b.sessions /\ h.queued = b.queued /\ h.routes = b.routes
            /\ h.receipts = b.receipts
        BY <2>4, <3>1
      <4>2. c = [h EXCEPT !.sessions = sessions, !.routes = routes, !.queued = queued,
                          !.receipts = receipts]
        BY <2>5, <4>1 DEF sessions, queued
      <4> HIDE DEF c, routes, receipts
      <4> QED
        BY <3>1, <4>2
    <3> HIDE DEF routes, receipts, c
    <3> QED
      BY <2>2, <2>3, <3>1, <3>2 DEF Broker
  <2>7. CASE ~(b.active = None \/ b.active.session \notin ss)
    <3>1. b.active \in Tx /\ "transport_down" \in Reply
      BY <1>1, <2>7, BrokerFields DEF Reply
    <3> DEFINE ra == Answer(a, b.active, "transport_down")
               re == Answer(e, b.active, "transport_down")
               none == [b.active EXCEPT !.from = None]
    <3>2. /\ ra = AnswerAll(a, {b.active}, "transport_down")
          /\ re = AnswerAll(e, {b.active}, "transport_down")
      BY <1>2, <2>2, <3>1, AnswerIsAnswerAll
    <3>3. /\ ra \in Broker /\ ra = [a EXCEPT !.replies = ra.replies]
          /\ re \in Broker /\ re = [e EXCEPT !.replies = re.replies]
      <4> DEFINE txs == {b.active}
                 reply == "transport_down"
      <4> HIDE DEF ra, re
      <4>2. txs \subseteq Tx /\ reply \in Reply
        BY <3>1
      <4>3. ra = AnswerAll(a, txs, reply) /\ re = AnswerAll(e, txs, reply)
        BY <3>2
      <4> HIDE DEF txs, reply
      <4>4. AnswerAll(a, txs, reply) \in Broker
            /\ AnswerAll(a, txs, reply) = [a EXCEPT !.replies = AnswerAll(a, txs, reply).replies]
        <5>1. a \in Broker
          BY <2>2
        <5> QED
          BY ONLY <4>2, <5>1, AnswerAllFacts
      <4>5. AnswerAll(e, txs, reply) \in Broker
            /\ AnswerAll(e, txs, reply) = [e EXCEPT !.replies = AnswerAll(e, txs, reply).replies]
        <5>1. e \in Broker
          BY <1>2
        <5> QED
          BY ONLY <4>2, <5>1, AnswerAllFacts
      <4> QED
        BY <4>3, <4>4, <4>5
    <3>4. ra.replies = re.replies
      BY <1>2, <2>2, <2>4, <3>2, AnswersAgree
    <3> HIDE DEF ra, re
    <3>5. ra.active = b.active /\ re.active = b.active /\ ra.sessions = b.sessions
          /\ ra.queued = b.queued /\ ra.routes = b.routes /\ ra.receipts = b.receipts
      BY <2>2, <2>4, <3>3 DEF Broker
    <3>6. h = [ra EXCEPT !.active = none] /\ f = [re EXCEPT !.active = none]
      BY <2>4, <2>7, <3>5 DEF ReleaseActive, ra, re, Broker
    <3> HIDE DEF h, f
    <3>7. h.sessions = b.sessions /\ h.queued = b.queued /\ h.routes = b.routes
          /\ h.receipts = b.receipts
      BY <3>3, <3>5, <3>6 DEF Broker
    <3>8. c = [h EXCEPT !.sessions = sessions, !.routes = routes, !.queued = queued,
                        !.receipts = receipts]
      BY <2>5, <3>7 DEF sessions, queued
    <3>8a. none \in Tx
      BY <3>1 DEF Tx
    <3> HIDE DEF routes, receipts, c, none
    <3>9. e = [a EXCEPT !.sessions = sessions, !.queued = queued] /\ a \in Broker
      BY <2>2, <2>3
    <3>10. re = [ra EXCEPT !.sessions = sessions, !.queued = queued]
      BY <3>3, <3>4, <3>9 DEF Broker
    <3>11. f = [h EXCEPT !.sessions = sessions, !.queued = queued]
      BY <3>3, <3>6, <3>10 DEF Broker
    <3>12. h \in Broker
      BY <3>3, <3>6, <3>8a DEF Broker
    <3> QED
      BY <3>8, <3>11, <3>12 DEF Broker
  <2> QED
    BY <2>6, <2>7
<1>5. /\ f \in Broker /\ Writing(f, w, al)
      /\ f.status = b.status /\ f.toWriter = b.toWriter /\ f.sessions = e.sessions
      /\ f.drained = b.drained /\ f.admitted = b.admitted /\ f.ready = b.ready
      /\ f.receipts = b.receipts /\ f.delivered = b.delivered /\ f.acked = b.acked
      /\ (f.active # None <=> b.active # None) /\ (b.active # None => f.active.id = b.active.id)
      /\ (b.active = None \/ b.active.session \notin ss) =>
            f.replies = e.replies /\ f.active = b.active
  <2> HIDE DEF e
  <2>1. CASE b.active = None \/ b.active.session \notin ss
    <3>1. f = e
      BY <1>2, <2>1 DEF ReleaseActive
    <3> QED
      BY <1>2, <3>1
  <2>2. CASE ~(b.active = None \/ b.active.session \notin ss)
    <3> DEFINE answered == Answer(e, e.active, "transport_down")
               none == [e.active EXCEPT !.from = None]
    <3>1. e.active \in Tx /\ e.active # None /\ none \in Tx /\ none # None /\ none.id = e.active.id
      <4>1. e.active \in Tx /\ e.active # None
        BY <1>2, <2>2, BrokerFields
      <4> QED
        BY <4>1, NothingIsNone DEF Tx
    <3>2. "transport_down" \in Reply \ NotSent /\ {e.active} \subseteq Tx
      BY <3>1 DEF Reply, NotSent
    <3>3. answered = AnswerAll(e, {e.active}, "transport_down")
      BY <1>2, <3>1, <3>2, AnswerIsAnswerAll
    <3> HIDE DEF answered
    <3>4. answered \in Broker /\ answered = [e EXCEPT !.replies = answered.replies]
      <4> DEFINE txs == {e.active}
                 reply == "transport_down"
      <4>1. txs \subseteq Tx /\ reply \in Reply
        BY <3>2
      <4>2. answered = AnswerAll(e, txs, reply)
        BY <3>3
      <4> HIDE DEF txs, reply
      <4>3. AnswerAll(e, txs, reply) \in Broker
            /\ AnswerAll(e, txs, reply) = [e EXCEPT !.replies = AnswerAll(e, txs, reply).replies]
        <5>1. e \in Broker
          BY <1>2
        <5> QED
          BY ONLY <4>1, <5>1, AnswerAllFacts
      <4> QED
        BY <4>2, <4>3
    <3>5. answered.active = e.active
      BY <1>2, <3>4 DEF Broker
    <3> HIDE DEF none, f
    <3>6. f = [answered EXCEPT !.active = none]
      BY <1>2, <2>2, <3>5 DEF ReleaseActive, f, none, answered
    <3>7. /\ f \in Broker /\ f.active = none /\ f.replies = answered.replies
          /\ f.status = e.status /\ f.toWriter = e.toWriter /\ f.sessions = e.sessions
          /\ f.drained = e.drained /\ f.admitted = e.admitted /\ f.ready = e.ready
          /\ f.receipts = e.receipts /\ f.delivered = e.delivered /\ f.acked = e.acked
          /\ f.queued = e.queued
      BY <1>2, <3>1, <3>4, <3>6 DEF Broker
    <3>8. Writing(f, w, al)
      <4>1. Abandoned(e, e.active.session)
        BY <1>2, <2>2 DEF Abandoned
      <4>2. f.active \in {None, [e.active EXCEPT !.from = None]}
        BY <3>7 DEF none
      <4>3. f.replies = AnswerAll(e, {e.active}, "transport_down").replies
        BY <3>3, <3>7
      <4> QED
        BY <1>2, <3>1, <3>2, <3>7, <4>1, <4>2, <4>3, AnswerActiveKeeps
    <3> QED
      BY <1>2, <2>2, <3>1, <3>7, <3>8
  <2> QED
    BY <2>1, <2>2
<1> HIDE DEF e, f, routes, receipts, c
<1>6. /\ c \in Broker /\ SameWriting(f, c) /\ c.routes = routes /\ c.receipts = receipts
      /\ c.delivered = b.delivered /\ c.acked = b.acked
  BY <1>3, <1>4, <1>5 DEF SameWriting, Broker
<1>7. Writing(c, w, al)
  BY <1>5, <1>6, WritingKept
<1>8. \A s \in Session : c.sessions[s] = IF s \in ss THEN "closed" ELSE b.sessions[s]
  BY <1>2, <1>5, <1>6 DEF SameWriting
<1>9. c.drained = b.drained /\ c.admitted = b.admitted /\ c.status = b.status
      /\ c.ready = b.ready /\ c.toWriter = b.toWriter
      /\ (c.active # None <=> b.active # None) /\ (b.active # None => c.active.id = b.active.id)
  BY <1>5, <1>6 DEF SameWriting
<1>10. Receiving(c, al)
  <2>1. \A s : Abandoned(b, s) => Abandoned(c, s)
    BY <1>8, <1>9 DEF Abandoned
  <2>2. \A r \in c.receipts : c.routes[r.route] = b.routes[r.route]
    <3>1. \A r \in c.receipts : r.route \in Route /\ r.route \notin RoutesOf(b, ss)
      BY <1>1, <1>6, BrokerFields DEF receipts, Receipt
    <3> QED
      BY <1>3, <1>6, <3>1
  <2>3. ASSUME NEW r \in b.receipts \ c.receipts PROVE Abandoned(c, b.routes[r.route].session)
    <3>1. r.route \in RoutesOf(b, ss)
      BY <1>6 DEF receipts
    <3>2. b.routes[r.route].session \in ss
      BY <3>1 DEF RoutesOf
    <3> QED
      BY <1>8, <1>9, <3>2 DEF Abandoned
  <2>4. RoutesClosed(c)
    <3> SUFFICES ASSUME NEW r \in Route, IsOwned(c, r), c.routes[r].session \in Session
                 PROVE  c.sessions[c.routes[r].session] # "closed"
      BY DEF RoutesClosed
    <3>1. c.routes[r] # Retired
      BY NothingIsNone DEF IsOwned
    <3>2. r \notin RoutesOf(b, ss) /\ c.routes[r] = b.routes[r] /\ IsOwned(b, r)
      BY <1>3, <1>6, <3>1 DEF IsOwned
    <3>3. c.routes[r].session \notin ss
      BY <3>2 DEF RoutesOf
    <3>4. b.sessions[b.routes[r].session] # "closed"
      BY <1>1, <3>2 DEF Receiving, RoutesClosed
    <3> QED
      BY <1>8, <3>2, <3>3, <3>4
  <2>5. c.receipts \subseteq b.receipts /\ c.delivered = b.delivered /\ b.acked \subseteq c.acked
    BY <1>6 DEF receipts
  <2>6. \A r \in b.receipts \ c.receipts : Released(b, c, al, r)
    BY <2>3 DEF Released
  <2> QED
    BY <1>1, <1>6, <2>1, <2>2, <2>4, <2>5, <2>6, ReleaseKeeps
<1>11. Hand(c, wr)
  BY <1>1, <1>9 DEF Hand
<1>12. Working(c, w, al, wr)
  BY <1>1, <1>6, <1>7, <1>9, <1>10, <1>11 DEF Working, Sound
<1>13. (\A tx \in Transactions(b) : tx.session \notin ss) =>
          c.replies = b.replies /\ c.active = b.active
  <2> SUFFICES ASSUME \A tx \in Transactions(b) : tx.session \notin ss
               PROVE  c.replies = b.replies /\ c.active = b.active
    OBVIOUS
  <2>1. \A tx \in Elements(b.queued) : tx.session \notin ss
    BY DEF Transactions
  <2>2. b.active = None \/ b.active.session \notin ss
    BY DEF Transactions
  <2> QED
    BY <1>2, <1>5, <1>6, <2>1, <2>2 DEF SameWriting
<1> QED
  BY <1>3, <1>6, <1>8, <1>9, <1>12, <1>13 DEF c

\* retire_session/2.
LEMMA RetireSessionsKeeps ==
  ASSUME NEW b, NEW w \in Seq(TxIds), NEW al, NEW wr, Working(b, w, al, wr),
         NEW ss \in SUBSET Session, ss \cap b.drained = {},
         \A s \in ss : b.sessions[s] # "unknown"
  PROVE  Working(RetireSessions(ss, b), w, al, wr) /\ Onward(b, RetireSessions(ss, b))
<1> DEFINE c == Closing(ss, b)
<1>1. RetireSessions(ss, b) = PumpRx(c)
  BY DEF RetireSessions, Closing
<1>2. /\ Working(c, w, al, wr)
      /\ \A s \in Session : c.sessions[s] = IF s \in ss THEN "closed" ELSE b.sessions[s]
      /\ \A r \in Route : c.routes[r] = IF r \in RoutesOf(b, ss) THEN Retired ELSE b.routes[r]
  BY ONLY w \in Seq(TxIds), Working(b, w, al, wr), ss \in SUBSET Session, ss \cap b.drained = {},
          ClosingKeeps
<1> HIDE DEF c
<1>3. Onward(b, c)
  BY <1>2 DEF Onward
<1>4. Working(PumpRx(c), w, al, wr) /\ Onward(c, PumpRx(c))
  BY <1>2, PumpRxKeeps
<1> QED
  BY <1>1, <1>3, <1>4, OnwardTransitive

\* A closed session that has nothing left in the broker is drained.
LEMMA DrainedKeeps ==
  ASSUME NEW b, NEW c, NEW w \in Seq(TxIds), NEW al, NEW wr, Working(b, w, al, wr),
         NEW ss \in SUBSET Session, c \in Broker, c.drained = b.drained \cup ss,
         c.status = b.status, c.sessions = b.sessions, c.queued = b.queued,
         c.active = b.active, c.ready = b.ready, c.toWriter = b.toWriter,
         c.replies = b.replies, c.admitted = b.admitted,
         c.routes = b.routes, c.receipts = b.receipts, c.delivered = b.delivered,
         c.acked = b.acked,
         \A s \in ss : b.sessions[s] = "closed",
         b.active # None => b.active.session \notin ss,
         \A n \in Admitted(b) : b.admitted[n].session \in ss => SettledTx(b, al, n),
         \A n \in 1 .. Len(b.delivered) : b.delivered[n].session \in ss => Returned(b, al, n)
  PROVE  Working(c, w, al, wr)
<1>1. b \in Broker /\ Writing(b, w, al) /\ Receiving(b, al) /\ Hand(b, wr) /\ b.status = "up"
  BY DEF Working, Sound
<1>2. Given(b, w) = Given(c, w) /\ Admitted(b) = Admitted(c)
  BY DEF Given, Admitted
<1>3. Recorded(c) /\ InLine(c, w) /\ Truthful(c, w)
  BY <1>1, <1>2 DEF Writing, Recorded, InLine, Truthful
<1>4. \A s : s \notin ss => (Abandoned(b, s) => Abandoned(c, s))
  BY DEF Abandoned
<1>5. \A n : SettledTx(b, al, n) => SettledTx(c, al, n)
  BY DEF SettledTx
<1>6. WritesPending(c, al)
  BY <1>1, <1>2, <1>4, <1>5 DEF Writing, WritesPending
<1>7. WritesClosed(c)
  BY <1>1 DEF Writing, WritesClosed
<1>8. \A r : OnRoute(c, r) = OnRoute(b, r) /\ IsOwned(c, r) = IsOwned(b, r)
  BY DEF OnRoute, IsOwned
<1>9. Windows(c) /\ Returnable(c) /\ RoutesClosed(c)
  BY <1>1, <1>8 DEF Receiving, Windows, Returnable, RoutesClosed
<1>10. \A n : Returned(b, al, n) => Returned(c, al, n)
  BY DEF Returned
<1>11. Credits(c, al)
  BY <1>1, <1>4, <1>10 DEF Receiving, Credits
<1>12. Hand(c, wr)
  BY <1>1 DEF Hand
<1> QED
  BY <1>1, <1>3, <1>6, <1>7, <1>9, <1>11, <1>12 DEF Working, Sound, Writing, Receiving

\* finish_draining/1: a session that is not busy has had all its frames
\* acknowledged and all its writes done.
LEMMA FinishDrainingKeeps ==
  ASSUME NEW b, NEW w \in Seq(TxIds), NEW al, NEW wr, Working(b, w, al, wr)
  PROVE  Working(FinishDraining(b), w, al, wr) /\ Onward(b, FinishDraining(b))
<1> DEFINE done == {s \in Session : b.sessions[s] = "draining" /\ ~SessionBusy(s, b)}
           c == Closing(done, b)
           y == [c EXCEPT !.drained = @ \cup done]
           p == PumpRx(c)
           z == [p EXCEPT !.drained = @ \cup done]
<1>1. b \in Broker /\ Writing(b, w, al) /\ Receiving(b, al) /\ Hand(b, wr) /\ b.status = "up"
  BY DEF Working, Sound
<1>2. CASE done = {}
  BY <1>2 DEF FinishDraining, Onward
<1>3. CASE done # {}
  <2>1. done \cap b.drained = {}
    BY <1>1 DEF Writing, WritesClosed
  <2>2. FinishDraining(b) = z
    BY <1>3 DEF FinishDraining, RetireSessions, Closing
  <2>3. \A tx \in Transactions(b) : tx.session \notin done
    BY DEF SessionBusy
  <2>4. \A r \in b.receipts : r.route \in Route /\ IsOwned(b, r.route) /\ b.routes[r.route].session \notin done
    <3> SUFFICES ASSUME NEW r \in b.receipts
                 PROVE  r.route \in Route /\ IsOwned(b, r.route) /\ b.routes[r.route].session \notin done
      OBVIOUS
    <3>1. r.route \in Route /\ IsOwned(b, r.route)
      BY <1>1, BrokerFields DEF Receiving, Returnable, Receipt
    <3>2. \A s \in done : r.route \notin RoutesOf(b, {s})
      BY DEF SessionBusy
    <3> HIDE DEF done
    <3> QED
      BY <3>1, <3>2 DEF RoutesOf
  <2>5. \A s \in done : s \in Session /\ b.sessions[s] = "draining"
    OBVIOUS
  <2> HIDE DEF done
  <2>6. /\ Working(c, w, al, wr)
        /\ c.drained = b.drained /\ c.admitted = b.admitted
        /\ c.delivered = b.delivered /\ c.acked = b.acked
        /\ c.replies = b.replies /\ c.active = b.active
        /\ \A s \in Session : c.sessions[s] = IF s \in done THEN "closed" ELSE b.sessions[s]
        /\ \A r \in Route : c.routes[r] = IF r \in RoutesOf(b, done) THEN Retired ELSE b.routes[r]
    <3>1. done \in SUBSET Session
      BY <2>5
    <3> QED
      BY <2>1, <2>3, <3>1, ClosingKeeps
  <2> HIDE DEF c
  <2>7. ASSUME NEW n \in Admitted(c), c.admitted[n].session \in done PROVE SettledTx(c, al, n)
    <3>1. n \in Admitted(b) /\ b.admitted[n].session \in done
      BY <2>6, <2>7 DEF Admitted
    <3>2. ~Abandoned(b, b.admitted[n].session)
      BY <2>5, <3>1 DEF Abandoned
    <3>3. ~\E k \in 1 .. Len(b.queued) : b.queued[k].id = n
      <4> SUFFICES ASSUME NEW k \in 1 .. Len(b.queued), b.queued[k].id = n PROVE FALSE
        OBVIOUS
      <4>1. b.queued[k] \in Transactions(b) /\ b.queued[k] \in Elements(b.queued)
        BY DEF Transactions, Elements
      <4>2. b.queued[k] = b.admitted[n]
        BY <1>1, <4>1, QueuedFacts
      <4> QED
        BY <2>3, <3>1, <4>1, <4>2
    <3>4. ~(b.active # None /\ b.active.id = n)
      <4> SUFFICES ASSUME b.active # None, b.active.id = n PROVE FALSE
        OBVIOUS
      <4>1. b.active \in Transactions(b) /\ b.active.session = b.admitted[n].session
        BY <1>1, ActiveFacts DEF Transactions
      <4> QED
        BY <2>3, <3>1, <4>1
    <3>5. SettledTx(b, al, n)
      BY <1>1, <3>1, <3>2, <3>3, <3>4 DEF Writing, WritesPending
    <3> QED
      BY <2>6, <3>5 DEF SettledTx
  <2>8. ASSUME NEW n \in 1 .. Len(c.delivered), c.delivered[n].session \in done
        PROVE  Returned(c, al, n)
    <3>1. n \in 1 .. Len(b.delivered) /\ b.delivered[n].session \in done
      BY <2>6, <2>8
    <3>2. ~Abandoned(b, b.delivered[n].session)
      BY <2>5, <3>1 DEF Abandoned
    <3>3. Returned(b, al, n)
      BY <1>1, <2>4, <3>1, <3>2 DEF Receiving, Credits
    <3> QED
      BY <2>6, <3>3 DEF Returned
  <2>9. c.active # None => c.active.session \notin done
    BY <2>3, <2>6 DEF Transactions
  <2>10. Working(y, w, al, wr)
    <3>1. done \in SUBSET Session /\ \A s \in done : c.sessions[s] = "closed"
      BY <2>5, <2>6
    <3> HIDE DEF y
    <3>2. y = [c EXCEPT !.drained = @ \cup done]
      BY DEF y
    <3>3. c \in Broker
      BY <2>6 DEF Working, Sound
    <3>4. /\ y \in Broker /\ y.drained = c.drained \cup done
          /\ y.status = c.status /\ y.sessions = c.sessions /\ y.queued = c.queued
          /\ y.active = c.active /\ y.ready = c.ready /\ y.toWriter = c.toWriter
          /\ y.replies = c.replies /\ y.admitted = c.admitted
          /\ y.routes = c.routes /\ y.receipts = c.receipts /\ y.delivered = c.delivered
          /\ y.acked = c.acked
      <4> HIDE DEF c, done
      <4> QED
        BY <3>1, <3>2, <3>3 DEF Broker
    <3> QED
      BY <2>6, <2>7, <2>8, <2>9, <3>1, <3>4, DrainedKeeps
  <2>11. c \in Broker
    BY <2>6 DEF Working, Sound
  <2>12. p \in Broker /\ Pumped(c, p)
    BY <2>11, PumpRxPumps
  <2> HIDE DEF p
  <2>13. z \in Broker /\ Pumped(y, z)
    <3>1. /\ y.status = c.status /\ y.sessions = c.sessions /\ y.drained = c.drained \cup done
          /\ y.queued = c.queued /\ y.active = c.active /\ y.ready = c.ready
          /\ y.toWriter = c.toWriter /\ y.replies = c.replies /\ y.admitted = c.admitted
          /\ y.routes = c.routes /\ y.receipts = c.receipts /\ y.delivered = c.delivered
          /\ y.acked = c.acked
      BY <2>11 DEF Broker
    <3>2. /\ z.status = p.status /\ z.sessions = p.sessions /\ z.drained = p.drained \cup done
          /\ z.queued = p.queued /\ z.active = p.active /\ z.ready = p.ready
          /\ z.toWriter = p.toWriter /\ z.replies = p.replies /\ z.admitted = p.admitted
          /\ z.routes = p.routes /\ z.receipts = p.receipts /\ z.delivered = p.delivered
          /\ z.acked = p.acked
      BY <2>12 DEF Broker
    <3>3. z \in Broker
      BY <2>5, <2>12 DEF Broker
    <3> HIDE DEF y, z
    <3>4. SameWriting(y, z)
      BY <2>12, <3>1, <3>2 DEF Pumped, SameWriting
    <3>5. \A r : (WindowOpen(c, r) <=> WindowOpen(y, r)) /\ (IsOwned(c, r) <=> IsOwned(y, r))
      BY <3>1 DEF WindowOpen, OnRoute, IsOwned
    <3>6. \A r : Delivers(c, p, r) => Delivers(y, z, r)
      BY <3>1, <3>2, <3>5 DEF Delivers
    <3> QED
      BY <2>12, <3>1, <3>2, <3>3, <3>4, <3>6 DEF Pumped
  <2> HIDE DEF y, z
  <2>14. Working(z, w, al, wr)
    <3>1. y \in Broker /\ Writing(y, w, al) /\ Receiving(y, al) /\ Hand(y, wr) /\ y.status = "up"
      BY <2>10 DEF Working, Sound
    <3>2. Writing(z, w, al) /\ Receiving(z, al)
      BY <2>13, <3>1, WritingKept, PumpedKeeps DEF Pumped
    <3>3. z.status = "up" /\ Hand(z, wr)
      BY <2>13, <3>1 DEF Pumped, SameWriting, Hand
    <3> QED
      BY <2>13, <3>2, <3>3 DEF Working, Sound
  <2>15. Onward(b, z)
    <3>1. p.routes = c.routes /\ p.sessions = c.sessions
      BY <2>12 DEF Pumped, SameWriting
    <3>2. z.routes = c.routes /\ z.sessions = c.sessions
      BY <2>12, <3>1 DEF z, Broker
    <3> QED
      BY <2>5, <2>6, <3>2 DEF Onward
  <2> QED
    BY <2>2, <2>14, <2>15
<1> QED
  BY <1>2, <1>3

\* The caller of the active transmission is answered, and it is forgotten.
Done(b, reply) == Answer([b EXCEPT !.active = None], b.active, reply)

\* complete_active/2: the active transmission ends and its caller is answered.
LEMMA DoneKeeps ==
  ASSUME NEW b, NEW w \in Seq(TxIds), NEW al, Sound(b, w, al), b.active # None,
         NEW reply \in {"ok", "write_timeout", "write_failed"}
  PROVE  LET c == Done(b, reply) IN
         /\ Sound(c, w, al) /\ Onward(b, c)
         /\ c.status = b.status /\ c.active = None /\ c.queued = b.queued
         /\ c.ready = b.ready /\ c.toWriter = b.toWriter
<1> DEFINE d == [b EXCEPT !.active = None]
           c == Done(b, reply)
           txs == {b.active}
<1>1. b \in Broker /\ Writing(b, w, al) /\ Receiving(b, al)
  BY DEF Sound
<1>2. b.active \in Tx /\ txs \subseteq Tx /\ reply \in Reply \ NotSent /\ reply # "transport_down"
  BY <1>1, BrokerFields DEF Reply, NotSent
<1>3. /\ d \in Broker /\ d.active = None /\ d.replies = b.replies
      /\ d.status = b.status /\ d.sessions = b.sessions /\ d.drained = b.drained
      /\ d.admitted = b.admitted /\ d.toWriter = b.toWriter /\ d.queued = b.queued
      /\ d.ready = b.ready /\ SameReceiving(b, d)
  BY <1>1 DEF Broker, SameReceiving
<1>4. c = AnswerAll(d, txs, reply)
  <2> HIDE DEF d
  <2>1. c = Answer(d, b.active, reply)
    BY DEF Done, d
  <2> QED
    BY <1>2, <1>3, <2>1, AnswerIsAnswerAll
<1> HIDE DEF c, d
<1>5. c \in Broker /\ c = [d EXCEPT !.replies = c.replies]
  <2> HIDE DEF txs
  <2>1. d \in Broker /\ txs \subseteq Tx /\ reply \in Reply
    BY <1>2, <1>3
  <2>2. AnswerAll(d, txs, reply) \in Broker
        /\ AnswerAll(d, txs, reply) = [d EXCEPT !.replies = AnswerAll(d, txs, reply).replies]
    BY ONLY <2>1, AnswerAllFacts
  <2> QED
    BY <1>4, <2>2
<1>6. /\ c.active = None
      /\ c.status = b.status /\ c.sessions = b.sessions /\ c.drained = b.drained
      /\ c.admitted = b.admitted /\ c.toWriter = b.toWriter /\ c.queued = b.queued
      /\ c.ready = b.ready /\ SameReceiving(b, c)
  <2>1. /\ c.active = d.active /\ c.status = d.status /\ c.sessions = d.sessions
        /\ c.drained = d.drained /\ c.admitted = d.admitted /\ c.toWriter = d.toWriter
        /\ c.queued = d.queued /\ c.ready = d.ready /\ SameReceiving(d, c)
    BY <1>3, <1>5 DEF Broker, SameReceiving
  <2> QED
    BY <1>3, <2>1 DEF SameReceiving
<1>7. c.replies = AnswerAll(b, {b.active}, reply).replies
  BY <1>1, <1>3, <1>4, AnswersAgree
<1>8. Writing(c, w, al)
  BY <1>1, <1>2, <1>5, <1>6, <1>7, AnswerActiveKeeps
<1>9. Receiving(c, al)
  BY <1>1, <1>6, ReceivingKept
<1>10. Onward(b, c)
  BY <1>6 DEF SameReceiving, Onward
<1> QED
  BY <1>5, <1>6, <1>8, <1>9, <1>10 DEF Sound, c

\* terminate/2.
Stopped(b) ==
  LET queued == AnswerAll(b, Elements(b.queued), "not_sent") IN
  [(IF b.active = None THEN queued ELSE Answer(queued, b.active, "transport_down"))
   EXCEPT !.status = "down", !.queued = << >>, !.active = None]

\* Nothing is a part of every queue.
LEMMA EmptyIsPart ==
  ASSUME NEW q
  PROVE  Part(<< >>, q) /\ Elements(<< >>) = {}
<1> DEFINE place == [k \in {} |-> k]
<1>1. Len(<< >>) = 0 /\ 1 .. 0 = {}
  OBVIOUS
<1>2. place \in [1 .. Len(<< >>) -> 1 .. Len(q)] /\ 1 .. Len(<< >>) = {}
  BY <1>1
<1> HIDE DEF place
<1>3. Part(<< >>, q)
  BY <1>2 DEF Part
<1>4. Elements(<< >>) = {}
  BY <1>1 DEF Elements
<1> QED
  BY <1>3, <1>4

\* terminate/2: everything queued is answered not_sent, the active caller
\* transport_down.
LEMMA StoppedKeeps ==
  ASSUME NEW b, NEW w \in Seq(TxIds), NEW al, NEW wr, Sound(b, w, al)
  PROVE  /\ Sound(Stopped(b), w, al) /\ Hand(Stopped(b), wr) /\ Onward(b, Stopped(b))
<1> DEFINE txs == Elements(b.queued)
           d == [b EXCEPT !.status = "down"]
           a == AnswerAll(b, txs, "not_sent")
           e == [a EXCEPT !.status = "down", !.queued = << >>]
           c == Stopped(b)
<1>1. b \in Broker /\ Writing(b, w, al) /\ Receiving(b, al)
  BY DEF Sound
<1>2. d \in Broker /\ d.queued = b.queued /\ d.replies = b.replies /\ d.status = "down"
      /\ d.admitted = b.admitted /\ d.toWriter = b.toWriter /\ d.active = b.active
      /\ d.drained = b.drained /\ d.sessions = b.sessions
  BY <1>1 DEF Broker
<1>3. Writing(d, w, al)
  BY <1>1, <1>2, DownKeeps
<1>4. txs \subseteq Tx /\ "not_sent" \in Reply
  BY <1>1, QueuedFacts DEF Reply
<1>5. a \in Broker /\ a = [b EXCEPT !.replies = a.replies]
  BY <1>1, <1>4, AnswerAllFacts
<1>6. << >> \in Seq(Tx)
  OBVIOUS
<1> HIDE DEF a, c, d
<1>7. /\ e \in Broker /\ e.status = "down" /\ e.queued = << >> /\ e.replies = a.replies
      /\ e.admitted = b.admitted /\ e.toWriter = b.toWriter /\ e.active = b.active
      /\ e.drained = b.drained /\ e.sessions = b.sessions /\ SameReceiving(b, e)
  BY <1>1, <1>5, <1>6 DEF Broker, SameReceiving
<1> HIDE DEF e
<1>8. Writing(e, w, al)
  <2>1. e.replies = AnswerAll(d, txs, "not_sent").replies
    <3>1. AnswerAll(b, txs, "not_sent").replies = AnswerAll(d, txs, "not_sent").replies
      BY <1>1, <1>2, AnswersAgree
    <3> QED
      BY <1>7, <3>1 DEF a
  <2>2. Part(e.queued, d.queued) /\ Elements(e.queued) = {}
    BY <1>2, <1>7, EmptyIsPart
  <2>3. txs = Elements(d.queued) \ Elements(e.queued)
    BY <1>2, <2>2
  <2>4. "not_sent" \in NotSent /\ "not_sent" # "session_closed"
    BY DEF NotSent
  <2> HIDE DEF txs
  <2> QED
    BY <1>2, <1>3, <1>7, <2>1, <2>2, <2>3, <2>4, DropKeeps
<1>9. /\ c \in Broker /\ Writing(c, w, al) /\ c.status = "down" /\ c.queued = << >>
      /\ c.active = None /\ SameReceiving(b, c)
  <2>1. CASE b.active = None
    <3>1. c = [a EXCEPT !.status = "down", !.queued = << >>, !.active = None]
      BY <2>1 DEF Stopped, a, c
    <3>2. a.active = None
      BY <1>1, <1>5, <2>1 DEF Broker
    <3>3. c = e
      BY <1>5, <3>1, <3>2 DEF e, Broker
    <3> QED
      BY <1>7, <1>8, <2>1, <3>3
  <2>2. CASE b.active # None
    <3> DEFINE ra == AnswerAll(a, {b.active}, "transport_down")
               re == AnswerAll(e, {b.active}, "transport_down")
    <3>1. b.active \in Tx /\ "transport_down" \in Reply \ NotSent
      BY <1>1, <2>2, BrokerFields DEF Reply, NotSent
    <3>2. Answer(a, b.active, "transport_down") = ra
      BY <1>5, <3>1, AnswerIsAnswerAll
    <3>3. ra \in Broker /\ ra = [a EXCEPT !.replies = ra.replies]
      <4> DEFINE one == {b.active}
                 reply == "transport_down"
      <4>1. one \subseteq Tx /\ reply \in Reply
        BY <3>1
      <4>2. ra = AnswerAll(a, one, reply)
        OBVIOUS
      <4> HIDE DEF one, reply, ra
      <4>3. AnswerAll(a, one, reply) \in Broker
            /\ AnswerAll(a, one, reply) = [a EXCEPT !.replies = AnswerAll(a, one, reply).replies]
        <5>1. a \in Broker
          BY <1>5
        <5> QED
          BY ONLY <4>1, <5>1, AnswerAllFacts
      <4> QED
        BY <4>2, <4>3
    <3>4. ra.replies = re.replies
      BY <1>5, <1>7, AnswersAgree
    <3> HIDE DEF ra, re
    <3>5. c = [ra EXCEPT !.status = "down", !.queued = << >>, !.active = None]
      BY <2>2, <3>2 DEF Stopped, a, c
    <3>6. /\ c \in Broker /\ c.status = "down" /\ c.queued = << >> /\ c.active = None
          /\ c.replies = ra.replies /\ c.sessions = a.sessions /\ c.drained = a.drained
          /\ c.admitted = a.admitted /\ c.toWriter = a.toWriter /\ SameReceiving(a, c)
      BY <1>5, <1>6, <3>3, <3>5 DEF Broker, SameReceiving
    <3>7. /\ a.sessions = b.sessions /\ a.drained = b.drained /\ a.admitted = b.admitted
          /\ a.toWriter = b.toWriter /\ SameReceiving(b, a)
      BY <1>1, <1>5 DEF Broker, SameReceiving
    <3>8. Writing(c, w, al)
      <4>1. e.active # None /\ c.replies = AnswerAll(e, {e.active}, "transport_down").replies
        BY <1>7, <2>2, <3>4, <3>6 DEF re
      <4> QED
        BY <1>7, <1>8, <3>1, <3>6, <3>7, <4>1, AnswerActiveKeeps
    <3>9. SameReceiving(b, c)
      BY <3>6, <3>7 DEF SameReceiving
    <3> QED
      BY <3>6, <3>8, <3>9
  <2> QED
    BY <2>1, <2>2
<1>10. Receiving(c, al)
  BY <1>1, <1>9, ReceivingKept
<1>11. Onward(b, c)
  BY <1>9 DEF SameReceiving, Onward
<1>12. Hand(c, wr)
  BY <1>9 DEF Hand
<1> QED
  BY <1>9, <1>10, <1>11, <1>12 DEF Sound, c

\* request/4: a route is registered once, and its recorded owner retired when
\* it is found dead.
LEMMA RegisterKeeps ==
  ASSUME NEW b, NEW w \in Seq(TxIds), NEW wr, Working(b, w, alive, wr),
         NEW s \in Session \cup {None}, s \in Session => b.sessions[s] = "open",
         NEW owner \in Owner, NEW route \in Route
  PROVE  Working(Register(b, s, owner, route), w, alive, wr)
         /\ Onward(b, Register(b, s, owner, route))
<1> DEFINE c == Register(b, s, owner, route)
<1>1. b \in Broker /\ Writing(b, w, alive) /\ Receiving(b, alive) /\ Hand(b, wr) /\ b.status = "up"
  BY DEF Working, Sound
<1>2. b.routes \in [Route -> Owned \cup {Free, Retired}]
  BY <1>1, BrokerFields
<1>3. CASE b.routes[route] = Free
  <2> DEFINE new == [owner |-> owner, session |-> s]
             routes == [b.routes EXCEPT ![route] = new]
  <2>1. new \in Owned /\ routes \in [Route -> Owned \cup {Free, Retired}]
    BY <1>2 DEF Owned
  <2>2. c = [b EXCEPT !.routes = routes]
    BY <1>1, <1>3, NothingIsNone DEF Register, Broker
  <2>3. \A r \in Route : routes[r] = IF r = route THEN new ELSE b.routes[r]
    BY <1>2
  <2>4. new.session = s
    OBVIOUS
  <2> HIDE DEF c, routes, new
  <2>5. /\ c \in Broker /\ SameWriting(b, c) /\ c.routes = routes /\ c.receipts = b.receipts
        /\ c.delivered = b.delivered /\ c.acked = b.acked
    BY <1>1, <2>1, <2>2 DEF Broker, SameWriting
  <2>6. Writing(c, w, alive)
    BY <1>1, <2>5, WritingKept
  <2>7. \A r \in b.receipts : r.route \in Route /\ c.routes[r.route] = b.routes[r.route]
    <3>1. \A r \in b.receipts : r.route \in Route /\ IsOwned(b, r.route)
      BY <1>1, BrokerFields DEF Receiving, Returnable, Receipt
    <3>2. \A r \in b.receipts : r.route # route
      BY <1>3, <3>1, NothingIsNone DEF IsOwned
    <3> QED
      BY <2>3, <2>5, <3>1, <3>2
  <2>8. RoutesClosed(c)
    <3> SUFFICES ASSUME NEW r \in Route, IsOwned(c, r), c.routes[r].session \in Session
                 PROVE  c.sessions[c.routes[r].session] # "closed"
      BY DEF RoutesClosed
    <3>1. CASE r = route
      BY <2>3, <2>4, <2>5, <3>1 DEF SameWriting
    <3>2. CASE r # route
      <4>1. c.routes[r] = b.routes[r] /\ IsOwned(b, r)
        BY <2>3, <2>5, <3>2 DEF IsOwned
      <4> QED
        BY <1>1, <2>5, <4>1 DEF Receiving, RoutesClosed, SameWriting
    <3> QED
      BY <3>1, <3>2
  <2>9. Receiving(c, alive)
    <3>1. \A q : Abandoned(b, q) => Abandoned(c, q)
      BY <2>5 DEF Abandoned, SameWriting
    <3> QED
      BY <1>1, <2>5, <2>7, <2>8, <3>1, ReleaseKeeps
  <2>10. Hand(c, wr) /\ c.status = "up"
    BY <1>1, <2>5 DEF Hand, SameWriting
  <2>11. Onward(b, c)
    BY <1>3, <2>3, <2>5 DEF Onward, SameWriting
  <2> QED
    BY <2>5, <2>6, <2>9, <2>10, <2>11 DEF Working, Sound, c
<1>4. CASE b.routes[route] # Free /\ b.routes[route] # Retired /\ ~alive[b.routes[route].owner]
  <2>1. b.routes[route].owner \in Owner
    BY <1>2, <1>4 DEF Owned
  <2>2. c = Retire(b.routes[route].owner, b)
    BY <1>4 DEF Register
  <2> QED
    BY <1>4, <2>1, <2>2, RetireKeeps
<1>5. CASE b.routes[route] = Retired \/ (b.routes[route] # Free /\ alive[b.routes[route].owner])
  <2>1. c = b
    BY <1>5 DEF Register
  <2> QED
    BY <2>1 DEF Onward
<1> QED
  BY <1>3, <1>4, <1>5

\* request/4: a transmission is admitted within the windows.
LEMMA AdmitKeeps ==
  ASSUME NEW b, NEW w \in Seq(TxIds), NEW al, NEW wr, Working(b, w, al, wr),
         NEW s \in Session \cup {None}, s \in Session => b.sessions[s] = "open",
         NEW owner \in Owner, NEW route \in Route, Len(b.admitted) < MaxTx
  PROVE  Working(Admit(b, s, owner, route), w, al, wr)
         /\ Onward(b, Admit(b, s, owner, route))
<1> DEFINE c == Admit(b, s, owner, route)
           tx == [id |-> Len(b.admitted) + 1, session |-> s, from |-> owner, route |-> route]
           d == [b EXCEPT !.queued = Append(@, tx), !.admitted = Append(@, tx)]
<1>1. b \in Broker /\ Writing(b, w, al) /\ Receiving(b, al) /\ Hand(b, wr) /\ b.status = "up"
  BY DEF Working, Sound
<1>2. CASE ~CanAdmit(b, route)
  BY <1>2 DEF Admit, Onward
<1>3. CASE CanAdmit(b, route)
  <2>1. c = PumpTx(d)
    BY <1>3 DEF Admit
  <2>2. b.admitted \in Seq(Tx) /\ b.queued \in Seq(Tx) /\ Len(b.admitted) \in Nat /\ MaxTx \in Nat
    BY <1>1, BrokerFields, NothingIsNone
  <2>3. tx \in Tx
    BY <2>2 DEF Tx, TxIds
  <2>4. Append(b.queued, tx) \in Seq(Tx) /\ Append(b.admitted, tx) \in Seq(Tx)
    <3> HIDE DEF tx
    <3> QED
      BY <2>2, <2>3
  <2>5. /\ d \in Broker /\ d.status = b.status /\ d.sessions = b.sessions /\ d.routes = b.routes
        /\ d.active = b.active /\ d.ready = b.ready /\ d.toWriter = b.toWriter
        /\ d.drained = b.drained /\ d.replies = b.replies
        /\ d.queued = Append(b.queued, tx) /\ d.admitted = Append(b.admitted, tx)
        /\ SameReceiving(b, d)
    <3> HIDE DEF tx
    <3> QED
      BY <1>1, <2>4 DEF Broker, SameReceiving
  <2>6. Writing(d, w, al)
    <3>1. tx.id = Len(b.admitted) + 1 /\ tx.from \in Owner
          /\ (tx.session \in Session => b.sessions[tx.session] = "open")
      OBVIOUS
    <3> HIDE DEF d, tx
    <3> QED
      BY <1>1, <2>3, <2>5, <3>1, JoinKeeps
  <2> HIDE DEF d
  <2>7. Working(d, w, al, wr) /\ Onward(b, d)
    <3>1. Receiving(d, al)
      BY <1>1, <2>5, ReceivingKept
    <3>2. Hand(d, wr) /\ Onward(b, d)
      BY <1>1, <2>5 DEF Hand, Onward
    <3> QED
      BY <1>1, <2>5, <2>6, <3>1, <3>2 DEF Working, Sound
  <2>8. Working(PumpTx(d), w, al, wr) /\ Onward(d, PumpTx(d))
    BY <2>7, PumpTxKeeps
  <2> QED
    BY <2>1, <2>7, <2>8, OnwardTransitive
<1> QED
  BY <1>2, <1>3

\* A send or a registration, direct or of an open session.
LEMMA PerformKeeps ==
  ASSUME NEW b, NEW w \in Seq(TxIds), NEW wr, Working(b, w, alive, wr),
         NEW s \in Session \cup {None}, s \in Session => b.sessions[s] = "open",
         NEW request \in Call, request.kind = "send" => Len(b.admitted) < MaxTx
  PROVE  Working(Perform(b, s, request), w, alive, wr) /\ Onward(b, Perform(b, s, request))
<1>1. /\ request.owner \in Owner /\ request.route \in Route
      /\ request.kind = "register" \/ request.kind = "send"
  BY DEF Call
<1>2. CASE request.kind = "register"
  BY <1>1, <1>2, RegisterKeeps DEF Perform
<1>3. CASE request.kind # "register"
  BY <1>1, <1>3, AdmitKeeps DEF Perform
<1> QED
  BY <1>2, <1>3

-----------------------------------------------------------------------------
(* The steps.                                                              *)

\* A broker that is up is a working one.
LEMMA UpWorks ==
  ASSUME IInv
  PROVE  /\ broker \in Broker /\ Sound(broker, wire, alive) /\ wire \in Seq(TxIds)
         /\ Writing(broker, wire, alive) /\ Receiving(broker, alive) /\ Hand(broker, writer)
         /\ Up => Working(broker, wire, alive, writer)
BY DEF IInv, Sound, Surroundings, Working, Up

\* settle/1 after a handler.
LEMMA SettledKeeps ==
  ASSUME NEW b, NEW w \in Seq(TxIds), NEW al, NEW wr, Working(b, w, al, wr), Settled(b)
  PROVE  Sound(broker', w, al) /\ Hand(broker', wr) /\ Onward(b, broker')
<1>1. broker' = FinishDraining(b)
  BY DEF Settled
<1> QED
  BY <1>1, FinishDrainingKeeps DEF Working

\* A step of the broker alone.
LEMMA BrokerStep ==
  ASSUME IInv, UNCHANGED <<late, reader, wire, session, channel, alive>>,
         Sound(broker', wire, alive), Hand(broker', writer'), Onward(broker, broker'),
         writer' \in [state : {"opening", "ready", "idle", "writing", "wrote", "failed"},
                      id : TxIds \cup {None}]
  PROVE  IInv'
<1>1. \A s \in Session : session'[s] = "absent" => broker'.sessions[s] = "unknown"
  BY DEF IInv, Surroundings, Onward
<1>2. Sound(broker', wire', alive')
  OBVIOUS
<1>3. Surroundings'
  BY <1>1 DEF IInv, Surroundings
<1> QED
  BY <1>2, <1>3 DEF IInv

\* A handler that is followed by settle/1 and changes nothing else.
LEMMA HandlerStep ==
  ASSUME IInv, UNCHANGED Environment,
         NEW b, Working(b, wire, alive, writer), Onward(broker, b), Settled(b)
  PROVE  IInv' /\ Onward(broker, broker')
<1>1. wire \in Seq(TxIds)
  BY UpWorks
<1>2. Sound(broker', wire, alive) /\ Hand(broker', writer) /\ Onward(b, broker')
  BY <1>1, SettledKeeps
<1>3. Onward(broker, broker')
  BY <1>2, OnwardTransitive
<1>4. writer' = writer /\ UNCHANGED <<late, reader, wire, session, channel, alive>>
  BY DEF Environment
<1>5. writer' \in [state : {"opening", "ready", "idle", "writing", "wrote", "failed"},
                   id : TxIds \cup {None}]
  BY <1>4 DEF IInv, Surroundings
<1>6. Hand(broker', writer')
  BY <1>2, <1>4
<1> QED
  BY <1>2, <1>3, <1>4, <1>5, <1>6, BrokerStep

\* The state in which the broker has opened its lease.
LEMMA InitSound ==
  ASSUME Init
  PROVE  IInv
<1>1. /\ broker.status = "up" /\ broker.sessions = [s \in Session |-> "unknown"]
      /\ broker.routes = [r \in Route |-> Free] /\ broker.queued = << >> /\ broker.active = None
      /\ broker.ready = FALSE /\ broker.receipts = {} /\ broker.toWriter = None
      /\ broker.replies = [id \in TxIds |-> << >>] /\ broker.drained = {}
      /\ broker.admitted = << >> /\ broker.delivered = << >> /\ broker.acked = {}
      /\ wire = << >> /\ writer = [state |-> "opening", id |-> None]
  BY DEF Init
<1>2. broker \in Broker
  <2>1. << >> \in Seq(Tx) /\ << >> \in Seq(Owned) /\ << >> \in Seq(Reply)
    OBVIOUS
  <2> QED
    BY <2>1 DEF Init, Broker
<1>3. Len(<< >>) = 0 /\ 1 .. 0 = {}
  OBVIOUS
<1>4. Recorded(broker) /\ InLine(broker, wire)
  <2>1. Given(broker, wire) = {} /\ Admitted(broker) = {}
    BY <1>1, <1>3 DEF Given, Elements, Admitted
  <2>2. 0 <= MaxTx
    BY NothingIsNone
  <2> QED
    BY <1>1, <1>3, <2>1, <2>2 DEF Recorded, InLine
<1>5. Truthful(broker, wire)
  <2>1. \A id \in TxIds : broker.replies[id] = << >> /\ Len(broker.replies[id]) <= 1
    BY <1>1, <1>3
  <2> QED
    BY <1>1, <1>3, <2>1 DEF Truthful
<1>6. WritesPending(broker, alive) /\ WritesClosed(broker)
  BY <1>1, <1>3 DEF WritesPending, WritesClosed, Admitted
<1>7. Receiving(broker, alive)
  <2>1. \A r \in Route : ~IsOwned(broker, r) /\ OnRoute(broker, r) = {}
    BY <1>1, NothingIsNone DEF IsOwned, OnRoute
  <2>2. IsFiniteSet({}) /\ Cardinality({}) = 0 /\ 0 <= RxLimit /\ 0 <= RxRouteLimit
    BY FS_EmptySet, LimitAssumption
  <2>3. Windows(broker)
    BY <1>1, <2>1, <2>2 DEF Windows
  <2> QED
    BY <1>1, <1>3, <2>1, <2>3 DEF Receiving, Returnable, Credits, RoutesClosed
<1>8. Hand(broker, writer)
  BY <1>1 DEF Hand
<1>9. Surroundings
  <2>1. << >> \in Seq(TxIds) /\ << >> \in Seq(Request)
    OBVIOUS
  <2> QED
    BY <1>1, <2>1 DEF Init, Surroundings
<1> QED
  BY <1>2, <1>4, <1>5, <1>6, <1>7, <1>8, <1>9 DEF IInv, Sound, Writing

\* handle_call of a caller without a session.
LEMMA DirectRequestKeeps ==
  ASSUME IInv, NEW request \in Call, DirectRequest(request)
  PROVE  IInv' /\ Onward(broker, broker')
<1>1. Working(broker, wire, alive, writer) /\ wire \in Seq(TxIds) /\ None \notin Session
  BY UpWorks, NothingIsNone DEF DirectRequest
<1>2. request.kind = "send" => Len(broker.admitted) < MaxTx
  BY DEF DirectRequest, RoomFor
<1>3. Working(Perform(broker, None, request), wire, alive, writer)
      /\ Onward(broker, Perform(broker, None, request))
  BY <1>1, <1>2, PerformKeeps
<1> QED
  BY <1>3, HandlerStep DEF DirectRequest

\* A handler that takes a request from a channel as well.
LEMMA ChannelStep ==
  ASSUME IInv, UNCHANGED <<late, writer, reader, wire, session, alive>>,
         channel' \in [Session -> Seq(Request)],
         NEW b, Working(b, wire, alive, writer), Onward(broker, b), Settled(b)
  PROVE  IInv' /\ Onward(broker, broker')
<1>1. wire \in Seq(TxIds)
  BY UpWorks
<1>2. Sound(broker', wire, alive) /\ Hand(broker', writer) /\ Onward(b, broker')
  BY <1>1, SettledKeeps
<1>3. Onward(broker, broker')
  BY <1>2, OnwardTransitive
<1>4. Sound(broker', wire', alive') /\ Hand(broker', writer')
  BY <1>2
<1>5. Surroundings'
  BY <1>3 DEF IInv, Surroundings, Onward
<1> QED
  BY <1>3, <1>4, <1>5 DEF IInv

\* A session opens, or is marked as draining.
LEMMA MarkKeeps ==
  ASSUME NEW b, NEW w \in Seq(TxIds), NEW al, NEW wr, Sound(b, w, al), Hand(b, wr),
         NEW s \in Session, b.sessions[s] # "closed", NEW mark \in {"open", "draining"}
  PROVE  LET c == [b EXCEPT !.sessions[s] = mark] IN
         /\ Sound(c, w, al) /\ Hand(c, wr) /\ c.routes = b.routes /\ c.status = b.status
         /\ \A q \in Session : c.sessions[q] = IF q = s THEN mark ELSE b.sessions[q]
<1> DEFINE sessions == [b.sessions EXCEPT ![s] = mark]
           c == [b EXCEPT !.sessions[s] = mark]
<1>1. b \in Broker /\ Writing(b, w, al) /\ Receiving(b, al) /\ Hand(b, wr)
  BY DEF Sound
<1>2. /\ sessions \in [Session -> {"unknown", "open", "draining", "closed"}]
      /\ \A q \in Session : sessions[q] = IF q = s THEN mark ELSE b.sessions[q]
  BY <1>1, BrokerFields
<1>3. c = [b EXCEPT !.sessions = sessions]
  BY <1>1 DEF Broker
<1> HIDE DEF sessions, c
<1>4. /\ c \in Broker /\ c.sessions = sessions
      /\ c.status = b.status /\ c.queued = b.queued
      /\ c.active = b.active /\ c.ready = b.ready /\ c.toWriter = b.toWriter
      /\ c.replies = b.replies /\ c.admitted = b.admitted /\ c.drained = b.drained
      /\ c.routes = b.routes /\ c.receipts = b.receipts /\ c.delivered = b.delivered
      /\ c.acked = b.acked
  BY <1>1, <1>2, <1>3 DEF Broker
<1>5. \A q \in Session : c.sessions[q] = "closed" <=> b.sessions[q] = "closed"
  BY <1>2, <1>4
<1>6. \A q : Abandoned(b, q) <=> Abandoned(c, q)
  BY <1>4, <1>5 DEF Abandoned
<1>7. b.drained \subseteq Session
  BY <1>1, BrokerFields
<1>8. Given(b, w) = Given(c, w) /\ Admitted(b) = Admitted(c)
  BY <1>4 DEF Given, Admitted
<1>9. Recorded(c) /\ InLine(c, w) /\ Truthful(c, w)
  BY <1>1, <1>4, <1>8 DEF Writing, Recorded, InLine, Truthful
<1>10. \A n : SettledTx(b, al, n) <=> SettledTx(c, al, n)
  BY <1>4 DEF SettledTx
<1>11. WritesPending(c, al)
  BY <1>1, <1>4, <1>6, <1>8, <1>10 DEF Writing, WritesPending
<1>12. WritesClosed(c)
  BY <1>1, <1>4, <1>5, <1>7 DEF Writing, WritesClosed
<1>13. RoutesClosed(c)
  BY <1>1, <1>4, <1>5 DEF Receiving, RoutesClosed, IsOwned
<1>14. Receiving(c, al)
  BY <1>1, <1>4, <1>6, <1>13, ReleaseKeeps
<1>15. Hand(c, wr)
  BY <1>1, <1>4 DEF Hand
<1>16. \A q \in Session : c.sessions[q] = IF q = s THEN mark ELSE b.sessions[q]
  BY <1>2, <1>4
<1> QED
  BY <1>4, <1>9, <1>11, <1>12, <1>14, <1>15, <1>16 DEF Sound, Writing, c

\* A request of a session, in the order the session made it.
LEMMA SessionRequestKeeps ==
  ASSUME IInv, NEW s \in Session, SessionRequest(s)
  PROVE  IInv' /\ Onward(broker, broker')
<1> DEFINE request == Head(channel[s])
<1>1. Working(broker, wire, alive, writer) /\ wire \in Seq(TxIds)
  BY UpWorks DEF SessionRequest
<1>2. channel[s] \in Seq(Request) /\ channel[s] # << >> /\ channel \in [Session -> Seq(Request)]
  BY DEF SessionRequest, IInv, Surroundings
<1>3. request \in Request /\ Tail(channel[s]) \in Seq(Request)
  BY <1>2
<1>4. channel' \in [Session -> Seq(Request)]
  BY <1>2, <1>3 DEF SessionRequest
<1>5. UNCHANGED <<late, writer, reader, wire, session, alive>>
  BY DEF SessionRequest
<1> HIDE DEF request
<1>6. \/ /\ request.kind = "drain"
         /\ Settled(IF broker.sessions[s] \in {"open", "draining"}
                    THEN [broker EXCEPT !.sessions[s] = "draining"] ELSE broker)
      \/ /\ request.kind # "drain" /\ broker.sessions[s] = "open"
         /\ Settled(Perform(broker, s, request))
      \/ UNCHANGED broker
  BY DEF SessionRequest, request
<1>7. CASE request.kind = "drain" /\ Settled(IF broker.sessions[s] \in {"open", "draining"}
                    THEN [broker EXCEPT !.sessions[s] = "draining"] ELSE broker)
  <2>1. CASE broker.sessions[s] \in {"open", "draining"}
    <3> DEFINE c == [broker EXCEPT !.sessions[s] = "draining"]
    <3>1. broker.sessions[s] # "closed" /\ broker.sessions[s] # "unknown"
          /\ Sound(broker, wire, alive) /\ Hand(broker, writer) /\ broker.status = "up"
      BY <1>1, <2>1 DEF Working
    <3>2. /\ Sound(c, wire, alive) /\ Hand(c, writer) /\ c.routes = broker.routes
          /\ c.status = broker.status
          /\ \A q \in Session : c.sessions[q] = IF q = s THEN "draining" ELSE broker.sessions[q]
      <4>1. /\ wire \in Seq(TxIds) /\ s \in Session /\ broker.sessions[s] # "closed"
            /\ Sound(broker, wire, alive) /\ Hand(broker, writer)
        BY <1>1, <3>1
      <4> QED
        BY ONLY <4>1, MarkKeeps
    <3>3. Settled(c)
      BY <1>7, <2>1
    <3> HIDE DEF c
    <3>4. Working(c, wire, alive, writer) /\ Onward(broker, c)
      BY <3>1, <3>2 DEF Working, Onward
    <3> QED
      BY <1>4, <1>5, <3>3, <3>4, ChannelStep
  <2>2. CASE broker.sessions[s] \notin {"open", "draining"}
    <3>1. Settled(broker) /\ Onward(broker, broker)
      BY <1>7, <2>2 DEF Onward
    <3> QED
      BY <1>1, <1>4, <1>5, <3>1, ChannelStep
  <2> QED
    BY <2>1, <2>2
<1>8. CASE request.kind # "drain" /\ broker.sessions[s] = "open"
           /\ Settled(Perform(broker, s, request))
  <2>1. request \in Call
    BY <1>3, <1>8 DEF Request
  <2>2. request.kind = "send" => Len(broker.admitted) < MaxTx
    BY DEF SessionRequest, RoomFor, request
  <2>3. Working(Perform(broker, s, request), wire, alive, writer)
        /\ Onward(broker, Perform(broker, s, request))
    BY <1>1, <1>8, <2>1, <2>2, PerformKeeps
  <2> QED
    BY <1>4, <1>5, <1>8, <2>3, ChannelStep
<1>9. CASE UNCHANGED broker
  <2>1. Sound(broker', wire', alive') /\ Hand(broker', writer')
    BY <1>5, <1>9 DEF IInv
  <2>2. Surroundings'
    BY <1>4, <1>5, <1>9 DEF IInv, Surroundings
  <2>3. Onward(broker, broker')
    BY <1>9 DEF Onward
  <2> QED
    BY <2>1, <2>2, <2>3 DEF IInv
<1> QED
  BY <1>6, <1>7, <1>8, <1>9

\* A returned receipt is a released one.
LEMMA AckKeeps ==
  ASSUME IInv, NEW owner \in Owner, NEW id \in FrameIds, Ack(owner, id)
  PROVE  IInv' /\ Onward(broker, broker')
<1> DEFINE owned == {r \in broker.receipts : r.id = id /\ r.owner = owner}
           c == [broker EXCEPT !.receipts = @ \ owned, !.acked = @ \cup {id}]
<1>1. Working(broker, wire, alive, writer) /\ wire \in Seq(TxIds)
      /\ broker \in Broker /\ Writing(broker, wire, alive) /\ Receiving(broker, alive)
      /\ Hand(broker, writer) /\ broker.status = "up"
  BY UpWorks DEF Ack, Up
<1>2. UNCHANGED Environment /\ Settled(IF owned = {} THEN broker ELSE PumpRx(c))
  BY DEF Ack
<1>3. CASE owned = {}
  <2>1. Settled(broker) /\ Onward(broker, broker)
    BY <1>2, <1>3 DEF Onward
  <2> QED
    BY <1>1, <1>2, <2>1, HandlerStep
<1>4. CASE owned # {}
  <2>1. id \in Nat
    BY NothingIsNone DEF FrameIds
  <2>2. owned \subseteq broker.receipts /\ \A r \in owned : r.id = id
    OBVIOUS
  <2>3. Settled(PumpRx(c))
    BY <1>2, <1>4
  <2> HIDE DEF owned
  <2>4. /\ c \in Broker /\ SameWriting(broker, c) /\ c.routes = broker.routes
        /\ c.receipts = broker.receipts \ owned /\ c.delivered = broker.delivered
        /\ c.acked = broker.acked \cup {id}
    BY <1>1, <2>1 DEF Broker, SameWriting
  <2> HIDE DEF c
  <2>5. Receiving(c, alive)
    <3>1. \A r \in broker.receipts \ c.receipts : Released(broker, c, alive, r)
      BY <2>2, <2>4 DEF Released
    <3>2. RoutesClosed(c) /\ \A s : Abandoned(broker, s) => Abandoned(c, s)
      BY <1>1, <2>4 DEF Receiving, RoutesClosed, IsOwned, Abandoned, SameWriting
    <3> QED
      BY <1>1, <2>4, <3>1, <3>2, ReleaseKeeps
  <2>6. Writing(c, wire, alive)
    BY <1>1, <2>4, WritingKept
  <2>7. Hand(c, writer) /\ c.status = "up" /\ Onward(broker, c)
    BY <1>1, <2>4 DEF Hand, Onward, SameWriting
  <2>8. Working(c, wire, alive, writer)
    BY <2>4, <2>5, <2>6, <2>7 DEF Working, Sound
  <2>9. Working(PumpRx(c), wire, alive, writer) /\ Onward(c, PumpRx(c))
    BY <1>1, <2>8, PumpRxKeeps
  <2>10. Onward(broker, PumpRx(c))
    BY <2>7, <2>9, OnwardTransitive
  <2> QED
    BY <1>2, <2>3, <2>9, <2>10, HandlerStep
<1> QED
  BY <1>3, <1>4

\* A handler that the writer answers: the writer waits again.
LEMMA WriterStep ==
  ASSUME IInv, UNCHANGED <<late, reader, wire, session, channel, alive>>,
         writer' \in [state : {"opening", "ready", "idle", "writing", "wrote", "failed"},
                      id : TxIds \cup {None}],
         NEW b, Working(b, wire, alive, writer'), Onward(broker, b), Settled(b)
  PROVE  IInv' /\ Onward(broker, broker')
<1>1. wire \in Seq(TxIds)
  BY UpWorks
<1>2. Sound(broker', wire, alive) /\ Hand(broker', writer') /\ Onward(b, broker')
  BY <1>1, SettledKeeps
<1>3. Onward(broker, broker')
  BY <1>2, OnwardTransitive
<1> QED
  BY <1>2, <1>3, BrokerStep

\* The writer says that it is open: the pump may start.
LEMMA WriterReadyKeeps ==
  ASSUME IInv, WriterReady
  PROVE  IInv' /\ Onward(broker, broker')
<1> DEFINE c == [broker EXCEPT !.ready = TRUE]
<1>1. Working(broker, wire, alive, writer) /\ wire \in Seq(TxIds)
      /\ broker \in Broker /\ Writing(broker, wire, alive) /\ Receiving(broker, alive)
      /\ Hand(broker, writer) /\ broker.status = "up"
  BY UpWorks DEF WriterReady, Up
<1>2. /\ writer' \in [state : {"opening", "ready", "idle", "writing", "wrote", "failed"},
                      id : TxIds \cup {None}]
      /\ writer.state = "ready" /\ writer'.state = "idle"
  BY DEF WriterReady, IInv, Surroundings
<1>3. broker.active = None /\ broker.toWriter = None
  BY <1>1, <1>2 DEF Hand
<1>4. /\ c \in Broker /\ c.ready = TRUE /\ c.active = None /\ c.toWriter = None
      /\ c.status = "up" /\ SameReceiving(broker, c)
      /\ c.queued = broker.queued /\ c.replies = broker.replies /\ c.admitted = broker.admitted
      /\ c.sessions = broker.sessions /\ c.drained = broker.drained /\ c.routes = broker.routes
  BY <1>1, <1>3 DEF Broker, SameReceiving
<1>5. Settled(PumpTx(c)) /\ UNCHANGED <<late, reader, wire, session, channel, alive>>
  BY DEF WriterReady
<1> HIDE DEF c
<1>6. Writing(c, wire, alive)
  <2>1. Given(broker, wire) = Given(c, wire) /\ Admitted(broker) = Admitted(c)
    BY <1>3, <1>4 DEF Given, Admitted
  <2>2. Recorded(c) /\ InLine(c, wire) /\ Truthful(c, wire)
    BY <1>1, <1>3, <1>4, <2>1 DEF Writing, Recorded, InLine, Truthful
  <2>3. \A s : Abandoned(broker, s) <=> Abandoned(c, s)
    BY <1>4 DEF Abandoned
  <2>4. \A n : SettledTx(broker, alive, n) <=> SettledTx(c, alive, n)
    BY <1>4 DEF SettledTx
  <2>5. WritesPending(c, alive)
    BY <1>1, <1>3, <1>4, <2>1, <2>3, <2>4 DEF Writing, WritesPending
  <2>6. WritesClosed(c)
    BY <1>1, <1>3, <1>4 DEF Writing, WritesClosed
  <2> QED
    BY <2>2, <2>5, <2>6 DEF Writing
<1>7. Receiving(c, alive)
  BY <1>1, <1>4, ReceivingKept
<1>8. Hand(c, writer')
  BY <1>2, <1>4 DEF Hand
<1>9. Working(c, wire, alive, writer') /\ Onward(broker, c)
  BY <1>4, <1>6, <1>7, <1>8 DEF Working, Sound, Onward
<1>10. Working(PumpTx(c), wire, alive, writer') /\ Onward(c, PumpTx(c))
  BY <1>1, <1>9, PumpTxKeeps
<1>11. Onward(broker, PumpTx(c))
  BY <1>9, <1>10, OnwardTransitive
<1> QED
  BY <1>2, <1>5, <1>10, <1>11, WriterStep

\* A broker that stops.
LEMMA StopStep ==
  ASSUME IInv, UNCHANGED <<late, reader, wire, session, channel, alive>>,
         writer' \in [state : {"opening", "ready", "idle", "writing", "wrote", "failed"},
                      id : TxIds \cup {None}],
         NEW b, Sound(b, wire, alive), Onward(broker, b), Terminated(b)
  PROVE  IInv' /\ Onward(broker, broker')
<1>1. wire \in Seq(TxIds)
  BY UpWorks
<1>2. broker' = Stopped(b)
  BY DEF Terminated, Stopped
<1>3. Sound(broker', wire, alive) /\ Hand(broker', writer') /\ Onward(b, broker')
  BY <1>1, <1>2, StoppedKeeps
<1>4. Onward(broker, broker')
  BY <1>3, OnwardTransitive
<1> QED
  BY <1>3, <1>4, BrokerStep

\* The writer says that it wrote, or failed to write, the active transmission.
LEMMA WrittenKeeps ==
  ASSUME IInv, Written
  PROVE  IInv' /\ Onward(broker, broker')
<1>1. Working(broker, wire, alive, writer) /\ wire \in Seq(TxIds)
      /\ broker \in Broker /\ Sound(broker, wire, alive)
      /\ Hand(broker, writer) /\ broker.status = "up" /\ broker.active # None
  BY UpWorks DEF Written, Up
<1>2. /\ writer' \in [state : {"opening", "ready", "idle", "writing", "wrote", "failed"},
                      id : TxIds \cup {None}]
      /\ writer'.state = "idle"
  BY DEF Written
<1>3. UNCHANGED <<late, reader, wire, session, channel, alive>>
  BY DEF Written
<1>4. broker.toWriter = None /\ broker.ready
  <2>1. writer.state # "idle"
    BY DEF Written
  <2> QED
    BY <1>1, <2>1 DEF Hand
<1>5. \/ Settled(WriteDone(broker, broker.active))
      \/ Terminated(Done(broker, "write_timeout"))
      \/ Terminated(Done(broker, "write_failed"))
  BY DEF Written, Done
<1>6. CASE Settled(WriteDone(broker, broker.active))
  <2> DEFINE c == Done(broker, "ok")
  <2>1. /\ Sound(c, wire, alive) /\ Onward(broker, c)
        /\ c.status = broker.status /\ c.active = None /\ c.queued = broker.queued
        /\ c.ready = broker.ready /\ c.toWriter = broker.toWriter
    BY <1>1, DoneKeeps
  <2>2. WriteDone(broker, broker.active) = PumpTx(c)
    BY DEF WriteDone, Done
  <2> HIDE DEF c
  <2>3. Working(c, wire, alive, writer')
    BY <1>1, <1>2, <1>4, <2>1 DEF Working, Hand
  <2>4. Working(PumpTx(c), wire, alive, writer') /\ Onward(c, PumpTx(c))
    BY <1>1, <2>3, PumpTxKeeps
  <2>5. Onward(broker, PumpTx(c))
    BY <2>1, <2>4, OnwardTransitive
  <2> QED
    BY <1>2, <1>3, <1>6, <2>2, <2>4, <2>5, WriterStep
<1>7. ASSUME NEW reply \in {"write_timeout", "write_failed"}, Terminated(Done(broker, reply))
      PROVE  IInv' /\ Onward(broker, broker')
  <2>1. Sound(Done(broker, reply), wire, alive) /\ Onward(broker, Done(broker, reply))
    BY <1>1, DoneKeeps
  <2> QED
    BY <1>2, <1>3, <1>7, <2>1, StopStep
<1> QED
  BY <1>5, <1>6, <1>7

\* The deadline of the active transmission: its caller is answered and the
\* broker stops.
LEMMA TimerActiveKeeps ==
  ASSUME IInv, TimerActive
  PROVE  IInv' /\ Onward(broker, broker')
<1>1. Sound(broker, wire, alive) /\ wire \in Seq(TxIds) /\ broker.active # None
  BY UpWorks DEF TimerActive
<1>2. Sound(Done(broker, "write_timeout"), wire, alive)
      /\ Onward(broker, Done(broker, "write_timeout"))
  BY <1>1, DoneKeeps
<1>3. Terminated(Done(broker, "write_timeout")) /\ UNCHANGED Environment
  BY DEF TimerActive, Done
<1>4. writer' \in [state : {"opening", "ready", "idle", "writing", "wrote", "failed"},
                   id : TxIds \cup {None}]
      /\ UNCHANGED <<late, reader, wire, session, channel, alive>>
  BY <1>3 DEF IInv, Surroundings, Environment
<1> QED
  BY <1>2, <1>3, <1>4, StopStep

\* The broker stops for any other reason.
LEMMA BrokerStopsKeeps ==
  ASSUME IInv, BrokerStops
  PROVE  IInv' /\ Onward(broker, broker')
<1>1. Sound(broker, wire, alive) /\ Onward(broker, broker)
  BY UpWorks DEF Onward
<1>2. Terminated(broker) /\ UNCHANGED Environment
  BY DEF BrokerStops
<1>3. writer' \in [state : {"opening", "ready", "idle", "writing", "wrote", "failed"},
                   id : TxIds \cup {None}]
      /\ UNCHANGED <<late, reader, wire, session, channel, alive>>
  BY <1>2 DEF IInv, Surroundings, Environment
<1> QED
  BY <1>1, <1>2, <1>3, StopStep

\* The deadline of a queued transmission.
LEMMA TimerQueuedKeeps ==
  ASSUME IInv, NEW id \in TxIds, TimerQueued(id)
  PROVE  IInv' /\ Onward(broker, broker')
<1> DEFINE expired == {tx \in Elements(broker.queued) : tx.id = id}
           answered == AnswerAll(broker, expired, "not_sent")
           queued == Without(broker.queued, expired)
           c == [answered EXCEPT !.queued = queued]
<1>1. Working(broker, wire, alive, writer) /\ wire \in Seq(TxIds)
      /\ broker \in Broker /\ Writing(broker, wire, alive) /\ Receiving(broker, alive)
      /\ Hand(broker, writer) /\ broker.status = "up"
  BY UpWorks DEF TimerQueued, Up
<1>2. expired \subseteq Tx /\ "not_sent" \in Reply
  BY <1>1, QueuedFacts DEF Reply
<1>3. answered \in Broker /\ answered = [broker EXCEPT !.replies = answered.replies]
  <2>1. broker \in Broker
    BY <1>1
  <2> HIDE DEF expired
  <2> QED
    BY ONLY <1>2, <2>1, AnswerAllFacts
<1>4. /\ queued \in Seq(Tx) /\ Part(queued, broker.queued)
      /\ Elements(queued) = Elements(broker.queued) \ expired
  <2>1. broker.queued \in Seq(Tx)
    BY <1>1, BrokerFields
  <2> HIDE DEF expired
  <2> QED
    BY <2>1, WithoutIsPart
<1>5. Settled(PumpTx(c)) /\ UNCHANGED Environment
  <2>1. answered.queued = broker.queued
    BY <1>1, <1>3 DEF Broker
  <2> QED
    BY <2>1 DEF TimerQueued
<1> HIDE DEF answered, queued
<1>6. /\ c \in Broker /\ c.queued = queued /\ c.active = broker.active
      /\ c.replies = answered.replies /\ c.status = broker.status
      /\ c.sessions = broker.sessions /\ c.drained = broker.drained
      /\ c.admitted = broker.admitted /\ c.toWriter = broker.toWriter /\ c.ready = broker.ready
      /\ SameReceiving(broker, c)
  <2>1. broker \in Broker /\ queued \in Seq(Tx) /\ c = [answered EXCEPT !.queued = queued]
    BY <1>1, <1>4
  <2> HIDE DEF c
  <2> QED
    BY <1>3, <2>1, QueueReplaced
<1> HIDE DEF c
<1>7. Writing(c, wire, alive)
  <2>1. c.replies = AnswerAll(broker, expired, "not_sent").replies
    BY <1>6 DEF answered
  <2>2. expired = Elements(broker.queued) \ Elements(c.queued) /\ Part(c.queued, broker.queued)
    BY <1>4, <1>6
  <2>3. \A tx \in Elements(c.queued) : tx.session \in Session => c.sessions[tx.session] # "closed"
    <3>1. Elements(c.queued) \subseteq Elements(broker.queued)
      BY <1>4, <1>6
    <3> QED
      BY <1>1, <1>6, <3>1 DEF Writing, WritesClosed, Elements
  <2>4. "not_sent" \in NotSent /\ "not_sent" # "session_closed"
    BY DEF NotSent
  <2> HIDE DEF expired
  <2> QED
    BY <1>1, <1>6, <2>1, <2>2, <2>3, <2>4, DropKeeps
<1>8. Receiving(c, alive)
  BY <1>1, <1>6, ReceivingKept
<1>9. Working(c, wire, alive, writer) /\ Onward(broker, c)
  BY <1>1, <1>6, <1>7, <1>8 DEF Working, Sound, Hand, Onward, SameReceiving
<1>10. Working(PumpTx(c), wire, alive, writer) /\ Onward(c, PumpTx(c))
  BY <1>1, <1>9, PumpTxKeeps
<1>11. Onward(broker, PumpTx(c))
  BY <1>9, <1>10, OnwardTransitive
<1> QED
  BY <1>5, <1>10, <1>11, HandlerStep

\* The reader hands over a message.
LEMMA ReceivedKeeps ==
  ASSUME IInv, Received
  PROVE  IInv' /\ Onward(broker, broker')
<1> DEFINE c == [broker EXCEPT !.reading = FALSE, !.buffered = reader.route]
<1>1. Working(broker, wire, alive, writer) /\ wire \in Seq(TxIds)
      /\ broker \in Broker /\ Writing(broker, wire, alive) /\ Receiving(broker, alive)
      /\ Hand(broker, writer) /\ broker.status = "up"
  BY UpWorks DEF Received, Up
<1>2. reader.route \in Route
  BY DEF Received, IInv, Surroundings
<1>3. c \in Broker /\ SameWriting(broker, c) /\ SameReceiving(broker, c)
  BY <1>1, <1>2 DEF Broker, SameWriting, SameReceiving
<1>4. Settled(PumpRx(c)) /\ UNCHANGED <<late, writer, wire, session, channel, alive>>
      /\ reader' = [state |-> "waiting", route |-> None]
  BY DEF Received
<1> HIDE DEF c
<1>5. Working(c, wire, alive, writer) /\ Onward(broker, c)
  <2>1. Writing(c, wire, alive) /\ Receiving(c, alive)
    BY <1>1, <1>3, WritingKept, ReceivingKept
  <2>2. Hand(c, writer) /\ c.status = "up" /\ Onward(broker, c)
    BY <1>1, <1>3 DEF SameWriting, SameReceiving, Hand, Onward
  <2> QED
    BY <1>3, <2>1, <2>2 DEF Working, Sound
<1>6. Working(PumpRx(c), wire, alive, writer) /\ Onward(c, PumpRx(c))
  BY <1>1, <1>5, PumpRxKeeps
<1>7. Sound(broker', wire, alive) /\ Hand(broker', writer) /\ Onward(PumpRx(c), broker')
  BY <1>1, <1>4, <1>6, SettledKeeps
<1>8. Onward(broker, broker')
  BY <1>5, <1>6, <1>7, OnwardTransitive
<1>9. Sound(broker', wire', alive') /\ Hand(broker', writer')
  BY <1>4, <1>7
<1>10. Surroundings'
  BY <1>4, <1>8 DEF IInv, Surroundings, Onward
<1> QED
  BY <1>8, <1>9, <1>10 DEF IInv

\* 'DOWN' of a session.
LEMMA SessionDownKeeps ==
  ASSUME IInv, NEW s \in Session, SessionDown(s)
  PROVE  IInv' /\ Onward(broker, broker')
<1> DEFINE c == RetireSessions({s}, broker)
<1>1. Working(broker, wire, alive, writer) /\ wire \in Seq(TxIds)
      /\ Writing(broker, wire, alive)
  BY UpWorks DEF SessionDown
<1>2. {s} \in SUBSET Session /\ {s} \cap broker.drained = {}
      /\ \A q \in {s} : broker.sessions[q] # "unknown"
  BY <1>1 DEF SessionDown, Writing, WritesClosed
<1>3. Working(c, wire, alive, writer) /\ Onward(broker, c)
  BY <1>1, <1>2, RetireSessionsKeeps
<1>4. Settled(PumpTx(c)) /\ UNCHANGED Environment
  BY DEF SessionDown
<1> HIDE DEF c
<1>5. Working(PumpTx(c), wire, alive, writer) /\ Onward(c, PumpTx(c))
  BY <1>1, <1>3, PumpTxKeeps
<1>6. Onward(broker, PumpTx(c))
  BY <1>3, <1>5, OnwardTransitive
<1> QED
  BY <1>4, <1>5, <1>6, HandlerStep

\* 'DOWN' of an owner.
LEMMA OwnerDownKeeps ==
  ASSUME IInv, NEW owner \in Owner, OwnerDown(owner)
  PROVE  IInv' /\ Onward(broker, broker')
<1> DEFINE c == Retire(owner, broker)
<1>1. Working(broker, wire, alive, writer) /\ wire \in Seq(TxIds) /\ ~alive[owner]
  BY UpWorks DEF OwnerDown
<1>2. Working(c, wire, alive, writer) /\ Onward(broker, c)
  BY <1>1, RetireKeeps
<1>3. Settled(PumpTx(c)) /\ UNCHANGED Environment
  BY DEF OwnerDown
<1> HIDE DEF c
<1>4. Working(PumpTx(c), wire, alive, writer) /\ Onward(c, PumpTx(c))
  BY <1>1, <1>2, PumpTxKeeps
<1>5. Onward(broker, PumpTx(c))
  BY <1>2, <1>4, OnwardTransitive
<1> QED
  BY <1>3, <1>4, <1>5, HandlerStep

-----------------------------------------------------------------------------
(* The workers, the sessions and time.                                     *)

\* What the writer process does by itself.
LEMMA WriterKeeps ==
  ASSUME IInv, WriterOpens \/ WriterTakes \/ \E result \in {"wrote", "failed"} : WriterFinishes(result)
  PROVE  IInv' /\ Onward(broker, broker')
<1>1. /\ broker \in Broker /\ Sound(broker, wire, alive) /\ wire \in Seq(TxIds)
      /\ Writing(broker, wire, alive) /\ Receiving(broker, alive) /\ Hand(broker, writer)
  BY UpWorks
<1>2. writer \in [state : {"opening", "ready", "idle", "writing", "wrote", "failed"},
                  id : TxIds \cup {None}]
  BY DEF IInv, Surroundings
<1>3. ASSUME NEW state \in {"ready", "wrote", "failed"},
             writer' = [writer EXCEPT !.state = state],
             state = "ready" => writer.state = "opening",
             state # "ready" => writer.state = "writing",
             UNCHANGED <<broker, late, reader, wire, session, channel, alive>>
      PROVE  IInv' /\ Onward(broker, broker')
  <2>1. writer' \in [state : {"opening", "ready", "idle", "writing", "wrote", "failed"},
                     id : TxIds \cup {None}]
        /\ writer'.state = state
    BY <1>2, <1>3
  <2>2. Hand(broker', writer')
    <3>1. Hand(broker, writer')
      BY <1>1, <1>3, <2>1 DEF Hand
    <3> QED
      BY <1>3, <3>1
  <2>3. Onward(broker, broker') /\ Sound(broker', wire, alive)
    BY <1>1, <1>3 DEF Onward
  <2> QED
    BY <1>3, <2>1, <2>2, <2>3, BrokerStep
<1>4. CASE WriterOpens
  BY <1>3, <1>4 DEF WriterOpens
<1>5. CASE \E result \in {"wrote", "failed"} : WriterFinishes(result)
  BY <1>3, <1>5 DEF WriterFinishes
<1>6. CASE WriterTakes
  <2> DEFINE c == [broker EXCEPT !.toWriter = None]
             w == Append(wire, broker.toWriter)
  <2>1. /\ writer.state = "idle" /\ broker.toWriter # None /\ broker' = c /\ wire' = w
        /\ writer' = [state |-> "writing", id |-> broker.toWriter]
        /\ UNCHANGED <<late, reader, session, channel, alive>>
    BY <1>6 DEF WriterTakes
  <2>2. /\ c \in Broker /\ c.toWriter = None /\ c.status = broker.status
        /\ c.sessions = broker.sessions /\ c.drained = broker.drained
        /\ c.queued = broker.queued /\ c.active = broker.active /\ c.replies = broker.replies
        /\ c.admitted = broker.admitted /\ c.ready = broker.ready /\ SameReceiving(broker, c)
    BY <1>1 DEF Broker, SameReceiving
  <2> HIDE DEF c
  <2>3. w \in Seq(TxIds) /\ Writing(c, w, alive)
    BY <1>1, <2>1, <2>2, WireKeeps
  <2>4. Receiving(c, alive)
    BY <1>1, <2>2, ReceivingKept
  <2>5. Sound(broker', wire', alive')
    <3>1. Sound(c, w, alive)
      BY <2>2, <2>3, <2>4 DEF Sound
    <3> QED
      BY <2>1, <3>1
  <2>6. writer'.state = "writing" /\ broker.toWriter \in TxIds
    BY <1>1, <2>1, BrokerFields
  <2>7. Hand(broker', writer')
    <3>1. Hand(c, writer')
      BY <1>1, <2>1, <2>2, <2>6 DEF Hand
    <3> QED
      BY <2>1, <3>1
  <2>8. Onward(broker, broker')
    <3>1. Onward(broker, c)
      BY <2>2 DEF Onward, SameReceiving
    <3> QED
      BY <2>1, <3>1
  <2>9. Surroundings'
    <3>1. wire' \in Seq(TxIds)
      BY <2>1, <2>3
    <3>2. writer' \in [state : {"opening", "ready", "idle", "writing", "wrote", "failed"},
                       id : TxIds \cup {None}]
      BY <2>1, <2>6
    <3> QED
      BY <2>1, <2>8, <3>1, <3>2 DEF IInv, Surroundings, Onward
  <2> QED
    BY <2>5, <2>7, <2>8, <2>9 DEF IInv
<1> QED
  BY <1>4, <1>5, <1>6

\* What the reader process does by itself, and what arrives.
LEMMA ReaderKeeps ==
  ASSUME IInv, ReaderOpens \/ ReaderTakes \/ \E route \in Route : FrameArrives(route)
  PROVE  IInv' /\ Onward(broker, broker')
<1>1. /\ broker \in Broker /\ Sound(broker, wire, alive) /\ wire \in Seq(TxIds)
      /\ Writing(broker, wire, alive) /\ Receiving(broker, alive) /\ Hand(broker, writer)
  BY UpWorks
<1>2. /\ reader \in [state : {"opening", "waiting", "reading", "received"}, route : Route \cup {None}]
      /\ reader.state = "received" => reader.route \in Route
  BY DEF IInv, Surroundings
<1>3. /\ reader' \in [state : {"opening", "waiting", "reading", "received"}, route : Route \cup {None}]
      /\ reader'.state = "received" => reader'.route \in Route
  BY <1>2 DEF ReaderOpens, ReaderTakes, FrameArrives
<1>4. UNCHANGED <<late, writer, wire, session, channel, alive>>
      /\ (broker' = broker \/ broker' = [broker EXCEPT !.toReader = FALSE])
  BY DEF ReaderOpens, ReaderTakes, FrameArrives
<1>5. broker' \in Broker /\ SameWriting(broker, broker') /\ SameReceiving(broker, broker')
  <2>1. CASE broker' = broker
    BY <1>1, <2>1 DEF SameWriting, SameReceiving
  <2>2. CASE broker' = [broker EXCEPT !.toReader = FALSE]
    BY <1>1, <2>2 DEF SameWriting, SameReceiving, Broker
  <2> QED
    BY <1>4, <2>1, <2>2
<1>6. Writing(broker', wire, alive) /\ Receiving(broker', alive)
  BY <1>1, <1>5, WritingKept, ReceivingKept
<1>7. Sound(broker', wire', alive')
  BY <1>4, <1>5, <1>6 DEF Sound
<1>8. Hand(broker', writer') /\ Onward(broker, broker')
  BY <1>1, <1>4, <1>5 DEF SameWriting, SameReceiving, Hand, Onward
<1>9. Surroundings'
  BY <1>3, <1>4, <1>8 DEF IInv, Surroundings, Onward
<1> QED
  BY <1>7, <1>8, <1>9 DEF IInv

\* A session that opens was unknown to the broker.
LEMMA OpenSessionKeeps ==
  ASSUME IInv, NEW s \in Session, OpenSession(s)
  PROVE  IInv' /\ broker'.routes = broker.routes
<1> DEFINE c == [broker EXCEPT !.sessions[s] = "open"]
<1>1. Sound(broker, wire, alive) /\ Hand(broker, writer) /\ wire \in Seq(TxIds)
  BY UpWorks
<1>2. /\ broker' = c /\ session' = [session EXCEPT ![s] = "open"]
      /\ UNCHANGED <<late, writer, reader, wire, channel, alive>>
  BY DEF OpenSession
<1>3. broker.sessions[s] = "unknown"
  BY DEF OpenSession, IInv, Surroundings
<1>4. /\ Sound(c, wire, alive) /\ Hand(c, writer) /\ c.routes = broker.routes
      /\ \A q \in Session : c.sessions[q] = IF q = s THEN "open" ELSE broker.sessions[q]
  BY <1>1, <1>3, MarkKeeps
<1> HIDE DEF c
<1>5. Sound(broker', wire', alive') /\ Hand(broker', writer') /\ broker'.routes = broker.routes
  BY <1>2, <1>4
<1>6. Surroundings'
  BY <1>2, <1>4 DEF IInv, Surroundings
<1> QED
  BY <1>5, <1>6 DEF IInv

\* What the sessions do, and a deadline that passes, does not touch the broker.
LEMMA SessionsKeep ==
  ASSUME IInv, UNCHANGED <<broker, writer, reader, wire, alive>>,
         \/ \E s \in Session, call \in Call : SessionForwards(s, call)
         \/ \E s \in Session : SessionDrains(s) \/ SessionDrained(s) \/ SessionDies(s)
         \/ \E id \in TxIds : DeadlinePasses(id)
         \/ UNCHANGED <<session, channel>>
  PROVE  IInv' /\ broker'.routes = broker.routes
<1>1. channel \in [Session -> Seq(Request)] /\ session \in [Session -> {"absent", "open", "draining", "drained", "dead"}]
  BY DEF IInv, Surroundings
<1>2. ASSUME NEW s \in Session, NEW r \in Request
      PROVE  [channel EXCEPT ![s] = Append(@, r)] \in [Session -> Seq(Request)]
  <2>1. Append(channel[s], r) \in Seq(Request)
    <3>1. channel[s] \in Seq(Request)
      BY <1>1
    <3> QED
      BY <3>1
  <2> QED
    BY <1>1, <2>1
<1>3. channel' \in [Session -> Seq(Request)]
  <2>1. \A call \in Call : call \in Request
    BY DEF Request
  <2>2. [kind |-> "drain"] \in Request
    BY DEF Request
  <2>3. ASSUME NEW s \in Session, NEW call \in Call, SessionForwards(s, call)
        PROVE  channel' \in [Session -> Seq(Request)]
    <3>1. channel' = [channel EXCEPT ![s] = Append(@, call)]
      BY <2>3 DEF SessionForwards
    <3>2. [channel EXCEPT ![s] = Append(@, call)] \in [Session -> Seq(Request)]
      BY <1>2, <2>1
    <3> QED
      BY ONLY <3>1, <3>2
  <2>4. ASSUME NEW s \in Session, SessionDrains(s)
        PROVE  channel' \in [Session -> Seq(Request)]
    <3>1. channel' = [channel EXCEPT ![s] = Append(@, [kind |-> "drain"])]
      BY <2>4 DEF SessionDrains
    <3>2. [channel EXCEPT ![s] = Append(@, [kind |-> "drain"])] \in [Session -> Seq(Request)]
      BY <1>2, <2>2
    <3> QED
      BY ONLY <3>1, <3>2
  <2>5. CASE \/ \E s \in Session : SessionDrained(s) \/ SessionDies(s)
             \/ \E id \in TxIds : DeadlinePasses(id)
             \/ UNCHANGED <<session, channel>>
    <3>1. channel' = channel
      BY <2>5 DEF SessionDrained, SessionDies, DeadlinePasses
    <3> QED
      BY <1>1, <3>1
  <2> QED
    BY <2>3, <2>4, <2>5
<1>4. /\ session' \in [Session -> {"absent", "open", "draining", "drained", "dead"}]
      /\ \A s \in Session : session'[s] = "absent" => session[s] = "absent"
  BY <1>1 DEF SessionForwards, SessionDrains, SessionDrained, SessionDies, DeadlinePasses
<1>5. Surroundings'
  BY <1>3, <1>4 DEF IInv, Surroundings
<1>6. Sound(broker', wire', alive') /\ Hand(broker', writer')
  BY DEF IInv
<1> QED
  BY <1>5, <1>6 DEF IInv

\* A process that dies can neither be owed an answer nor owe a credit.
LEMMA OwnerDiesKeeps ==
  ASSUME IInv, NEW owner \in Owner, OwnerDies(owner)
  PROVE  IInv' /\ broker'.routes = broker.routes
<1>1. /\ broker \in Broker /\ Sound(broker, wire, alive) /\ wire \in Seq(TxIds)
      /\ Writing(broker, wire, alive) /\ Receiving(broker, alive) /\ Hand(broker, writer)
  BY UpWorks
<1>2. /\ alive' = [alive EXCEPT ![owner] = FALSE] /\ alive \in [Owner -> BOOLEAN]
      /\ UNCHANGED <<broker, late, writer, reader, wire, session, channel>>
  BY DEF OwnerDies, IInv, Surroundings
<1>3. alive' \in [Owner -> BOOLEAN] /\ \A o \in Owner : ~alive[o] => ~alive'[o]
  BY <1>2
<1>4. ASSUME NEW n \in Admitted(broker), SettledTx(broker, alive, n)
      PROVE  SettledTx(broker, alive', n)
  <2>1. broker.admitted[n].from \in Owner
    BY <1>1 DEF Writing, Recorded
  <2> QED
    BY <1>3, <1>4, <2>1 DEF SettledTx
<1>5. WritesPending(broker, alive')
  BY <1>1, <1>4 DEF Writing, WritesPending
<1>6. ASSUME NEW n \in 1 .. Len(broker.delivered), Returned(broker, alive, n)
      PROVE  Returned(broker, alive', n)
  <2>1. broker.delivered \in Seq(Owned)
    BY <1>1, BrokerFields
  <2>2. broker.delivered[n] \in Owned
    BY <2>1
  <2>3. broker.delivered[n].owner \in Owner
    BY <2>2 DEF Owned
  <2> QED
    BY <1>3, <1>6, <2>3 DEF Returned
<1>7. Credits(broker, alive')
  BY <1>1, <1>6 DEF Receiving, Credits
<1>8. Sound(broker, wire, alive')
  BY <1>1, <1>5, <1>7 DEF Sound, Writing, Receiving
<1>9. Sound(broker', wire', alive') /\ Hand(broker', writer') /\ broker'.routes = broker.routes
  BY <1>1, <1>2, <1>8
<1>10. Surroundings'
  BY <1>2, <1>3 DEF IInv, Surroundings
<1> QED
  BY <1>9, <1>10 DEF IInv

\* Every step keeps the invariant and the registrations.
KeepsRoutes ==
  \A r \in Route : broker.routes[r] # Free => broker'.routes[r] \in {broker.routes[r], Retired}

\* Every step of the broker, its writer, its reader, its sessions and the
\* link keeps the invariant, and no route goes back to where it was.
LEMMA NextKeeps ==
  ASSUME IInv, [Next]_vars
  PROVE  IInv' /\ KeepsRoutes
<1>1. Onward(broker, broker') => KeepsRoutes
  BY DEF Onward, KeepsRoutes
<1>2. broker'.routes = broker.routes => KeepsRoutes
  BY DEF KeepsRoutes
<1>3. CASE \E call \in Call : DirectRequest(call)
  BY <1>1, <1>3, DirectRequestKeeps
<1>4. CASE \E s \in Session : SessionRequest(s)
  BY <1>1, <1>4, SessionRequestKeeps
<1>5. CASE \E owner \in Owner, id \in FrameIds : Ack(owner, id)
  BY <1>1, <1>5, AckKeeps
<1>6. CASE WriterReady
  BY <1>1, <1>6, WriterReadyKeeps
<1>7. CASE Written
  BY <1>1, <1>7, WrittenKeeps
<1>8. CASE TimerActive
  BY <1>1, <1>8, TimerActiveKeeps
<1>9. CASE \E id \in TxIds : TimerQueued(id)
  BY <1>1, <1>9, TimerQueuedKeeps
<1>10. CASE Received
  BY <1>1, <1>10, ReceivedKeeps
<1>11. CASE \E s \in Session : SessionDown(s)
  BY <1>1, <1>11, SessionDownKeeps
<1>12. CASE \E owner \in Owner : OwnerDown(owner)
  BY <1>1, <1>12, OwnerDownKeeps
<1>13. CASE BrokerStops
  BY <1>1, <1>13, BrokerStopsKeeps
<1>14. CASE WriterOpens \/ WriterTakes \/ \E result \in {"wrote", "failed"} : WriterFinishes(result)
  BY <1>1, <1>14, WriterKeeps
<1>15. CASE ReaderOpens \/ ReaderTakes \/ \E route \in Route : FrameArrives(route)
  BY <1>1, <1>15, ReaderKeeps
<1>16. CASE \E s \in Session : OpenSession(s)
  BY <1>2, <1>16, OpenSessionKeeps
<1>17. CASE \/ \E s \in Session, call \in Call : SessionForwards(s, call)
            \/ \E s \in Session : SessionDrains(s) \/ SessionDrained(s) \/ SessionDies(s)
            \/ \E id \in TxIds : DeadlinePasses(id)
  <2>1. UNCHANGED <<broker, writer, reader, wire, alive>>
    BY <1>17 DEF SessionForwards, SessionDrains, SessionDrained, SessionDies, DeadlinePasses
  <2> QED
    BY <1>2, <1>17, <2>1, SessionsKeep
<1>18. CASE \E owner \in Owner : OwnerDies(owner)
  BY <1>2, <1>18, OwnerDiesKeeps
<1>19. CASE UNCHANGED vars
  <2>1. UNCHANGED <<broker, writer, reader, wire, alive>> /\ UNCHANGED <<session, channel>>
    BY <1>19 DEF vars
  <2> QED
    BY <1>2, <2>1, SessionsKeep
<1> QED
  BY <1>3, <1>4, <1>5, <1>6, <1>7, <1>8, <1>9, <1>10, <1>11, <1>12, <1>13, <1>14, <1>15,
     <1>16, <1>17, <1>18, <1>19 DEF Next

-----------------------------------------------------------------------------
(* The theorems.                                                           *)

\* The broker, its writer and its callers agree on every transmission and on
\* every credit: the types, the line from the queue to the wire, who was told
\* what, whose receipts are outstanding.
THEOREM BrokerConsistent == Spec => []IInv
<1>1. Init => IInv
  BY InitSound
<1>2. IInv /\ [Next]_vars => IInv'
  BY NextKeeps
<1> QED
  BY <1>1, <1>2, PTL DEF Spec

\* Accepted writes reach the device once and in the order of admission, and what
\* a caller hears of its write is true (hls_fabric.erl's pump_tx/1, complete/2).
THEOREM WritesAreTruthful == Spec => []WritesTruthful
<1>1. IInv => WritesTruthful
  <2> SUFFICES ASSUME IInv PROVE WritesTruthful
    OBVIOUS
  <2>1. broker \in Broker /\ InLine(broker, wire) /\ Truthful(broker, wire)
    BY UpWorks DEF Writing
  <2>2. AdmissionOrder
    BY <2>1 DEF InLine, AdmissionOrder
  <2>3. ASSUME NEW id \in TxIds
        PROVE  /\ Len(broker.replies[id]) <= 1
               /\ broker.replies[id] # << >> =>
                    (HandedOver(id) <=> Head(broker.replies[id]) \notin NotSent)
    <3>1. HandedOver(id) <=> id \in Given(broker, wire)
      BY NothingIsNone DEF HandedOver, Given
    <3>2. broker.replies[id] \in Seq(Reply)
      BY <2>1, BrokerFields
    <3>3. broker.replies[id] # << >> => Head(broker.replies[id]) = broker.replies[id][1]
      BY <3>2
    <3> QED
      BY <2>1, <3>1, <3>3 DEF Truthful
  <2> QED
    BY <2>2, <2>3 DEF WritesTruthful, AnsweredTruly
<1> QED
  BY <1>1, BrokerConsistent, PTL

\* Every outstanding receipt belongs to the present owner of its route, and the
\* windows of the device and of each route hold (pump_rx/1, retire/2).
THEOREM CreditsReturn == Spec => []CreditsCanReturn
<1>1. IInv => CreditsCanReturn
  BY UpWorks DEF CreditsCanReturn, Receiving, Windows, Returnable
<1> QED
  BY <1>1, BrokerConsistent, PTL

\* A drain that was answered left nothing behind (finish_draining/1).
THEOREM DrainsAreClean == Spec => []DrainIsClean
<1>1. IInv => DrainIsClean
  <2> SUFFICES ASSUME IInv, NEW s \in broker.drained
               PROVE  /\ \A n \in 1 .. Len(broker.delivered) :
                           broker.delivered[n].session = s =>
                             n \in broker.acked \/ ~alive[broker.delivered[n].owner]
                      /\ \A n \in 1 .. Len(broker.admitted) :
                           broker.admitted[n].session = s =>
                             \/ ~alive[broker.admitted[n].from]
                             \/ /\ broker.replies[n] # << >>
                                /\ Head(broker.replies[n]) \notin {"session_closed", "transport_down"}
                      /\ ~SessionBusy(s, broker) /\ RoutesOf(broker, {s}) = {}
    BY DEF DrainIsClean
  <2>1. broker \in Broker /\ Writing(broker, wire, alive) /\ Receiving(broker, alive)
    BY UpWorks
  <2>2. /\ s \in Session /\ broker.sessions[s] = "closed" /\ ~Abandoned(broker, s)
        /\ broker.active # None => broker.active.session # s
    BY <2>1, BrokerFields DEF Writing, WritesClosed, Abandoned
  <2>3. RoutesOf(broker, {s}) = {}
    BY <2>1, <2>2 DEF Receiving, RoutesClosed, RoutesOf
  <2>4. \A tx \in Elements(broker.queued) : tx.session # s
    BY <2>1, <2>2 DEF Writing, WritesClosed, Elements
  <2>5. ~SessionBusy(s, broker)
    BY <2>2, <2>3, <2>4 DEF SessionBusy, Transactions
  <2>6. ASSUME NEW n \in 1 .. Len(broker.delivered), broker.delivered[n].session = s
        PROVE  n \in broker.acked \/ ~alive[broker.delivered[n].owner]
    <3>1. \A r \in broker.receipts : broker.routes[r.route] # broker.delivered[n]
      <4> SUFFICES ASSUME NEW r \in broker.receipts, broker.routes[r.route] = broker.delivered[n]
                   PROVE  FALSE
        OBVIOUS
      <4>1. r.route \in Route /\ IsOwned(broker, r.route)
        BY <2>1, BrokerFields DEF Receiving, Returnable, Receipt
      <4> QED
        BY <2>3, <2>6, <4>1 DEF RoutesOf
    <3> QED
      BY <2>1, <2>2, <2>6, <3>1 DEF Receiving, Credits, Returned
  <2>7. ASSUME NEW n \in 1 .. Len(broker.admitted), broker.admitted[n].session = s
        PROVE  \/ ~alive[broker.admitted[n].from]
               \/ /\ broker.replies[n] # << >>
                  /\ Head(broker.replies[n]) \notin {"session_closed", "transport_down"}
    <3>1. n \in Admitted(broker)
      BY DEF Admitted
    <3>2. ~\E k \in 1 .. Len(broker.queued) : broker.queued[k].id = n
      <4> SUFFICES ASSUME NEW k \in 1 .. Len(broker.queued), broker.queued[k].id = n PROVE FALSE
        OBVIOUS
      <4>1. broker.queued[k] \in Elements(broker.queued)
        BY DEF Elements
      <4>2. broker.queued[k] = broker.admitted[n]
        BY <2>1, <4>1, QueuedFacts, UpWorks
      <4> QED
        BY <2>4, <2>7, <4>1, <4>2
    <3>3. ~(broker.active # None /\ broker.active.id = n)
      BY <2>1, <2>2, <2>7, ActiveFacts
    <3>4. SettledTx(broker, alive, n)
      BY <2>1, <2>2, <2>7, <3>1, <3>2, <3>3 DEF Writing, WritesPending
    <3>5. n \in TxIds
      <4>1. Len(broker.admitted) \in Nat /\ Len(broker.admitted) <= MaxTx /\ MaxTx \in Nat
        BY <2>1, BrokerFields, NothingIsNone DEF Writing, Recorded
      <4> QED
        BY <4>1 DEF TxIds
    <3>6. broker.replies[n] \in Seq(Reply)
      BY <2>1, <3>5, BrokerFields
    <3>7. broker.replies[n] # << >> => Head(broker.replies[n]) = broker.replies[n][1]
      BY <3>6
    <3> QED
      BY <3>4, <3>7 DEF SettledTx
  <2> QED
    BY <2>3, <2>5, <2>6, <2>7
<1> QED
  BY <1>1, BrokerConsistent, PTL

\* A route belongs to one owner and one session for the life of the broker
\* (request/4, retire/2, retire_session/2).
THEOREM RoutesBelong == Spec => RoutesNeverReused
<1>1. IInv /\ [Next]_vars =>
        [\A r \in Route : broker.routes[r] # Free =>
           broker'.routes[r] \in {broker.routes[r], Retired}]_vars
  BY NextKeeps DEF KeepsRoutes
<1> QED
  BY <1>1, BrokerConsistent, PTL DEF Spec, RoutesNeverReused
=============================================================================
