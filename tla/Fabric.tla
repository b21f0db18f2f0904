------------------------------- MODULE Fabric -------------------------------
(***************************************************************************)
(* One device broker (apps/hls_runtime/src/runtime/hls_fabric.erl) with    *)
(* its raw writer and reader (hls_fabric_io.erl), the logical sessions in  *)
(* front of it (hls_fabric_session.erl) and the processes that own routes  *)
(* and wait for writes.                                                    *)
(*                                                                         *)
(* The broker's #state{} is the record `broker'; the helper functions      *)
(* pump_tx, pump_rx, retire, ... are operators from broker to broker, and  *)
(* each handler is one action that applies them in the code's order.  What *)
(* the broker sends goes into fields of the same record: replies to        *)
(* callers, the request to the writer, the request to the reader, and the  *)
(* session_drained notices.  The frames in a route owner's mailbox are the *)
(* outstanding receipts.                                                   *)
(*                                                                         *)
(* Time: a deadline either has passed or has not.  `late' is the set of    *)
(* the transmissions whose deadline has passed; expired/1 reads it, and    *)
(* the timer message of a transmission can arrive once it is there.        *)
(***************************************************************************)
EXTENDS Queues, FiniteSets

CONSTANTS Owner,         \* processes that call the broker and own routes
          Session,       \* logical sessions
          Route,         \* routes {Source, Destination}
          None,          \* no session, no process, no frame
          Free, Retired, \* a route that has no owner yet, or no longer
          TxLimit, TxRouteLimit, RxLimit, RxRouteLimit,
          MaxTx,         \* bound: transmissions admitted
          MaxFrames,     \* bound: frames the device sends; it is quiet then
          MaxChannel     \* bound: requests under way from a session

Owned == [owner : Owner, session : Session \cup {None}]

ASSUME LimitAssumption ==
  /\ {TxLimit, TxRouteLimit, RxLimit, RxRouteLimit} \subseteq Nat \ {0}
  /\ {MaxTx, MaxFrames, MaxChannel} \subseteq Nat

\* No session, process, frame or write is None; no owner is a mark of a route.
ASSUME NameAssumption ==
  /\ None \notin Owner \cup Session \cup Route \cup Nat
  /\ Free # Retired
  /\ \A o \in Owned : o # Free /\ o # Retired
  /\ \A id \in 1 .. MaxTx, s \in Session \cup {None}, o \in Owner \cup {None}, r \in Route :
       None # [id |-> id, session |-> s, from |-> o, route |-> r]

VARIABLES broker,   \* the broker's state and what it has sent
          late,     \* transmissions whose deadline has passed
          writer,   \* the writer process
          reader,   \* the reader process
          wire,     \* the transmissions the writer put on the wire, in order
          session,  \* the session processes
          channel,  \* requests from each session to the broker
          alive     \* the owners that are alive
vars == <<broker, late, writer, reader, wire, session, channel, alive>>

TxIds == 1 .. MaxTx
FrameIds == 1 .. MaxFrames

\* A transmission is [id, session, from, route]; a receipt [id, owner, route];
\* a request [kind] with, unless it drains, [owner, route].

-----------------------------------------------------------------------------
(* Replies.  complete/2 answers a caller unless it is gone.  Two kinds of   *)
(* {not_sent, _} are kept apart: the one for a session that closed.        *)

NotSent == {"not_sent", "session_closed"}

Answer(b, tx, reply) ==
  IF tx.from = None THEN b
  ELSE [b EXCEPT !.replies[tx.id] = Append(@, reply)]

\* The same answer for every transmission of a set.
AnswerAll(b, txs, reply) ==
  [b EXCEPT !.replies = [id \in TxIds |->
     IF \E tx \in txs : tx.id = id /\ tx.from # None THEN Append(@[id], reply)
                                                     ELSE @[id]]]

Transactions(b) == Elements(b.queued) \cup (IF b.active = None THEN {} ELSE {b.active})

-----------------------------------------------------------------------------
(* pump_tx/1: expired transmissions at the head are answered, the first    *)
(* one that is in time goes to the writer.                                 *)

FirstInTime(queue) ==
  CHOOSE n \in 1 .. Len(queue) + 1 :
    /\ n <= Len(queue) => queue[n].id \notin late
    /\ \A m \in 1 .. n - 1 : queue[m].id \in late

\* Mutant: the newest transmission is taken.
PumpTxNewest(b) ==
  IF b.ready /\ b.active = None /\ b.queued # <<>>
  THEN LET n == Len(b.queued) IN
       [b EXCEPT !.active = b.queued[n], !.queued = SubSeq(b.queued, 1, n - 1),
                 !.toWriter = b.queued[n].id]
  ELSE b

PumpTx(b) ==
  IF b.ready /\ b.active = None
  THEN LET n == FirstInTime(b.queued)
           dropped == AnswerAll(b, Elements(SubSeq(b.queued, 1, n - 1)), "not_sent")
       IN IF n > Len(b.queued) THEN [dropped EXCEPT !.queued = <<>>]
          ELSE [dropped EXCEPT !.active = b.queued[n], !.toWriter = b.queued[n].id,
                               !.queued = SubSeq(@, n + 1, Len(@))]
  ELSE b

-----------------------------------------------------------------------------
(* pump_rx/1: a buffered frame is delivered within the windows or          *)
(* discarded; then the reader is asked for the next one.                   *)

OnRoute(b, route) == {r \in b.receipts : r.route = route}

IsOwned(b, route) == b.routes[route] \in Owned

\* The number of the last frame delivered is the number of delivery records.
Deliver(b) ==
  LET route == b.buffered
      owner == b.routes[route].owner
  IN [b EXCEPT !.buffered = None,
               !.delivered = Append(@, b.routes[route]),
               !.receipts = @ \cup {[id |-> Len(b.delivered) + 1, owner |-> owner,
                                     route |-> route]}]

\* Mutant: the window of the route is not looked at.
WindowOfDevice(b, route) == Cardinality(b.receipts) < RxLimit

WindowOpen(b, route) ==
  Cardinality(b.receipts) < RxLimit /\ Cardinality(OnRoute(b, route)) < RxRouteLimit

\* Mutant: a frame for a route without an owner is kept.
DeliverOnly(b) ==
  IF b.buffered # None /\ IsOwned(b, b.buffered) /\ WindowOpen(b, b.buffered)
  THEN Deliver(b) ELSE b

DeliverOrDiscard(b) ==
  IF b.buffered = None THEN b
  ELSE IF ~IsOwned(b, b.buffered) THEN [b EXCEPT !.buffered = None]
  ELSE IF WindowOpen(b, b.buffered) THEN Deliver(b)
  ELSE b

AskReader(b) ==
  IF b.buffered = None /\ ~b.reading /\ Cardinality(b.receipts) < RxLimit
  THEN [b EXCEPT !.reading = TRUE, !.toReader = TRUE]
  ELSE b

PumpRx(b) == AskReader(DeliverOrDiscard(b))

-----------------------------------------------------------------------------
(* Retirement of an owner (retire/2) and of a session (retire_session/2).  *)

\* Mutant: the receipts of the dead owner stay outstanding.
RetireKeepingReceipts(owner, b) ==
  LET gone == {tx \in Elements(b.queued) : tx.from = owner} IN
  PumpRx(
    [AnswerAll(b, gone, "not_sent") EXCEPT
       !.routes = [r \in Route |->
          IF IsOwned(b, r) /\ b.routes[r].owner = owner THEN Retired ELSE @[r]],
       !.queued = Without(@, gone),
       !.active = IF @ # None /\ @.from = owner THEN [@ EXCEPT !.from = None] ELSE @])

Retire(owner, b) ==
  LET gone == {tx \in Elements(b.queued) : tx.from = owner} IN
  PumpRx(
    [AnswerAll(b, gone, "not_sent") EXCEPT
       !.routes = [r \in Route |->
          IF IsOwned(b, r) /\ b.routes[r].owner = owner THEN Retired ELSE @[r]],
       !.queued = Without(@, gone),
       !.active = IF @ # None /\ @.from = owner THEN [@ EXCEPT !.from = None] ELSE @,
       !.receipts = {r \in @ : r.owner # owner}])

RoutesOf(b, ss) == {r \in Route : IsOwned(b, r) /\ b.routes[r].session \in ss}

\* The active transmission cannot be recalled: its caller hears that the
\* outcome is unknown, and nobody waits for it from then on.
\* Mutants: the caller stays recorded; the active frame is reported unsent.
ReleaseActiveOnce(b, ss) ==
  IF b.active = None \/ b.active.session \notin ss THEN b
  ELSE Answer(b, b.active, "transport_down")

ReleaseActiveUnsent(b, ss) ==
  IF b.active = None \/ b.active.session \notin ss THEN b
  ELSE [Answer(b, b.active, "not_sent") EXCEPT !.active.from = None]

ReleaseActive(b, ss) ==
  IF b.active = None \/ b.active.session \notin ss THEN b
  ELSE [Answer(b, b.active, "transport_down") EXCEPT !.active.from = None]

\* retire_session/2 for every session of a set.
RetireSessions(ss, b) ==
  LET gone == {tx \in Elements(b.queued) : tx.session \in ss} IN
  PumpRx(
    [ReleaseActive(AnswerAll(b, gone, "session_closed"), ss) EXCEPT
       !.sessions = [s \in Session |-> IF s \in ss THEN "closed" ELSE @[s]],
       !.routes = [r \in Route |-> IF r \in RoutesOf(b, ss) THEN Retired ELSE @[r]],
       !.queued = Without(@, gone),
       !.receipts = {r \in @ : r.route \notin RoutesOf(b, ss)}])

-----------------------------------------------------------------------------
(* finish_draining/1, which settle/1 applies after every handler.          *)

BusyWithReceipts(s, b) ==
  \/ \E r \in b.receipts : r.route \in RoutesOf(b, {s})
  \/ b.buffered \in RoutesOf(b, {s})

SessionBusy(s, b) ==
  \/ \E tx \in Transactions(b) : tx.session = s
  \/ \E r \in b.receipts : r.route \in RoutesOf(b, {s})
  \/ b.buffered \in RoutesOf(b, {s})

\* A session that is not busy has nothing that retiring the others could
\* touch, and they leave it idle: the order does not matter, and they are
\* retired together.
FinishDraining(b) ==
  LET done == {s \in Session : b.sessions[s] = "draining" /\ ~SessionBusy(s, b)}
  IN IF done = {} THEN b
     ELSE [RetireSessions(done, b) EXCEPT !.drained = @ \cup done]

\* Handler results other than {stop, ...} pass through settle/1.
\* Mutant: only drain requests look for finished sessions.
SettledLater(b) == broker' = b

Settled(b) == broker' = FinishDraining(b)

\* terminate/2: queued transmissions were not sent, the active one may have been.
Terminated(b) ==
  LET queued == AnswerAll(b, Elements(b.queued), "not_sent") IN
  broker' = [(IF b.active = None THEN queued
              ELSE Answer(queued, b.active, "transport_down"))
             EXCEPT !.status = "down", !.queued = <<>>, !.active = None]

-----------------------------------------------------------------------------
(* request/4: the two requests that change the broker.                     *)

\* Mutant: a route can be registered again after it was retired.
RegisterAgain(b, s, owner, route) ==
  IF ~IsOwned(b, route)
  THEN [b EXCEPT !.routes[route] = [owner |-> owner, session |-> s]]
  ELSE IF alive[b.routes[route].owner] THEN b
  ELSE Retire(b.routes[route].owner, b)

\* A request for a route whose recorded owner is dead notices it before the
\* DOWN message does.
Register(b, s, owner, route) ==
  IF b.routes[route] = Retired THEN b
  ELSE IF b.routes[route] = Free
       THEN [b EXCEPT !.routes[route] = [owner |-> owner, session |-> s]]
  ELSE IF alive[b.routes[route].owner] THEN b
  ELSE Retire(b.routes[route].owner, b)

CanAdmit(b, route) ==
  /\ Cardinality(Transactions(b)) < TxLimit
  /\ Cardinality({tx \in Transactions(b) : tx.route = route}) < TxRouteLimit

Admit(b, s, owner, route) ==
  IF ~CanAdmit(b, route) THEN b
  ELSE LET tx == [id |-> Len(b.admitted) + 1, session |-> s, from |-> owner, route |-> route]
       IN PumpTx([b EXCEPT !.queued = Append(@, tx), !.admitted = Append(@, tx)])

Perform(b, s, request) ==
  IF request.kind = "register" THEN Register(b, s, request.owner, request.route)
                               ELSE Admit(b, s, request.owner, request.route)

-----------------------------------------------------------------------------
(* The initial state: the broker has opened its lease and asked for the    *)
(* first frame; the workers are still opening their descriptors.           *)

Init ==
  /\ broker = [status |-> "up",
               sessions |-> [s \in Session |-> "unknown"],
               routes |-> [r \in Route |-> Free],
               queued |-> <<>>, active |-> None, ready |-> FALSE,
               receipts |-> {}, buffered |-> None, reading |-> TRUE,
               toWriter |-> None, toReader |-> TRUE,
               replies |-> [id \in TxIds |-> <<>>],
               drained |-> {},
               \* history: what was admitted, delivered, and acknowledged
               admitted |-> <<>>, delivered |-> <<>>, acked |-> {}]
  /\ late = {}
  /\ writer = [state |-> "opening", id |-> None]
  /\ reader = [state |-> "opening", route |-> None]
  /\ wire = <<>>
  /\ session = [s \in Session |-> "absent"]
  /\ channel = [s \in Session |-> <<>>]
  /\ alive = [o \in Owner |-> TRUE]

Up == broker.status = "up"
Environment == <<late, writer, reader, wire, session, channel, alive>>

-----------------------------------------------------------------------------
(* handle_call/3 and handle_cast/2.                                        *)

RoomFor(request) == request.kind = "send" => Len(broker.admitted) < MaxTx

DirectRequest(request) ==
  /\ Up /\ request.kind # "drain" /\ RoomFor(request) /\ alive[request.owner]
  /\ Settled(Perform(broker, None, request))
  /\ UNCHANGED Environment

\* The next request forwarded by a session: drain_session, or a call that is
\* refused unless the session is open.
SessionRequest(s) ==
  LET request == Head(channel[s]) IN
  /\ Up /\ channel[s] # <<>> /\ RoomFor(request)
  /\ channel' = [channel EXCEPT ![s] = Tail(@)]
  /\ \/ /\ request.kind = "drain"
        /\ Settled(IF broker.sessions[s] \in {"open", "draining"}
                   THEN [broker EXCEPT !.sessions[s] = "draining"] ELSE broker)
     \/ /\ request.kind # "drain" /\ broker.sessions[s] = "open"
        /\ Settled(Perform(broker, s, request))
     \/ /\ request.kind # "drain" /\ broker.sessions[s] # "open"
        /\ UNCHANGED broker
  /\ UNCHANGED <<late, writer, reader, wire, session, alive>>

\* Any owner may present any receipt, any number of times; what it sent before
\* it died is handled as well, before the DOWN message or a request of another
\* retires it or after that.
Ack(owner, id) ==
  /\ Up
  /\ LET owned == {r \in broker.receipts : r.id = id /\ r.owner = owner} IN
     Settled(IF owned = {} THEN broker
             ELSE PumpRx([broker EXCEPT !.receipts = @ \ owned, !.acked = @ \cup {id}]))
  /\ UNCHANGED Environment

-----------------------------------------------------------------------------
(* handle_info/2.                                                          *)

WriterReady ==
  /\ Up /\ writer.state = "ready"
  /\ writer' = [writer EXCEPT !.state = "idle"]
  /\ Settled(PumpTx([broker EXCEPT !.ready = TRUE]))
  /\ UNCHANGED <<late, reader, wire, session, channel, alive>>

\* Mutant: nothing starts the next write.
WriteDoneNoPump(b, tx) == Answer([b EXCEPT !.active = None], tx, "ok")

WriteDone(b, tx) == PumpTx(Answer([b EXCEPT !.active = None], tx, "ok"))

\* A write that completes after its deadline is a timeout, and like every
\* failure of a started write it closes the transport.
Written ==
  /\ Up /\ writer.state \in {"wrote", "failed"} /\ broker.active # None
  /\ broker.active.id = writer.id
  /\ writer' = [state |-> "idle", id |-> None]
  /\ LET done == [broker EXCEPT !.active = None]
         tx == broker.active
     IN \/ /\ writer.state = "wrote" /\ tx.id \notin late
           /\ Settled(WriteDone(broker, tx))
        \/ /\ writer.state = "wrote" /\ tx.id \in late
           /\ Terminated(Answer(done, tx, "write_timeout"))
        \/ /\ writer.state = "failed"
           /\ Terminated(Answer(done, tx, "write_failed"))
  /\ UNCHANGED <<late, reader, wire, session, channel, alive>>

TimerActive ==
  /\ Up /\ broker.active # None /\ broker.active.id \in late
  /\ Terminated(Answer([broker EXCEPT !.active = None], broker.active, "write_timeout"))
  /\ UNCHANGED Environment

TimerQueued(id) ==
  LET expired == {tx \in Elements(broker.queued) : tx.id = id} IN
  /\ Up /\ id \in late /\ expired # {}
  /\ Settled(PumpTx([AnswerAll(broker, expired, "not_sent") EXCEPT
                       !.queued = Without(@, expired)]))
  /\ UNCHANGED Environment

Received ==
  /\ Up /\ reader.state = "received" /\ broker.reading
  /\ reader' = [state |-> "waiting", route |-> None]
  /\ Settled(PumpRx([broker EXCEPT !.reading = FALSE, !.buffered = reader.route]))
  /\ UNCHANGED <<late, writer, wire, session, channel, alive>>

SessionDown(s) ==
  /\ Up /\ session[s] = "dead" /\ channel[s] = <<>>
  /\ broker.sessions[s] \in {"open", "draining"}
  /\ Settled(PumpTx(RetireSessions({s}, broker)))
  /\ UNCHANGED Environment

OwnerDown(owner) ==
  /\ Up /\ ~alive[owner]
  /\ \/ \E r \in Route : IsOwned(broker, r) /\ broker.routes[r].owner = owner
     \/ \E tx \in Transactions(broker) : tx.from = owner
  /\ Settled(PumpTx(Retire(owner, broker)))
  /\ UNCHANGED Environment

\* The EXIT of a linked worker, or stop/1.
BrokerStops ==
  /\ Up
  /\ Terminated(broker)
  /\ UNCHANGED Environment

-----------------------------------------------------------------------------
(* hls_fabric_io: the writer and the reader.                               *)

WriterOpens ==
  /\ writer.state = "opening"
  /\ writer' = [writer EXCEPT !.state = "ready"]
  /\ UNCHANGED <<broker, late, reader, wire, session, channel, alive>>

WriterTakes ==
  /\ writer.state = "idle" /\ broker.toWriter # None
  /\ writer' = [state |-> "writing", id |-> broker.toWriter]
  /\ broker' = [broker EXCEPT !.toWriter = None]
  /\ wire' = Append(wire, broker.toWriter)
  /\ UNCHANGED <<late, reader, session, channel, alive>>

WriterFinishes(result) ==
  /\ writer.state = "writing"
  /\ writer' = [writer EXCEPT !.state = result]
  /\ UNCHANGED <<broker, late, reader, wire, session, channel, alive>>

ReaderOpens ==
  /\ reader.state = "opening"
  /\ reader' = [reader EXCEPT !.state = "waiting"]
  /\ UNCHANGED <<broker, late, writer, wire, session, channel, alive>>

ReaderTakes ==
  /\ reader.state = "waiting" /\ broker.toReader
  /\ reader' = [reader EXCEPT !.state = "reading"]
  /\ broker' = [broker EXCEPT !.toReader = FALSE]
  /\ UNCHANGED <<late, writer, wire, session, channel, alive>>

\* The device sends a frame; it is quiet after MaxFrames deliveries.
FrameArrives(route) ==
  /\ Up /\ reader.state = "reading" /\ Len(broker.delivered) < MaxFrames
  /\ reader' = [state |-> "received", route |-> route]
  /\ UNCHANGED <<broker, late, writer, wire, session, channel, alive>>

-----------------------------------------------------------------------------
(* hls_fabric_session, the owners, and time.  Once the broker is down the    *)
(* environment has nothing more to do here.                                *)

OpenSession(s) ==
  /\ Up /\ session[s] = "absent"
  /\ session' = [session EXCEPT ![s] = "open"]
  /\ broker' = [broker EXCEPT !.sessions[s] = "open"]
  /\ UNCHANGED <<late, writer, reader, wire, channel, alive>>

SessionForwards(s, request) ==
  /\ Up /\ session[s] \in {"open", "draining"} /\ Len(channel[s]) < MaxChannel
  /\ request.kind # "drain" /\ alive[request.owner] /\ RoomFor(request)
  /\ channel' = [channel EXCEPT ![s] = Append(@, request)]
  /\ UNCHANGED <<broker, late, writer, reader, wire, session, alive>>

SessionDrains(s) ==
  /\ Up /\ session[s] = "open" /\ Len(channel[s]) < MaxChannel
  /\ session' = [session EXCEPT ![s] = "draining"]
  /\ channel' = [channel EXCEPT ![s] = Append(@, [kind |-> "drain"])]
  /\ UNCHANGED <<broker, late, writer, reader, wire, alive>>

\* session_drained: the caller of drain_session is answered ok.
SessionDrained(s) ==
  /\ session[s] = "draining" /\ s \in broker.drained
  /\ session' = [session EXCEPT ![s] = "drained"]
  /\ UNCHANGED <<broker, late, writer, reader, wire, channel, alive>>

SessionDies(s) ==
  /\ Up /\ session[s] \in {"open", "draining"}
  /\ session' = [session EXCEPT ![s] = "dead"]
  /\ UNCHANGED <<broker, late, writer, reader, wire, channel, alive>>

OwnerDies(owner) ==
  /\ Up /\ alive[owner]
  /\ alive' = [alive EXCEPT ![owner] = FALSE]
  /\ UNCHANGED <<broker, late, writer, reader, wire, session, channel>>

DeadlinePasses(id) ==
  /\ Up /\ id \notin late /\ \E tx \in Transactions(broker) : tx.id = id
  /\ late' = late \cup {id}
  /\ UNCHANGED <<broker, writer, reader, wire, session, channel, alive>>

-----------------------------------------------------------------------------

Call == [kind : {"send", "register"}, owner : Owner, route : Route]

Next ==
  \/ \E call \in Call : DirectRequest(call)
  \/ \E s \in Session : SessionRequest(s)
  \/ \E owner \in Owner, id \in FrameIds : Ack(owner, id)
  \/ WriterReady
  \/ Written
  \/ TimerActive
  \/ \E id \in TxIds : TimerQueued(id)
  \/ Received
  \/ \E s \in Session : SessionDown(s)
  \/ \E owner \in Owner : OwnerDown(owner)
  \/ BrokerStops
  \/ WriterOpens
  \/ WriterTakes
  \/ \E result \in {"wrote", "failed"} : WriterFinishes(result)
  \/ ReaderOpens
  \/ ReaderTakes
  \/ \E route \in Route : FrameArrives(route)
  \/ \E s \in Session : OpenSession(s)
  \/ \E s \in Session, call \in Call : SessionForwards(s, call)
  \/ \E s \in Session : SessionDrains(s)
  \/ \E s \in Session : SessionDrained(s)
  \/ \E s \in Session : SessionDies(s)
  \/ \E owner \in Owner : OwnerDies(owner)
  \/ \E id \in TxIds : DeadlinePasses(id)

Spec == Init /\ [][Next]_vars

\* The scheduler runs every process with a message; the device accepts what
\* is written; a live owner acknowledges what it was given.  Nothing makes
\* callers call, frames arrive, deadlines pass or processes die.
Fairness ==
  /\ WF_vars(WriterOpens \/ WriterTakes \/ (\E result \in {"wrote", "failed"} : WriterFinishes(result)))
  /\ WF_vars(ReaderOpens \/ ReaderTakes)
  /\ WF_vars(WriterReady \/ Written) /\ WF_vars(Received)
  /\ \A s \in Session :
       WF_vars(SessionRequest(s)) /\ WF_vars(SessionDown(s)) /\ WF_vars(SessionDrained(s))
  /\ \A owner \in Owner :
       /\ WF_vars(OwnerDown(owner))
       /\ \A id \in FrameIds : WF_vars(alive[owner] /\ Ack(owner, id))

FairSpec == Spec /\ Fairness

-----------------------------------------------------------------------------
(* Properties.                                                             *)

HandedOver(id) == id \in Elements(wire) \/ broker.toWriter = id

\* docs/host-transactions.md: accepted writes preserve admission order, and
\* no operation is retried.  Expiry, retirement and drains remove frames from
\* the queue, but never reorder or repeat what reaches the device.
AdmissionOrder == \A m, n \in 1 .. Len(wire) : m < n => wire[m] < wire[n]

\* hls_fabric.erl:9: {not_sent, _} guarantees that the frame never reached
\* the writer, and whoever hears anything else knows that it did.  And a caller
\* is answered once, whatever races: completion, deadline, death of the
\* session, drain, broker stop.
AnsweredTruly ==
  \A id \in TxIds :
    /\ Len(broker.replies[id]) <= 1
    /\ broker.replies[id] # <<>> =>
         (HandedOver(id) <=> Head(broker.replies[id]) \notin NotSent)

\* The device sees each accepted write once, in order, and every caller knows
\* whether it was its own.
WritesTruthful == AdmissionOrder /\ AnsweredTruly

\* Receive credits do not leak and are not overdrawn: a receipt that counts
\* against the windows belongs to the present owner of its route, who can return
\* it; and device and route have no more receipts than their windows allow.
CreditsCanReturn ==
  /\ \A r \in broker.receipts :
       IsOwned(broker, r.route) /\ broker.routes[r.route].owner = r.owner
  /\ Cardinality(broker.receipts) <= RxLimit
  /\ \A r \in Route : Cardinality(OnRoute(broker, r)) <= RxRouteLimit

\* drain_session/2 answers ok only after every frame the session was given was
\* acknowledged and every write it was admitted was done or had expired, but for
\* owners that died; and nothing of the session is left in the broker.
DrainIsClean ==
  \A s \in broker.drained :
    /\ \A n \in 1 .. Len(broker.delivered) :
         broker.delivered[n].session = s =>
           n \in broker.acked \/ ~alive[broker.delivered[n].owner]
    /\ \A n \in 1 .. Len(broker.admitted) :
         broker.admitted[n].session = s =>
           \/ ~alive[broker.admitted[n].from]
           \/ /\ broker.replies[n] # <<>>
              /\ Head(broker.replies[n]) \notin {"session_closed", "transport_down"}
    /\ ~SessionBusy(s, broker) /\ RoutesOf(broker, {s}) = {}

\* A route belongs to one owner and one session for the life of the broker,
\* and once retired it is never registered again.
RoutesNeverReused ==
  [][\A r \in Route : broker.routes[r] # Free =>
       broker'.routes[r] \in {broker.routes[r], Retired}]_vars

\* Every admitted write is answered, unless its caller died or the broker
\* stopped (and then the caller sees the broker's exit).  What is admitted or
\* answered stays so: this is `admitted leads to answered'.
EveryWriteSettles ==
  \A id \in TxIds :
    []<>(id <= Len(broker.admitted) =>
           broker.replies[id] # <<>> \/ ~Up \/ ~alive[broker.admitted[id].from])

\* A slow or dead route delays the shared receive stream but does not stop it.
StreamMoves == []<>(broker.buffered = None \/ ~Up)

\* A drain completes, if the device becomes quiet.
DrainCompletes == \A s \in Session : []<>(session[s] # "draining" \/ ~Up)
=============================================================================
