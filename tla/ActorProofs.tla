---------------------------- MODULE ActorProofs -----------------------------
(***************************************************************************)
(* Proofs about the two schedulers that answer callers from a reply book:  *)
(* the phase machine of Statem and the generic server of DeferredServer.   *)
(*                                                                         *)
(* Four invariants of Statem, each shown to hold of the initial states and *)
(* to be kept by every step: Queueing (the mailbox, the postponed inputs   *)
(* and the dispatches since the last phase entry), Continuing (the private *)
(* event), Collecting (the open collection or the completion that waits,   *)
(* against what was accepted) and Calling (the calls, the reply book and   *)
(* the answers).  The last two rest on the first: an input that is         *)
(* dispatched was not consumed before.  Serving is Calling of the generic  *)
(* server, with the lemmas about the book that Statem needs.               *)
(***************************************************************************)
EXTENDS Statem, OrderLemmas, FunctionTheorems, FiniteSetTheorems

-----------------------------------------------------------------------------
(* Queues of increasing numbers.                                           *)

\* The positions of a sequence that increases are at or before its values.
LEMMA PlacesClimb ==
  ASSUME NEW L \in Nat, NEW N \in Nat, NEW place \in [1 .. L -> 1 .. N],
         \A j, k \in 1 .. L : j < k => place[j] < place[k]
  PROVE  L <= N
<1> DEFINE S == {0} \cup {k \in 1 .. L : k <= place[k]}
<1>1. ASSUME NEW k \in 1 .. L, k - 1 \in S
      PROVE  k \in S
  <2>1. CASE k = 1
    <3>1. place[k] \in 1 .. N
      OBVIOUS
    <3> QED
      BY <2>1, <3>1
  <2>2. CASE k # 1
    <3>1. k - 1 \in 1 .. L /\ k - 1 < k /\ k - 1 # 0
      BY <2>2
    <3>2. k - 1 <= place[k - 1] /\ place[k - 1] < place[k] /\ place[k - 1] \in Nat /\ place[k] \in Nat
      BY <1>1, <3>1
    <3> QED
      BY <3>2
  <2> QED
    BY <2>1, <2>2
<1>2. 0 \in S /\ \A k \in 1 .. L : k - 1 \in S => k \in S
  BY <1>1
<1> HIDE DEF S
<1>3. \A k \in 0 .. L : k \in S
  BY ONLY L \in Nat, <1>2, Climb
<1>4. CASE L = 0
  BY <1>4
<1>5. CASE L # 0
  <2>1. L \in 1 .. L /\ L \in 0 .. L /\ place[L] \in 1 .. N
    BY <1>5
  <2>2. L <= place[L]
    BY <1>3, <1>5, <2>1 DEF S
  <2> QED
    BY <2>1, <2>2
<1> QED
  BY <1>4, <1>5

\* What is left of an increasing queue.
LEMMA WithoutIncreasing ==
  ASSUME NEW queue \in Seq(Nat), Increasing(queue), NEW gone
  PROVE  /\ Without(queue, gone) \in Seq(Nat) /\ Increasing(Without(queue, gone))
         /\ Elements(Without(queue, gone)) = Elements(queue) \ gone
         /\ Len(Without(queue, gone)) <= Len(queue)
<1>0. Without(queue, gone) \in Seq(Nat) /\ Left(Without(queue, gone), queue, gone)
  BY WithoutLeft
<1> DEFINE w == Without(queue, gone)
<1>1. w \in Seq(Nat)
  BY <1>0
<1>2. PICK place \in [1 .. Len(w) -> 1 .. Len(queue)] :
        /\ \A k \in 1 .. Len(w) : w[k] = queue[place[k]] /\ queue[place[k]] \notin gone
        /\ \A j, k \in 1 .. Len(w) : j < k => place[j] < place[k]
        /\ \A n \in 1 .. Len(queue) : queue[n] \notin gone => \E k \in 1 .. Len(w) : place[k] = n
  BY ONLY <1>0 DEF Left, Shows
<1> HIDE DEF w
<1>3. Increasing(w)
  BY <1>2 DEF Increasing
<1>4. Elements(w) = Elements(queue) \ gone
  <2>1. ASSUME NEW x \in Elements(w) PROVE x \in Elements(queue) \ gone
    <3>1. PICK k \in 1 .. Len(w) : x = w[k]
      BY DEF Elements
    <3>2. place[k] \in 1 .. Len(queue) /\ x = queue[place[k]] /\ x \notin gone
      BY <1>2, <3>1
    <3> QED
      BY <3>2 DEF Elements
  <2>2. ASSUME NEW x \in Elements(queue) \ gone PROVE x \in Elements(w)
    <3>1. PICK n \in 1 .. Len(queue) : x = queue[n]
      BY DEF Elements
    <3>2. PICK k \in 1 .. Len(w) : place[k] = n
      BY <1>2, <3>1
    <3>3. x = w[k]
      BY <1>2, <3>1, <3>2
    <3> QED
      BY <3>3 DEF Elements
  <2> QED
    BY <2>1, <2>2
<1>5. Len(w) <= Len(queue)
  <2>1. Len(w) \in Nat /\ Len(queue) \in Nat
    BY <1>1
  <2> QED
    BY ONLY <1>2, <2>1, PlacesClimb
<1> QED
  BY <1>1, <1>3, <1>4, <1>5 DEF w

\* A number above all others keeps the order at the end of a queue.
LEMMA AppendIncreasing ==
  ASSUME NEW queue \in Seq(Nat), Increasing(queue), NEW id \in Nat,
         \A n \in 1 .. Len(queue) : queue[n] < id
  PROVE  /\ Append(queue, id) \in Seq(Nat) /\ Increasing(Append(queue, id))
         /\ Elements(Append(queue, id)) = Elements(queue) \cup {id}
         /\ Len(Append(queue, id)) = Len(queue) + 1
         /\ \A n \in 1 .. Len(queue) : Append(queue, id)[n] = queue[n]
         /\ Append(queue, id)[Len(queue) + 1] = id
<1> DEFINE new == Append(queue, id)
<1>1. /\ new \in Seq(Nat) /\ Len(new) = Len(queue) + 1 /\ new[Len(queue) + 1] = id
      /\ \A n \in 1 .. Len(queue) : new[n] = queue[n]
      /\ Len(queue) \in Nat
  OBVIOUS
<1> HIDE DEF new
<1>2. \A n \in 1 .. Len(new) : n \in 1 .. Len(queue) \/ n = Len(queue) + 1
  BY <1>1
<1>3. Increasing(new)
  <2> SUFFICES ASSUME NEW m \in 1 .. Len(new), NEW n \in 1 .. Len(new), m < n
               PROVE  new[m] < new[n]
    BY DEF Increasing
  <2>1. m \in 1 .. Len(queue)
    BY <1>1
  <2> QED
    BY <1>1, <1>2, <2>1 DEF Increasing
<1>4. Elements(new) = Elements(queue) \cup {id}
  <2>1. \A n \in 1 .. Len(queue) : n \in 1 .. Len(new)
    BY <1>1
  <2>2. Len(queue) + 1 \in 1 .. Len(new)
    BY <1>1
  <2> QED
    BY <1>1, <1>2, <2>1, <2>2 DEF Elements
<1> QED
  BY <1>1, <1>3, <1>4 DEF new

-----------------------------------------------------------------------------
(* The queue.                                                              *)

Later(seq, set) == \A n \in 1 .. Len(seq), id \in set : seq[n] < id

\* The ids that were dispatched since the last entry are in order, below every
\* input that is still to be offered, and no more than there are inputs; what
\* is postponed is among them.
Dispatching ==
  /\ dispatched.epoch \in 0 .. epoch /\ dispatched.ids \in Seq(Nat)
  /\ \A n \in 1 .. Len(dispatched.ids) : n - 1 <= dispatched.ids[n] /\ dispatched.ids[n] < nextId
  /\ postponed \subseteq Waiting
  /\ postponed # {} => dispatched.epoch = epoch /\ postponed \subseteq Elements(dispatched.ids)
  /\ dispatched.epoch = epoch => Later(dispatched.ids, Waiting \ postponed)

Queueing ==
  /\ mailbox \in Seq(Nat) /\ nextId \in Nat /\ nextId <= MaxMessages /\ epoch \in Nat
  /\ InputsAccounted /\ Dispatching
  /\ status = "idle" => Waiting \subseteq postponed
  /\ status = "disconnected" => postponed = {}

\* What the end of a turn does to the postponed inputs.
Boundary(held) ==
  \/ postponed' = held /\ epoch' = epoch
  \/ postponed' = {} /\ epoch' = epoch + 1

LEMMA ConcludeBoundary ==
  ASSUME NEW to, NEW entry, NEW held, Conclude(to, entry, held)
  PROVE  Boundary(held) /\ status' \in {"busy", "stopped"}
BY DEF Conclude, EnterPhase, Stay, Boundary

LEMMA QueueingStart == Init => Queueing
<1> SUFFICES ASSUME Init PROVE Queueing
  OBVIOUS
<1>1. /\ mailbox = <<>> /\ nextId = 0 /\ postponed = {} /\ epoch = 0 /\ consumed = {}
      /\ dispatched.epoch = 0 /\ dispatched.ids = <<>> /\ status = "disconnected"
  BY DEF Init
<1>2. Waiting = {}
  BY <1>1 DEF Waiting
<1>3. InputsAccounted
  BY <1>1, <1>2, CapacityAssumption DEF InputsAccounted, Increasing
<1>4. Dispatching
  BY <1>1, <1>2 DEF Dispatching, Later
<1> QED
  BY <1>1, <1>2, <1>3, <1>4, CapacityAssumption DEF Queueing

\* A step that neither admits nor dispatches an input.
LEMMA QueueingRests ==
  ASSUME Queueing, UNCHANGED <<mailbox, nextId, dispatched, consumed>>, Boundary(postponed),
         status' = "idle" => Waiting \subseteq postponed', status' # "disconnected"
  PROVE  Queueing'
<1>1. Waiting' = Waiting /\ InputsAccounted'
  BY DEF Waiting, InputsAccounted, Queueing, Increasing
<1>2. Dispatching'
  <2>1. CASE postponed' = postponed /\ epoch' = epoch
    BY <1>1, <2>1 DEF Dispatching, Queueing, Later
  <2>2. CASE postponed' = {} /\ epoch' = epoch + 1
    <3>1. epoch \in Nat /\ dispatched.epoch \in 0 .. epoch /\ dispatched.epoch # epoch'
      BY <2>2 DEF Dispatching, Queueing
    <3> QED
      BY <1>1, <2>2, <3>1 DEF Dispatching, Queueing
  <2> QED
    BY <2>1, <2>2 DEF Boundary
<1>3. epoch' \in Nat
  BY DEF Boundary, Queueing
<1> QED
  BY <1>1, <1>2, <1>3 DEF Queueing

\* An input arrives: its id is the greatest.
LEMMA QueueingArrives ==
  ASSUME Queueing, NEW kind, Arrive(kind)
  PROVE  Queueing'
<1>1. CASE Stop
  BY <1>1, QueueingRests DEF Stop, history, Boundary
<1>2. CASE Enqueued(kind, mailbox) /\ Len(mailbox) # Capacity
  <2>1. /\ mailbox' = Append(mailbox, nextId) /\ nextId' = nextId + 1 /\ nextId < MaxMessages
        /\ status' = (IF status = "idle" THEN "busy" ELSE status)
        /\ UNCHANGED <<postponed, epoch, dispatched, consumed>>
    BY <1>2 DEF Enqueued, Arrive
  <2>2. /\ mailbox \in Seq(Nat) /\ nextId \in Nat /\ Increasing(mailbox) /\ Len(mailbox) <= Capacity
        /\ Waiting \cup consumed = 0 .. nextId - 1 /\ Waiting \cap consumed = {}
        /\ Increasing(dispatched.ids) /\ Capacity \in Nat /\ MaxMessages \in Nat /\ epoch \in Nat
    BY CapacityAssumption DEF Queueing, InputsAccounted
  <2>3. Waiting = Elements(mailbox) /\ Waiting' = Elements(mailbox')
    BY DEF Waiting, Elements
  <2>4. \A n \in 1 .. Len(mailbox) : mailbox[n] < nextId
    <3>1. \A n \in 1 .. Len(mailbox) : mailbox[n] \in 0 .. nextId - 1
      BY <2>2, <2>3 DEF Elements
    <3> QED
      BY <2>2, <3>1
  <2> DEFINE new == Append(mailbox, nextId)
  <2>5. /\ new \in Seq(Nat) /\ Increasing(new) /\ Elements(new) = Elements(mailbox) \cup {nextId}
        /\ Len(new) = Len(mailbox) + 1
    BY <2>2, <2>4, AppendIncreasing
  <2> HIDE DEF new
  <2>6. mailbox' = new /\ Waiting' = Waiting \cup {nextId} /\ nextId \notin Waiting \cup consumed
    BY <2>1, <2>2, <2>3, <2>5 DEF new
  <2>7. (Waiting \cup consumed)' = 0 .. nextId' - 1
    <3>1. 0 .. nextId' - 1 = (0 .. nextId - 1) \cup {nextId}
      BY <2>1, <2>2
    <3> QED
      BY ONLY <2>1, <2>2, <2>6, <3>1
  <2>8. Len(mailbox') <= Capacity
    <3>1. Len(mailbox) \in Nat
      BY <2>2
    <3> QED
      BY <1>2, <2>2, <2>5, <2>6, <3>1
  <2>9. InputsAccounted'
    <3>1. Increasing(mailbox')
      BY <2>5, <2>6
    <3>2. Increasing(dispatched'.ids)
      BY <2>1, <2>2
    <3>3. (Waiting \cap consumed)' = {}
      BY ONLY <2>1, <2>2, <2>6
    <3> QED
      BY <2>7, <2>8, <3>1, <3>2, <3>3 DEF InputsAccounted, Increasing
  <2>10. Dispatching'
    <3>1. Dispatching /\ \A n \in 1 .. Len(dispatched.ids) : dispatched.ids[n] \in Nat
      BY DEF Queueing, Dispatching
    <3>2. \A n \in 1 .. Len(dispatched.ids) : n - 1 <= dispatched.ids[n] /\ dispatched.ids[n] < nextId
      BY <3>1 DEF Dispatching
    <3>3. dispatched.epoch = epoch => Later(dispatched.ids, Waiting' \ postponed)
      <4>1. dispatched.epoch = epoch =>
              \A n \in 1 .. Len(dispatched.ids), id \in Waiting \ postponed : dispatched.ids[n] < id
        BY <3>1 DEF Dispatching, Later
      <4>2. Waiting' \ postponed \subseteq (Waiting \ postponed) \cup {nextId}
        BY <2>6
      <4> QED
        BY <3>2, <4>1, <4>2 DEF Later
    <3>4. \A n \in 1 .. Len(dispatched.ids) : dispatched.ids[n] < nextId + 1
      BY <2>2, <3>1, <3>2
    <3>5. /\ dispatched' = dispatched /\ epoch' = epoch /\ nextId' = nextId + 1 /\ postponed' = postponed
      BY <2>1
    <3>6. postponed \subseteq Waiting'
      BY <2>6, <3>1 DEF Dispatching
    <3> QED
      BY <3>1, <3>2, <3>3, <3>4, <3>5, <3>6 DEF Dispatching
  <2>11. mailbox' \in Seq(Nat) /\ nextId' \in Nat /\ nextId' <= MaxMessages /\ epoch' \in Nat
    BY <2>1, <2>2, <2>5, <2>6
  <2>12. status' # "idle" /\ (status' = "disconnected" => status = "disconnected")
    BY <2>1
  <2> QED
    BY <2>1, <2>9, <2>10, <2>11, <2>12 DEF Queueing
<1> QED
  BY <1>1, <1>2 DEF Arrive, Enqueue

\* The oldest input that was not postponed.
LEMMA OldestEligible ==
  ASSUME Queueing, NEW id, Dispatches(id)
  PROVE  /\ id \in Waiting \ postponed /\ id \in Nat /\ id < nextId
         /\ \A other \in Waiting \ postponed : id <= other
<1> DEFINE w == Without(mailbox, postponed)
<1>1. w \in Seq(Nat) /\ Increasing(w) /\ Elements(w) = Elements(mailbox) \ postponed
  <2>1. mailbox \in Seq(Nat) /\ Increasing(mailbox)
    BY DEF Queueing, InputsAccounted
  <2> QED
    BY ONLY <2>1, WithoutIncreasing
<1>2. w # <<>> /\ id = Head(w)
  BY DEF Dispatches, Eligible
<1> HIDE DEF w
<1>3. Elements(w) = Waiting \ postponed
  BY <1>1 DEF Waiting, Elements
<1>4. 1 \in 1 .. Len(w) /\ id = w[1] /\ id \in Nat
  BY <1>1, <1>2
<1>5. id \in Elements(w)
  BY <1>4 DEF Elements
<1>6. ASSUME NEW other \in Elements(w) PROVE id <= other
  <2>1. PICK n \in 1 .. Len(w) : other = w[n]
    BY DEF Elements
  <2>2. n = 1 \/ 1 < n
    BY <1>1
  <2>3. other \in Nat
    BY <1>1, <2>1
  <2> QED
    BY <1>1, <1>4, <2>1, <2>2, <2>3 DEF Increasing
<1>7. id \in 0 .. nextId - 1 /\ nextId \in Nat
  BY <1>3, <1>5 DEF Queueing, InputsAccounted
<1>8. id \in Waiting \ postponed
  BY ONLY <1>3, <1>5
<1>9. \A other \in Waiting \ postponed : id <= other
  BY ONLY <1>3, <1>6
<1> QED
  BY ONLY <1>4, <1>7, <1>8, <1>9

\* A dispatched input leaves the mailbox, or stays and is postponed.
Takes(id, held) ==
  \/ ConsumeMessage(id) /\ held = postponed
  \/ KeepMessage /\ held = postponed \cup {id}

LEMMA DispatchExtends ==
  ASSUME Queueing, NEW id, Dispatches(id), Dispatched(id)
  PROVE  /\ dispatched'.epoch = epoch /\ dispatched'.ids \in Seq(Nat)
         /\ Increasing(dispatched'.ids)
         /\ postponed \cup {id} \subseteq Elements(dispatched'.ids)
         /\ \A n \in 1 .. Len(dispatched'.ids) :
              /\ n - 1 <= dispatched'.ids[n] /\ dispatched'.ids[n] < nextId
              /\ dispatched'.ids[n] <= id
<1> DEFINE ids == dispatched.ids  same == dispatched.epoch = epoch
<1>1. /\ id \in Waiting \ postponed /\ id \in Nat /\ id < nextId
      /\ \A other \in Waiting \ postponed : id <= other
  BY OldestEligible
<1>2. /\ ids \in Seq(Nat) /\ Increasing(ids) /\ Len(ids) \in Nat /\ nextId \in Nat
      /\ \A n \in 1 .. Len(ids) : n - 1 <= ids[n] /\ ids[n] < nextId
      /\ postponed # {} => same /\ postponed \subseteq Elements(ids)
      /\ same => Later(ids, Waiting \ postponed)
      /\ nextId <= MaxMessages /\ MaxMessages \in Nat
  BY CapacityAssumption DEF Queueing, InputsAccounted, Dispatching
<1>3. dispatched'.epoch = epoch
  BY DEF Dispatched
<1>4. Len(ids) <= MaxMessages
  <2>1. CASE Len(ids) = 0
    BY <1>2, <2>1
  <2>2. CASE Len(ids) # 0
    <3>1. Len(ids) \in 1 .. Len(ids) /\ ids[Len(ids)] \in Nat
      BY <1>2, <2>2
    <3> QED
      BY <1>2, <3>1
  <2> QED
    BY <2>1, <2>2
<1>5. dispatched'.ids = IF same THEN Append(ids, id) ELSE <<id>>
  <2>1. ~(Len(ids) > MaxMessages)
    BY <1>2, <1>4
  <2> QED
    BY <2>1 DEF Dispatched
<1> HIDE DEF ids, same
<1>6. CASE same
  <2> DEFINE new == Append(ids, id)
  <2>1. \A n \in 1 .. Len(ids) : ids[n] < id
    BY <1>1, <1>2, <1>6 DEF Later
  <2>2. /\ new \in Seq(Nat) /\ Increasing(new) /\ Elements(new) = Elements(ids) \cup {id}
        /\ Len(new) = Len(ids) + 1 /\ new[Len(ids) + 1] = id
        /\ \A n \in 1 .. Len(ids) : new[n] = ids[n]
    BY <1>1, <1>2, <2>1, AppendIncreasing
  <2> HIDE DEF new
  <2>3. Len(ids) <= id
    <3>1. CASE Len(ids) = 0
      BY <1>1, <3>1
    <3>2. CASE Len(ids) # 0
      <4>1. Len(ids) \in 1 .. Len(ids) /\ ids[Len(ids)] \in Nat
        BY <1>2, <3>2
      <4> QED
        BY <1>1, <1>2, <2>1, <4>1
    <3> QED
      BY <3>1, <3>2
  <2>4. ASSUME NEW n \in 1 .. Len(new)
        PROVE  n - 1 <= new[n] /\ new[n] < nextId /\ new[n] <= id
    <3>1. CASE n \in 1 .. Len(ids)
      <4>1. ids[n] \in Nat
        BY <1>2, <3>1
      <4> QED
        <5>1. new[n] = ids[n]
          BY <2>2, <3>1
        <5> QED
          BY <1>1, <1>2, <2>1, <3>1, <4>1, <5>1
    <3>2. CASE n = Len(ids) + 1
      BY <1>1, <1>2, <2>2, <2>3, <3>2
    <3> QED
      BY <1>2, <2>2, <3>1, <3>2
  <2>5. dispatched'.ids = new
    BY <1>5, <1>6 DEF new
  <2>6. postponed \cup {id} \subseteq Elements(new)
    BY <1>2, <2>2
  <2> QED
    BY <1>3, <2>2, <2>4, <2>5, <2>6
<1>7. CASE ~same
  <2> DEFINE new == <<id>>
  <2>1. new \in Seq(Nat) /\ Len(new) = 1 /\ new[1] = id
    BY <1>1
  <2>2. dispatched'.ids = new /\ postponed = {}
    BY <1>2, <1>5, <1>7
  <2> HIDE DEF new
  <2>3. \A n \in 1 .. Len(new) : n = 1
    BY <2>1
  <2>4. Increasing(new) /\ id \in Elements(new)
    <3>1. 1 \in 1 .. Len(new)
      BY <2>1
    <3> QED
      BY <2>1, <2>3, <3>1 DEF Increasing, Elements
  <2>5. \A n \in 1 .. Len(new) : n - 1 <= new[n] /\ new[n] < nextId /\ new[n] <= id
    BY <1>1, <2>1, <2>3
  <2> QED
    BY <1>3, <2>1, <2>2, <2>4, <2>5
<1> QED
  BY <1>6, <1>7

LEMMA TakesInput ==
  ASSUME Queueing, NEW id, NEW held, Dispatches(id), Takes(id, held)
  PROVE  /\ mailbox' \in Seq(Nat) /\ Increasing(mailbox') /\ Len(mailbox') <= Capacity
         /\ nextId' = nextId /\ (Waiting \cup consumed)' = Waiting \cup consumed
         /\ (Waiting \cap consumed)' = {} /\ held \subseteq Waiting'
         /\ Waiting' \ held = (Waiting \ postponed) \ {id}
         /\ held \subseteq postponed \cup {id}
<1>1. /\ mailbox \in Seq(Nat) /\ Increasing(mailbox) /\ Len(mailbox) <= Capacity /\ Capacity \in Nat
      /\ Waiting \cap consumed = {} /\ postponed \subseteq Waiting /\ id \in Waiting \ postponed
  BY OldestEligible, CapacityAssumption DEF Queueing, InputsAccounted, Dispatching
<1>2. Waiting = Elements(mailbox) /\ Waiting' = Elements(mailbox')
  BY DEF Waiting, Elements
<1>3. CASE ConsumeMessage(id) /\ held = postponed
  <2> DEFINE w == Without(mailbox, {id})
  <2>1. w \in Seq(Nat) /\ Increasing(w) /\ Elements(w) = Elements(mailbox) \ {id} /\ Len(w) <= Len(mailbox)
    BY <1>1, WithoutIncreasing
  <2>2. mailbox' = w /\ consumed' = consumed \cup {id} /\ nextId' = nextId
    BY <1>3 DEF ConsumeMessage
  <2> HIDE DEF w
  <2>3. Waiting' = Waiting \ {id}
    BY <1>2, <2>1, <2>2
  <2>4. Len(w) \in Nat /\ Len(mailbox) \in Nat
    BY <1>1, <2>1
  <2>5. Len(w) <= Capacity
    BY ONLY <1>1, <2>1, <2>4
  <2>6. (Waiting \cup consumed)' = Waiting \cup consumed /\ (Waiting \cap consumed)' = {}
    BY <1>1, <2>2, <2>3
  <2> QED
    BY <1>1, <1>3, <2>1, <2>2, <2>3, <2>5, <2>6
<1>4. CASE KeepMessage /\ held = postponed \cup {id}
  <2>1. mailbox' = mailbox /\ consumed' = consumed /\ nextId' = nextId
    BY <1>4 DEF KeepMessage
  <2>2. Waiting' = Waiting
    BY <1>2, <2>1
  <2> QED
    BY <1>1, <1>4, <2>1, <2>2
<1> QED
  BY <1>3, <1>4 DEF Takes

LEMMA QueueingDispatches ==
  ASSUME Queueing, NEW id, NEW held, Dispatches(id), Dispatched(id), Takes(id, held),
         Boundary(held), status' \in {"busy", "stopped"}
  PROVE  Queueing'
<1>1. /\ mailbox' \in Seq(Nat) /\ Increasing(mailbox') /\ Len(mailbox') <= Capacity
      /\ nextId' = nextId /\ (Waiting \cup consumed)' = Waiting \cup consumed
      /\ (Waiting \cap consumed)' = {} /\ held \subseteq Waiting'
      /\ Waiting' \ held = (Waiting \ postponed) \ {id}
      /\ held \subseteq postponed \cup {id}
  BY TakesInput
<1>2. /\ dispatched'.epoch = epoch /\ dispatched'.ids \in Seq(Nat)
      /\ Increasing(dispatched'.ids)
      /\ postponed \cup {id} \subseteq Elements(dispatched'.ids)
      /\ \A n \in 1 .. Len(dispatched'.ids) :
           /\ n - 1 <= dispatched'.ids[n] /\ dispatched'.ids[n] < nextId
           /\ dispatched'.ids[n] <= id
  BY DispatchExtends
<1>3. /\ nextId \in Nat /\ nextId <= MaxMessages /\ epoch \in Nat /\ Waiting \cup consumed = 0 .. nextId - 1
  BY DEF Queueing, InputsAccounted
<1>4. InputsAccounted'
  <2>1. (Waiting \cup consumed)' = 0 .. nextId' - 1
    BY ONLY <1>1, <1>3
  <2> QED
    BY <1>1, <1>2, <2>1 DEF InputsAccounted, Increasing
<1>5. Dispatching'
  <2> DEFINE ids == dispatched'.ids
  <2>1. CASE postponed' = held /\ epoch' = epoch
    <3>1. postponed' \subseteq Elements(ids) /\ dispatched'.epoch = epoch' /\ dispatched'.epoch \in 0 .. epoch'
      BY <1>1, <1>2, <1>3, <2>1
    <3>2. \A n \in 1 .. Len(ids), x \in Waiting' \ held : ids[n] < x
      <4>1. \A x \in Waiting' \ held : id < x /\ x \in Nat /\ id \in Nat
        <5>1. /\ id \in Nat /\ \A other \in Waiting \ postponed : id <= other
          BY OldestEligible
        <5>2. \A x \in Waiting : x \in Nat
          BY <1>3
        <5> QED
          BY <1>1, <5>1, <5>2
      <4>2. \A n \in 1 .. Len(ids) : ids[n] \in Nat /\ ids[n] <= id
        BY <1>2
      <4> QED
        BY <4>1, <4>2
    <3> HIDE DEF ids
    <3>3. Later(ids, Waiting' \ postponed')
      BY <2>1, <3>2 DEF Later
    <3> QED
      BY <1>1, <1>2, <2>1, <3>1, <3>3 DEF Dispatching, ids, Later, Elements, Waiting
  <2>2. CASE postponed' = {} /\ epoch' = epoch + 1
    <3>1. dispatched'.epoch # epoch' /\ dispatched'.epoch \in 0 .. epoch'
      BY <1>2, <1>3, <2>2
    <3> QED
      BY <1>1, <1>2, <2>2, <3>1 DEF Dispatching
  <2> QED
    BY <2>1, <2>2 DEF Boundary
<1>6. nextId' \in Nat /\ nextId' <= MaxMessages /\ epoch' \in Nat
  BY <1>1, <1>3 DEF Boundary
<1>7. status' # "idle" /\ status' # "disconnected"
  OBVIOUS
<1> QED
  BY <1>1, <1>4, <1>5, <1>6, <1>7 DEF Queueing

LEMMA QueueingStops ==
  ASSUME Queueing, Stop
  PROVE  Queueing'
BY QueueingRests DEF Stop, history, Boundary

\* A contribution is taken, does not match, or is refused.
LEMMA AcceptOutcome ==
  ASSUME NEW r, NEW value, NEW raises
  PROVE  AcceptValue(r, value, raises).result \in {"error", "pending", "complete"}
BY DEF AcceptValue, Error, Pending, Completed

LEMMA OfferOutcome ==
  ASSUME NEW offer \in Offers, NEW id
  PROVE  OfferCollection(offer, id).result \in {"error", "mismatch", "pending", "complete"}
<1>1. offer.kind \in {"gather", "member", "count"}
  BY OfferAssumption
<1>2. Mismatch.result = "mismatch" /\ Error.result = "error"
  BY DEF Mismatch, Error
<1>3. Offer(offer.key, offer.member, id, gather).result \in {"error", "mismatch", "pending", "complete"}
  BY DEF Offer, Mismatch, Error, Pending, Completed
<1>4. ContributeMember(offer.key, offer.member, id, offer.raises, reduction).result
        \in {"error", "mismatch", "pending", "complete"}
  BY <1>2, AcceptOutcome DEF ContributeMember
<1>5. ContributeCount(offer.key, id, offer.raises, reduction).result
        \in {"error", "mismatch", "pending", "complete"}
  BY <1>2, AcceptOutcome DEF ContributeCount
<1> QED
  BY <1>1, <1>2, <1>3, <1>4, <1>5 DEF OfferCollection

\* The three ends of a contribution's turn.
LEMMA ContributionEnds ==
  ASSUME NEW id, NEW offer \in Offers, ContributionTurn(id, offer)
  PROVE  \/ Stop
         \/ /\ Dispatched(id) /\ KeepMessage /\ postponed' = postponed \cup {id}
            /\ NoRequest /\ UNCHANGED <<status, epoch>>
         \/ /\ Dispatched(id) /\ ConsumeMessage(id)
            /\ NoRequest /\ UNCHANGED <<postponed, status, epoch>>
<1> DEFINE answer == OfferCollection(offer, id)
<1>1. answer.result \in {"error", "mismatch", "pending", "complete"}
  BY OfferOutcome
<1> HIDE DEF answer
<1>2. CASE answer.result = "error"
  BY <1>2 DEF ContributionTurn, answer
<1>3. CASE answer.result = "mismatch"
  BY <1>3 DEF ContributionTurn, answer
<1>4. CASE answer.result \in {"pending", "complete"}
  BY <1>4 DEF ContributionTurn, answer
<1> QED
  BY <1>1, <1>2, <1>3, <1>4

LEMMA QueueingTurns ==
  ASSUME Queueing, Turn
  PROVE  Queueing'
<1>1. ASSUME NEW to, NEW more, NEW entry, CompletionTurn(to, more, entry)
      PROVE  Queueing'
  <2>1. CASE Stop
    BY <2>1, QueueingStops
  <2>2. CASE Conclude(to, entry, postponed) /\ NoInput
    BY <2>2, ConcludeBoundary, QueueingRests DEF NoInput
  <2> QED
    BY <1>1, <2>1, <2>2 DEF CompletionTurn
<1>2. ASSUME NEW to, NEW more, NEW reply, NEW entry, ContinuationTurn(to, more, reply, entry)
      PROVE  Queueing'
  <2>1. CASE Stop
    BY <2>1, QueueingStops
  <2>2. CASE Conclude(to, entry, postponed) /\ NoInput
    BY <2>2, ConcludeBoundary, QueueingRests DEF NoInput
  <2> QED
    BY <1>2, <2>1, <2>2 DEF ContinuationTurn
<1>3. ASSUME NEW id, NEW to, NEW entry, PostponeTurn(id, to, entry)
      PROVE  Queueing'
  <2>1. CASE Stop
    BY <2>1, QueueingStops
  <2>2. CASE Dispatched(id) /\ KeepMessage /\ Conclude(to, entry, postponed \cup {id})
    <3>1. Boundary(postponed \cup {id}) /\ status' \in {"busy", "stopped"}
      BY <2>2, ConcludeBoundary
    <3>2. Dispatches(id) /\ Takes(id, postponed \cup {id})
      BY <1>3, <2>2 DEF PostponeTurn, Takes
    <3> QED
      BY <2>2, <3>1, <3>2, QueueingDispatches
  <2> QED
    BY <1>3, <2>1, <2>2 DEF PostponeTurn
<1>4. ASSUME NEW id, NEW to, NEW more, NEW reply, NEW entry, ConsumeTurn(id, to, more, reply, entry)
      PROVE  Queueing'
  <2>1. CASE Stop
    BY <2>1, QueueingStops
  <2>2. CASE Dispatched(id) /\ ConsumeMessage(id) /\ Conclude(to, entry, postponed)
    <3>1. Boundary(postponed) /\ status' \in {"busy", "stopped"}
      BY <2>2, ConcludeBoundary
    <3>2. Dispatches(id) /\ Takes(id, postponed)
      BY <1>4, <2>2 DEF ConsumeTurn, Takes
    <3> QED
      BY <2>2, <3>1, <3>2, QueueingDispatches
  <2> QED
    BY <1>4, <2>1, <2>2 DEF ConsumeTurn
<1>5. ASSUME NEW id, RefuseCall(id)
      PROVE  Queueing'
  <2>1. Dispatches(id) /\ Dispatched(id) /\ ConsumeMessage(id) /\ Conclude(phase, Nothing, postponed)
    BY <1>5 DEF RefuseCall
  <2>2. Boundary(postponed) /\ status' \in {"busy", "stopped"}
    BY <2>1, ConcludeBoundary
  <2>3. Takes(id, postponed)
    BY <2>1 DEF Takes
  <2> QED
    BY <2>1, <2>2, <2>3, QueueingDispatches
<1>6. ASSUME NEW id, NEW offer \in Offers, ContributionTurn(id, offer)
      PROVE  Queueing'
  <2>1. Dispatches(id) /\ status = "busy"
    BY <1>6 DEF ContributionTurn, Dispatches, Running
  <2>2. CASE Stop
    BY <2>2, QueueingStops
  <2>3. CASE /\ Dispatched(id) /\ KeepMessage /\ postponed' = postponed \cup {id}
             /\ UNCHANGED <<status, epoch>>
    <3>1. Takes(id, postponed \cup {id}) /\ Boundary(postponed \cup {id}) /\ status' = "busy"
      BY <2>1, <2>3 DEF Takes, Boundary
    <3> QED
      BY <2>1, <2>3, <3>1, QueueingDispatches
  <2>4. CASE Dispatched(id) /\ ConsumeMessage(id) /\ UNCHANGED <<postponed, status, epoch>>
    <3>1. Takes(id, postponed) /\ Boundary(postponed) /\ status' = "busy"
      BY <2>1, <2>4 DEF Takes, Boundary
    <3> QED
      BY <2>1, <2>4, <3>1, QueueingDispatches
  <2> QED
    BY <1>6, <2>2, <2>3, <2>4, ContributionEnds
<1>7. CASE Settle
  <2>1. /\ Eligible = <<>> /\ UNCHANGED <<mailbox, nextId, dispatched, consumed>> /\ Boundary(postponed)
        /\ postponed' = postponed /\ status' = "idle"
    BY <1>7 DEF Settle, history, Boundary
  <2>2. Waiting \subseteq postponed
    <3>1. mailbox \in Seq(Nat) /\ Increasing(mailbox)
      BY DEF Queueing, InputsAccounted
    <3>2. Elements(Without(mailbox, postponed)) = Elements(mailbox) \ postponed
      BY ONLY <3>1, WithoutIncreasing
    <3>3. Elements(<<>>) = {}
      BY DEF Elements
    <3> QED
      BY <2>1, <3>2, <3>3 DEF Eligible, Waiting, Elements
  <2> QED
    BY <2>1, <2>2, QueueingRests
<1>8. ASSUME NEW id, ExhaustHandles(id)
      PROVE  Queueing'
  BY <1>8, QueueingStops DEF ExhaustHandles
<1>9. CASE CallbackFails
  BY <1>9, QueueingStops DEF CallbackFails
<1> QED
  BY <1>1, <1>2, <1>3, <1>4, <1>5, <1>6, <1>7, <1>8, <1>9 DEF Turn

\* The queue and the dispatches are consistent in every state.
LEMMA QueueingKept == Queueing /\ [Next]_vars => Queueing'
<1> SUFFICES ASSUME Queueing, [Next]_vars PROVE Queueing'
  OBVIOUS
<1>1. ASSUME NEW kind, Arrive(kind) PROVE Queueing'
  BY <1>1, QueueingArrives
<1>2. ASSUME NEW entry, Connect(entry) PROVE Queueing'
  <2>1. /\ postponed = {} /\ epoch' = epoch + 1 /\ status' \in {"busy", "stopped"}
        /\ UNCHANGED <<mailbox, nextId, postponed, dispatched, consumed>>
    BY <1>2 DEF Connect, EnterPhase, Queueing
  <2>2. Boundary(postponed)
    BY <2>1 DEF Boundary
  <2> QED
    BY <2>1, <2>2, QueueingRests
<1>3. CASE Turn
  BY <1>3, QueueingTurns
<1>4. CASE UNCHANGED vars
  BY <1>4 DEF vars, runtime, history, Queueing, InputsAccounted, Dispatching, Later, Waiting, Increasing
<1> QED
  BY <1>1, <1>2, <1>3, <1>4 DEF Next

LEMMA QueueingHolds == Spec => []Queueing
<1> QED
  BY QueueingStart, QueueingKept, PTL DEF Spec

\* No input is lost or repeated, the mailbox stays within its capacity and in
\* arrival order, and inputs are dispatched in that order and none twice
\* between two phase entries (enqueue/2, consume_message/3,
\* process_messages/1).
THEOREM InputsAreAccounted == Spec => []InputsAccounted
<1>1. Queueing => InputsAccounted
  BY DEF Queueing
<1> QED
  BY <1>1, QueueingHolds, PTL

\* Whenever the handler has returned, every waiting input was offered to the
\* phase since its last entry (process_messages/1, finish_repeat/2).
THEOREM NothingIsStranded == Spec => []NothingStranded
<1>1. Queueing => NothingStranded
  BY DEF Queueing, Dispatching, NothingStranded, Elements
<1> QED
  BY <1>1, QueueingHolds, PTL

-----------------------------------------------------------------------------
(* Private events.                                                         *)

\* pending_continuation/2 stops the process before a second continuation can
\* be asked for.
Continuing == continuation \in BOOLEAN /\ ContinuationKept

LEMMA ContinuingKept == Continuing /\ [Next]_vars => Continuing'
<1> SUFFICES ASSUME Continuing, [Next]_vars PROVE Continuing'
  OBVIOUS
<1> USE DEF Continuing, ContinuationKept, Lives
<1>1. CASE Stop
  BY <1>1 DEF Stop, history
<1>2. CASE Running /\ UNCHANGED <<continuation, requested>>
  BY <1>2 DEF Running
<1>3. ASSUME NEW kind, Arrive(kind) PROVE Continuing'
  BY <1>1, <1>3 DEF Arrive, Enqueue, Enqueued
<1>4. ASSUME NEW entry, Connect(entry) PROVE Continuing'
  BY <1>4 DEF Connect
<1>5. ASSUME NEW to, NEW more \in BOOLEAN, NEW entry, CompletionTurn(to, more, entry)
      PROVE  Continuing'
  <2>1. \/ Stop
        \/ /\ ~(more /\ continuation) /\ continuation' = (more \/ continuation)
           /\ requested' = requested + (IF more THEN 1 ELSE 0)
    BY <1>5 DEF CompletionTurn, Requests, PendingContinuation
  <2>2. status = "busy"
    BY <1>5 DEF CompletionTurn, Running
  <2> QED
    BY <1>1, <2>1, <2>2
<1>6. ASSUME NEW to, NEW more \in BOOLEAN, NEW reply, NEW entry,
             ContinuationTurn(to, more, reply, entry)
      PROVE  Continuing'
  <2>1. Stop \/ (continuation' = more /\ requested' = requested - 1 + (IF more THEN 1 ELSE 0))
    BY <1>6 DEF ContinuationTurn
  <2>2. status = "busy" /\ continuation
    BY <1>6 DEF ContinuationTurn, Running
  <2> QED
    BY <1>1, <2>1, <2>2
<1>7. ASSUME NEW id, NEW to, NEW more \in BOOLEAN, NEW reply, NEW entry,
             ConsumeTurn(id, to, more, reply, entry)
      PROVE  Continuing'
  <2>1. Stop \/ (continuation' = more /\ requested' = requested + (IF more THEN 1 ELSE 0))
    BY <1>7 DEF ConsumeTurn, Requests
  <2>2. status = "busy" /\ ~continuation
    BY <1>7 DEF ConsumeTurn, Dispatches, Running
  <2> QED
    BY <1>1, <2>1, <2>2
<1>8. ASSUME NEW id, NEW to, NEW entry, PostponeTurn(id, to, entry) PROVE Continuing'
  BY <1>1, <1>2, <1>8 DEF PostponeTurn, Dispatches, NoRequest
<1>9. ASSUME NEW id, RefuseCall(id) \/ ExhaustHandles(id) PROVE Continuing'
  BY <1>1, <1>2, <1>9 DEF RefuseCall, ExhaustHandles, Dispatches
<1>10. ASSUME NEW id, NEW offer \in Offers, ContributionTurn(id, offer) PROVE Continuing'
  <2>1. Stop \/ UNCHANGED <<continuation, requested>>
    BY <1>10, ContributionEnds DEF NoRequest
  <2>2. Running
    BY <1>10 DEF ContributionTurn, Dispatches
  <2> QED
    BY <1>1, <1>2, <2>1, <2>2
<1>11. CASE CallbackFails
  BY <1>1, <1>11 DEF CallbackFails
<1>12. CASE Settle
  BY <1>2, <1>12 DEF Settle, history
<1>13. CASE UNCHANGED vars
  BY <1>13 DEF vars, runtime, history
<1> QED
  BY <1>3, <1>4, <1>5, <1>6, <1>7, <1>8, <1>9, <1>10, <1>11, <1>12, <1>13 DEF Next, Turn

\* A private event that was asked for is run exactly once: no second one is
\* accepted while one is pending, and no conclusion drops it
\* (pending_continuation/2, event_result/2).
THEOREM ContinuationsAreKept == Spec => []ContinuationKept
<1>1. Init => Continuing
  BY DEF Init, Continuing, ContinuationKept
<1>2. Continuing => ContinuationKept
  BY DEF Continuing
<1> QED
  BY <1>1, <1>2, ContinuingKept, PTL DEF Spec

-----------------------------------------------------------------------------
(* Collections (hls_reduction, hls_indexed_gather).                        *)

By(acc) == {a[1] : a \in acc}
Given(acc) == {a[2] : a \in acc}

\* An open reduction against the contributions it accepted.
ReductionTallies(r, pop, acc) ==
  /\ r.population = pop /\ r.remaining >= 1 /\ Cardinality(acc) + r.remaining = pop.size
  /\ pop.mode = "members" =>
       r.seen = By(acc) /\ r.seen \subseteq pop.members /\ Cardinality(r.seen) = Cardinality(acc)
  /\ ~r.failed => r.accumulator = Given(acc)

GatherTallies(g, pop, acc) ==
  /\ pop = Members(g.expected) /\ g.remaining >= 1 /\ Cardinality(acc) + g.remaining = pop.size
  /\ g.seen = By(acc) /\ g.seen \subseteq g.expected /\ Cardinality(g.seen) = Cardinality(acc)
  /\ \A m \in Member : IF m \in g.seen THEN <<m, g.values[m]>> \in acc ELSE g.values[m] = Padding

\* CompletionHolds, of any completion.
Holds(e, pop, acc) ==
  /\ Cardinality(acc) = pop.size
  /\ pop.mode = "members" => By(acc) = pop.members
  /\ IF e.kind = "reduction" THEN e.values = Given(acc)
     ELSE /\ e.mask = pop.members
          /\ \A m \in Member : IF m \in e.mask THEN <<m, e.values[m]>> \in acc
                               ELSE e.values[m] = Padding

\* A set of contributions.
Accepts(acc) == acc \subseteq Member \X Nat /\ IsFiniteSet(acc)

LEMMA SubsetsOfMembers ==
  ASSUME NEW s \in SUBSET Member
  PROVE  IsFiniteSet(s) /\ Cardinality(s) \in Nat
<1>1. IsFiniteSet(Member)
  <2>1. 0 \in Int /\ Width - 1 \in Int
    BY SizeAssumption
  <2> QED
    BY ONLY <2>1, FS_Interval DEF Member
<1> QED
  BY <1>1, FS_Subset, FS_CardinalityType

LEMMA PopulationFacts ==
  ASSUME NEW pop \in Population
  PROVE  /\ pop.mode \in {"count", "members"} /\ pop.size \in Nat
         /\ pop.mode = "members" => pop.members \in SUBSET Member /\ pop.size = Cardinality(pop.members)
<1>1. CASE \E n \in 1 .. MaxParticipants : pop = Count(n)
  BY <1>1, SizeAssumption DEF Count
<1>2. CASE \E s \in SUBSET Member : pop = Members(s)
  BY <1>2, SubsetsOfMembers DEF Members
<1> QED
  BY <1>1, <1>2 DEF Population

\* A contribution of a member that did not contribute, or of a value that was
\* not contributed, is one more.
LEMMA OneMore ==
  ASSUME NEW acc, Accepts(acc), NEW m \in Member, NEW id \in Nat, <<m, id>> \notin acc,
         NEW new, new = acc \cup {<<m, id>>}
  PROVE  /\ Accepts(new) /\ Cardinality(new) = Cardinality(acc) + 1 /\ Cardinality(acc) \in Nat
         /\ By(new) = By(acc) \cup {m} /\ Given(new) = Given(acc) \cup {id}
<1>1. IsFiniteSet(new) /\ Cardinality(new) = Cardinality(acc) + 1
  BY FS_AddElement DEF Accepts
<1>2. Cardinality(acc) \in Nat
  BY FS_CardinalityType DEF Accepts
<1>3. new \subseteq Member \X Nat
  BY DEF Accepts
<1>4. By(new) = By(acc) \cup {m} /\ Given(new) = Given(acc) \cup {id}
  BY DEF By, Given
<1> QED
  BY <1>1, <1>2, <1>3, <1>4 DEF Accepts

LEMMA FullMembers ==
  ASSUME NEW seen, NEW expected \in SUBSET Member, seen \subseteq expected,
         Cardinality(seen) = Cardinality(expected)
  PROVE  seen = expected
<1>1. IsFiniteSet(expected)
  BY SubsetsOfMembers
<1> QED
  BY <1>1, FS_Subset

LEMMA OpenedReduction ==
  ASSUME NEW key \in Key, NEW pop \in Population, ValidPopulation(pop)
  PROVE  /\ OpenReduction(key, pop) \in ReductionState(Key)
         /\ ReductionTallies(OpenReduction(key, pop), pop, {})
<1> DEFINE r == OpenReduction(key, pop)
<1>1. r \in ReductionState(Key)
  BY PopulationFacts DEF OpenReduction, ReductionState
<1>2. r.population = pop /\ r.remaining = pop.size /\ r.seen = {} /\ r.accumulator = {} /\ r.failed = FALSE
  BY DEF OpenReduction
<1> HIDE DEF r
<1>3. Cardinality({}) = 0 /\ By({}) = {} /\ Given({}) = {}
  BY FS_EmptySet DEF By, Given
<1>4. pop.size \in 1 .. MaxParticipants
  BY DEF ValidPopulation
<1>5. ReductionTallies(r, pop, {})
  BY <1>2, <1>3, <1>4, SizeAssumption DEF ReductionTallies
<1> QED
  BY <1>1, <1>5 DEF r

LEMMA OpenedGather ==
  ASSUME NEW key \in Key, NEW mask \in SUBSET Member
  PROVE  LET answer == OpenGather(key, mask) IN
         \/ /\ answer.result = "complete" /\ answer.event \in Completion(Key)
            /\ Holds(answer.event, Members(mask), {})
         \/ /\ answer.result = "pending" /\ answer.collection \in GatherState(Key)
            /\ GatherTallies(answer.collection, Members(mask), {})
<1>1. Cardinality({}) = 0 /\ By({}) = {} /\ Given({}) = {}
  BY FS_EmptySet DEF By, Given
<1>2. PaddedView \in [Member -> Nat \cup {Padding}] /\ \A m \in Member : PaddedView[m] = Padding
  BY DEF PaddedView
<1>3. CASE mask = {}
  <2> DEFINE e == GatherComplete(key, mask, PaddedView)
  <2>1. e.kind = "gather" /\ e.mask = {} /\ e.values = PaddedView /\ e \in Completion(Key)
    BY <1>2, <1>3 DEF GatherComplete, Completion
  <2>2. Members(mask).mode = "members" /\ Members(mask).members = {} /\ Members(mask).size = 0
    BY <1>1, <1>3 DEF Members
  <2>3. OpenGather(key, mask).result = "complete" /\ OpenGather(key, mask).event = e
    BY <1>3 DEF OpenGather, Completed
  <2> HIDE DEF e
  <2>4. Holds(e, Members(mask), {})
    BY <1>1, <1>2, <2>1, <2>2 DEF Holds
  <2> QED
    BY <2>1, <2>3, <2>4
<1>4. CASE mask # {}
  <2> DEFINE g == [key |-> key, expected |-> mask, seen |-> {}, remaining |-> Cardinality(mask), values |-> PaddedView]
  <2>1. IsFiniteSet(mask) /\ Cardinality(mask) \in Nat /\ Cardinality(mask) # 0
    BY <1>4, SubsetsOfMembers, FS_EmptySet
  <2>2. g \in GatherState(Key)
    BY <1>2, <2>1 DEF GatherState
  <2>3. OpenGather(key, mask).result = "pending" /\ OpenGather(key, mask).collection = g
    BY <1>4 DEF OpenGather, Pending
  <2>4. g.expected = mask /\ g.seen = {} /\ g.remaining = Cardinality(mask) /\ g.values = PaddedView
    OBVIOUS
  <2>5. Members(mask).size = Cardinality(mask)
    BY DEF Members
  <2> HIDE DEF g
  <2>6. GatherTallies(g, Members(mask), {})
    BY <1>1, <1>2, <2>1, <2>4, <2>5 DEF GatherTallies
  <2> QED
    BY <2>2, <2>3, <2>6
<1> QED
  BY <1>3, <1>4

\* What an answer to a contribution concludes.
Concludes(answer, states, Tallies(_, _, _), pop, acc) ==
  /\ answer.result = "pending" => answer.collection \in states /\ Tallies(answer.collection, pop, acc)
  /\ answer.result = "complete" => answer.event \in Completion(Key) /\ Holds(answer.event, pop, acc)

LEMMA CombineFacts ==
  ASSUME NEW r \in ReductionState(Key), NEW value \in Nat, NEW raises \in BOOLEAN
  PROVE  LET c == Combine(r, value, raises) IN
         /\ c \in ReductionState(Key)
         /\ c.key = r.key /\ c.population = r.population /\ c.seen = r.seen /\ c.remaining = r.remaining
         /\ ~c.failed => ~r.failed /\ c.accumulator = r.accumulator \cup {value}
<1>1. /\ r.key \in Key /\ r.population \in Population /\ r.seen \in SUBSET Member /\ r.remaining \in Nat
      /\ r.accumulator \in SUBSET Nat /\ r.failed \in BOOLEAN
  BY DEF ReductionState
<1>2. CASE r.failed
  BY <1>1, <1>2 DEF Combine
<1>3. CASE ~r.failed /\ raises
  BY <1>1, <1>3 DEF Combine, ReductionState
<1>4. CASE ~r.failed /\ ~raises
  BY <1>1, <1>4 DEF Combine, ReductionState
<1> QED
  BY <1>1, <1>2, <1>3, <1>4

\* accept/3, for a reduction that has noted the member already.
LEMMA AcceptTallies ==
  ASSUME NEW r \in ReductionState(Key), NEW pop \in Population, NEW acc, NEW new,
         NEW value \in Nat, NEW raises \in BOOLEAN,
         r.population = pop, r.remaining >= 1, Cardinality(acc) \in Nat,
         Cardinality(acc) + r.remaining = pop.size, Cardinality(new) = Cardinality(acc) + 1,
         pop.mode = "members" =>
           r.seen = By(new) /\ r.seen \subseteq pop.members /\ Cardinality(r.seen) = Cardinality(new),
         ~r.failed => r.accumulator = Given(acc), Given(new) = Given(acc) \cup {value}
  PROVE  Concludes(AcceptValue(r, value, raises), ReductionState(Key), ReductionTallies, pop, new)
<1> DEFINE c == Combine(r, value, raises)  answer == AcceptValue(r, value, raises)
<1>1. /\ c \in ReductionState(Key) /\ c.key = r.key /\ c.population = r.population /\ c.seen = r.seen
      /\ c.remaining = r.remaining
      /\ ~c.failed => ~r.failed /\ c.accumulator = r.accumulator \cup {value}
  BY CombineFacts
<1>2. /\ r.remaining \in Nat /\ r.key \in Key /\ c.accumulator \in SUBSET Nat /\ pop.size \in Nat
      /\ pop.mode = "members" => pop.members \in SUBSET Member /\ pop.size = Cardinality(pop.members)
  BY <1>1, PopulationFacts DEF ReductionState
<1>3. /\ answer.result = "pending" => r.remaining > 1 /\ answer.collection = [c EXCEPT !.remaining = @ - 1]
      /\ answer.result = "complete" =>
           /\ ~(r.remaining > 1) /\ ~c.failed
           /\ answer.event = [kind |-> "reduction", key |-> r.key, values |-> c.accumulator]
  BY DEF AcceptValue, Pending, Completed, Error
<1> HIDE DEF c, answer
<1>4. ASSUME answer.result = "pending"
      PROVE  answer.collection \in ReductionState(Key) /\ ReductionTallies(answer.collection, pop, new)
  <2> DEFINE d == [c EXCEPT !.remaining = @ - 1]
  <2>1. c.remaining - 1 \in Nat /\ c.remaining - 1 >= 1
    BY <1>1, <1>2, <1>3, <1>4
  <2>2. /\ d \in ReductionState(Key) /\ d.population = c.population /\ d.remaining = c.remaining - 1
        /\ d.seen = c.seen /\ d.failed = c.failed /\ d.accumulator = c.accumulator
    BY <1>1, <2>1 DEF ReductionState
  <2> HIDE DEF d
  <2>3. Cardinality(new) + d.remaining = pop.size
    BY <1>1, <1>2, <2>1, <2>2
  <2>4. pop.mode = "members" =>
          d.seen = By(new) /\ d.seen \subseteq pop.members /\ Cardinality(d.seen) = Cardinality(new)
    BY <1>1, <2>2
  <2>5. ~d.failed => d.accumulator = Given(new)
    BY <1>1, <2>2
  <2>6. d.population = pop
    BY <1>1, <2>2
  <2> QED
    BY <1>3, <1>4, <2>1, <2>2, <2>3, <2>4, <2>5, <2>6 DEF ReductionTallies, d
<1>5. ASSUME answer.result = "complete"
      PROVE  answer.event \in Completion(Key) /\ Holds(answer.event, pop, new)
  <2> DEFINE e == [kind |-> "reduction", key |-> r.key, values |-> c.accumulator]
  <2>1. e \in Completion(Key) /\ e.kind = "reduction" /\ e.values = c.accumulator
    BY <1>2 DEF Completion
  <2>2. r.remaining = 1 /\ Cardinality(new) = pop.size
    BY <1>2, <1>3, <1>5
  <2>3. c.accumulator = Given(new)
    BY <1>1, <1>3, <1>5
  <2>4. pop.mode = "members" => By(new) = pop.members
    BY <1>2, <2>2, FullMembers
  <2> HIDE DEF e
  <2> QED
    BY <1>3, <1>5, <2>1, <2>2, <2>3, <2>4 DEF Holds, e
<1> QED
  BY <1>4, <1>5 DEF Concludes, answer

LEMMA CountTallies ==
  ASSUME NEW r \in ReductionState(Key), NEW pop \in Population, NEW acc, Accepts(acc),
         ReductionTallies(r, pop, acc), NEW key, NEW m \in Member, NEW id \in Nat, id \notin Given(acc),
         NEW raises \in BOOLEAN
  PROVE  Concludes(ContributeCount(key, id, raises, r), ReductionState(Key), ReductionTallies,
                   pop, acc \cup {<<m, id>>})
<1> DEFINE new == acc \cup {<<m, id>>}  answer == ContributeCount(key, id, raises, r)
<1>1. /\ Cardinality(new) = Cardinality(acc) + 1 /\ Cardinality(acc) \in Nat
      /\ Given(new) = Given(acc) \cup {id}
  <2>1. <<m, id>> \notin acc /\ new = acc \cup {<<m, id>>}
    BY DEF Given
  <2> HIDE DEF new
  <2> QED
    BY <2>1, OneMore
<1> HIDE DEF new
<1>2. CASE key = r.key /\ r.population.mode = "count"
  <2>1. answer = AcceptValue(r, id, raises)
    BY <1>2 DEF ContributeCount
  <2>2. pop.mode # "members"
    BY <1>2 DEF ReductionTallies
  <2>3. Concludes(AcceptValue(r, id, raises), ReductionState(Key), ReductionTallies, pop, new)
    BY <1>1, <2>2, AcceptTallies DEF ReductionTallies
  <2> HIDE DEF answer
  <2> QED
    BY <2>1, <2>3 DEF answer, new
<1>3. CASE ~(key = r.key /\ r.population.mode = "count")
  <2>1. answer.result \in {"mismatch", "error"}
    BY <1>3 DEF ContributeCount, Mismatch, Error
  <2> QED
    BY <2>1 DEF Concludes
<1> QED
  BY <1>2, <1>3

LEMMA MemberTallies ==
  ASSUME NEW r \in ReductionState(Key), NEW pop \in Population, NEW acc, Accepts(acc),
         ReductionTallies(r, pop, acc), NEW key, NEW m \in Member, NEW id \in Nat, id \notin Given(acc),
         NEW raises \in BOOLEAN
  PROVE  Concludes(ContributeMember(key, m, id, raises, r), ReductionState(Key), ReductionTallies,
                   pop, acc \cup {<<m, id>>})
<1> DEFINE new == acc \cup {<<m, id>>}  answer == ContributeMember(key, m, id, raises, r)
           s == [r EXCEPT !.seen = @ \cup {m}]
<1>1. /\ Cardinality(new) = Cardinality(acc) + 1 /\ Cardinality(acc) \in Nat
      /\ By(new) = By(acc) \cup {m} /\ Given(new) = Given(acc) \cup {id}
  <2>1. <<m, id>> \notin acc /\ new = acc \cup {<<m, id>>}
    BY DEF Given
  <2> HIDE DEF new
  <2> QED
    BY <2>1, OneMore
<1>2. CASE key = r.key /\ r.population.mode = "members" /\ m \in r.population.members \ r.seen
  <2>1. answer = AcceptValue(s, id, raises)
    BY <1>2 DEF ContributeMember
  <2>2. /\ s \in ReductionState(Key) /\ s.population = r.population /\ s.remaining = r.remaining
        /\ s.seen = r.seen \cup {m} /\ s.failed = r.failed /\ s.accumulator = r.accumulator
    BY DEF ReductionState
  <2>3. /\ r.population = pop /\ r.remaining >= 1 /\ Cardinality(acc) + r.remaining = pop.size
        /\ r.seen = By(acc) /\ r.seen \subseteq pop.members /\ Cardinality(r.seen) = Cardinality(acc)
        /\ ~r.failed => r.accumulator = Given(acc)
    BY <1>2 DEF ReductionTallies
  <2> HIDE DEF s, new, answer
  <2>4. Cardinality(s.seen) = Cardinality(new)
    <3>1. IsFiniteSet(r.seen) /\ m \notin r.seen
      BY <1>2, SubsetsOfMembers DEF ReductionState
    <3>2. Cardinality(r.seen \cup {m}) = Cardinality(r.seen) + 1
      BY ONLY <3>1, FS_AddElement
    <3> QED
      BY <1>1, <2>2, <2>3, <3>2
  <2>5. s.seen = By(new) /\ s.seen \subseteq pop.members
    BY <1>1, <1>2, <2>2, <2>3
  <2>6. Concludes(AcceptValue(s, id, raises), ReductionState(Key), ReductionTallies, pop, new)
    BY <1>1, <2>2, <2>3, <2>4, <2>5, AcceptTallies
  <2> QED
    BY <2>1, <2>6 DEF answer, new
<1>3. CASE ~(key = r.key /\ r.population.mode = "members" /\ m \in r.population.members \ r.seen)
  <2>1. answer.result \in {"mismatch", "error"}
    BY <1>3 DEF ContributeMember, Mismatch, Error
  <2> QED
    BY <2>1 DEF Concludes
<1> QED
  BY <1>2, <1>3

LEMMA OfferTallies ==
  ASSUME NEW g \in GatherState(Key), NEW pop, NEW acc, Accepts(acc), GatherTallies(g, pop, acc),
         NEW key, NEW m \in Member, NEW id \in Nat, id \notin Given(acc)
  PROVE  Concludes(Offer(key, m, id, g), GatherState(Key), GatherTallies, pop, acc \cup {<<m, id>>})
<1> DEFINE new == acc \cup {<<m, id>>}  answer == Offer(key, m, id, g)
           values == [g.values EXCEPT ![m] = id]  seen == g.seen \cup {m}
<1>1. /\ Cardinality(new) = Cardinality(acc) + 1 /\ Cardinality(acc) \in Nat
      /\ By(new) = By(acc) \cup {m}
  <2>1. <<m, id>> \notin acc /\ new = acc \cup {<<m, id>>}
    BY DEF Given
  <2> HIDE DEF new
  <2> QED
    BY <2>1, OneMore
<1>2. CASE ~(key = g.key /\ m \in g.expected \ g.seen)
  <2>1. answer.result \in {"mismatch", "error"}
    BY <1>2 DEF Offer, Mismatch, Error
  <2> QED
    BY <2>1 DEF Concludes
<1>3. CASE key = g.key /\ m \in g.expected \ g.seen
  <2>1. /\ g.key \in Key /\ g.expected \in SUBSET Member /\ g.seen \in SUBSET Member /\ g.remaining \in Nat
        /\ g.values \in [Member -> Nat \cup {Padding}]
    BY DEF GatherState
  <2>2. /\ pop = Members(g.expected) /\ g.remaining >= 1 /\ Cardinality(acc) + g.remaining = pop.size
        /\ g.seen = By(acc) /\ g.seen \subseteq g.expected /\ Cardinality(g.seen) = Cardinality(acc)
        /\ \A k \in Member : IF k \in g.seen THEN <<k, g.values[k]>> \in acc ELSE g.values[k] = Padding
    BY DEF GatherTallies
  <2>3. pop.mode = "members" /\ pop.members = g.expected /\ pop.size = Cardinality(g.expected)
    BY <2>2 DEF Members
  <2>4. /\ values \in [Member -> Nat \cup {Padding}] /\ values[m] = id
        /\ \A k \in Member \ {m} : values[k] = g.values[k]
    BY <2>1
  <2>5. Cardinality(seen) = Cardinality(new)
    <3>1. IsFiniteSet(g.seen) /\ m \notin g.seen
      BY <1>3, <2>1, SubsetsOfMembers
    <3>2. Cardinality(seen) = Cardinality(g.seen) + 1
      BY ONLY <3>1, FS_AddElement
    <3>3. Cardinality(g.seen) = Cardinality(acc) /\ Cardinality(new) = Cardinality(acc) + 1
      BY <1>1, <2>2
    <3> QED
      BY ONLY <3>2, <3>3
  <2>6. \A k \in Member : IF k \in seen THEN <<k, values[k]>> \in new ELSE values[k] = Padding
    BY <2>2, <2>4
  <2>7. seen = By(new) /\ seen \subseteq g.expected
    BY <1>1, <1>3, <2>2
  <2>8. /\ answer.result = "pending" =>
             /\ g.remaining # 1
             /\ answer.collection = [g EXCEPT !.seen = seen, !.values = values, !.remaining = @ - 1]
        /\ answer.result = "complete" =>
             g.remaining = 1 /\ answer.event = GatherComplete(key, g.expected, values)
    BY <1>3 DEF Offer, Pending, Completed
  <2> HIDE DEF new, answer, values, seen
  <2>9. ASSUME answer.result = "pending"
        PROVE  answer.collection \in GatherState(Key) /\ GatherTallies(answer.collection, pop, new)
    <3> DEFINE d == [g EXCEPT !.seen = seen, !.values = values, !.remaining = @ - 1]
    <3>1. g.remaining - 1 \in Nat /\ g.remaining - 1 >= 1
      BY <2>1, <2>2, <2>8, <2>9
    <3>2. seen \in SUBSET Member
      BY <2>1, <2>7
    <3>3. /\ d \in GatherState(Key) /\ d.expected = g.expected /\ d.seen = seen
          /\ d.remaining = g.remaining - 1 /\ d.values = values
      BY <2>4, <3>1, <3>2 DEF GatherState
    <3> HIDE DEF d
    <3>4. Cardinality(new) + d.remaining = pop.size
      <4>1. pop.size \in Nat
        BY <2>1, <2>3, SubsetsOfMembers
      <4> QED
        BY <1>1, <2>1, <2>2, <3>3, <4>1
    <3>5. GatherTallies(d, pop, new)
      BY <2>2, <2>5, <2>6, <2>7, <3>1, <3>3, <3>4 DEF GatherTallies
    <3> QED
      BY <2>8, <2>9, <3>3, <3>5 DEF d
  <2>10. ASSUME answer.result = "complete"
         PROVE  answer.event \in Completion(Key) /\ Holds(answer.event, pop, new)
    <3> DEFINE e == GatherComplete(key, g.expected, values)
    <3>1. e \in Completion(Key) /\ e.kind = "gather" /\ e.mask = g.expected /\ e.values = values
      BY <1>3, <2>1, <2>4 DEF GatherComplete, Completion
    <3>2. Cardinality(new) = pop.size
      BY <1>1, <2>2, <2>8, <2>10
    <3>3. seen = g.expected
      BY <2>1, <2>3, <2>5, <2>7, <3>2, FullMembers
    <3> HIDE DEF e
    <3>4. Holds(e, pop, new)
      BY <2>3, <2>6, <2>7, <3>1, <3>2, <3>3 DEF Holds
    <3> QED
      BY <2>8, <2>10, <3>1, <3>4 DEF e
  <2> QED
    BY <2>9, <2>10 DEF Concludes, answer, new
<1> QED
  BY <1>2, <1>3

Live(c) == IF c # None THEN 1 ELSE 0

\* What is open or complete matches what was accepted.
Tallies ==
  /\ opened - delivered = Live(reduction) + Live(gather) + Live(completion)
  /\ opened - delivered <= 1
  /\ reduction # None => ReductionTallies(reduction, population, accepted)
  /\ gather # None => GatherTallies(gather, population, accepted)
  /\ completion # None => Holds(completion, population, accepted)

CollectionTypes ==
  /\ Accepts(accepted) /\ opened \in Nat /\ delivered \in Nat
  /\ reduction \in ReductionState(Key) \cup {None} /\ gather \in GatherState(Key) \cup {None}
  /\ completion \in Completion(Key) \cup {None} /\ population \in Population \cup {None}

\* Nothing is open before the machine is connected, and a value that was
\* accepted was taken from the mailbox.
Collecting ==
  /\ CollectionTypes /\ Given(accepted) \subseteq consumed
  /\ Lives => Tallies
  /\ status = "disconnected" => reduction = None /\ gather = None /\ completion = None

LEMMA NoneIsApart ==
  /\ None \notin ReductionState(Key) /\ None \notin GatherState(Key) /\ None \notin Completion(Key)
BY NoneAssumption

LEMMA CollectingStart == Init => Collecting
<1> SUFFICES ASSUME Init PROVE Collecting
  OBVIOUS
<1>1. /\ reduction = None /\ gather = None /\ completion = None /\ population = None /\ accepted = {}
      /\ opened = 0 /\ delivered = 0 /\ consumed = {}
  BY DEF Init
<1>2. CollectionTypes /\ Given(accepted) = {}
  BY <1>1, FS_EmptySet DEF CollectionTypes, Accepts, Given
<1> QED
  BY <1>1, <1>2 DEF Collecting, Tallies, Live

\* Nothing of the collections changes.
LEMMA CollectingRests ==
  ASSUME Collecting, UNCHANGED <<accepted, opened, delivered, reduction, gather, completion, population>>,
         consumed \subseteq consumed', Lives' => Lives, status' = "disconnected" => status = "disconnected"
  PROVE  Collecting'
<1>1. CollectionTypes' /\ Given(accepted)' \subseteq consumed'
  BY DEF Collecting, CollectionTypes, Accepts, Given
<1>2. Tallies => Tallies'
  BY DEF Tallies, Live
<1> QED
  BY <1>1, <1>2 DEF Collecting

\* A phase is entered with no collection open; the completion that may have
\* caused it is delivered.
LEMMA EntryCollects ==
  ASSUME Collecting, Lives, NEW entry \in Entry, EnterPhase(entry), reduction = None, gather = None,
         delivered' = delivered + Live(completion), consumed \subseteq consumed'
  PROVE  Collecting'
<1>1. /\ opened - delivered = Live(completion) /\ opened \in Nat /\ delivered \in Nat
      /\ Live(completion) \in {0, 1} /\ Given(accepted) \subseteq consumed /\ Accepts(accepted)
      /\ population \in Population \cup {None}
  BY DEF Collecting, Tallies, Live, CollectionTypes
<1>2. delivered' \in Nat /\ opened - delivered' = 0 /\ status' # "disconnected"
  BY <1>1 DEF EnterPhase
<1>3. CASE entry.action \notin {"open_reduction", "open_gather"}
  <2>1. completion' = None /\ UNCHANGED <<reduction, gather, opened, accepted, population>>
    BY <1>3 DEF EnterPhase
  <2>2. CollectionTypes'
    BY <1>1, <1>2, <2>1 DEF CollectionTypes, Accepts
  <2>3. Tallies'
    BY <1>1, <1>2, <2>1 DEF Tallies, Live
  <2>4. Given(accepted)' \subseteq consumed'
    BY <1>1, <2>1 DEF Given
  <2> QED
    BY <1>2, <2>2, <2>3, <2>4 DEF Collecting
<1>4. CASE entry.action \in {"open_reduction", "open_gather"}
  <2>1. opened' = opened + 1 /\ accepted' = {}
    BY <1>4 DEF EnterPhase, Opens
  <2>2. Accepts(accepted)' /\ Given(accepted)' \subseteq consumed'
    BY <2>1, FS_EmptySet DEF Accepts, Given
  <2>3. opened' \in Nat /\ opened' - delivered' = 1
    BY <1>1, <1>2, <2>1
  <2>4. CASE entry.action = "open_reduction"
    <3> DEFINE r == OpenReduction(entry.key, entry.population)
    <3>1. entry.key \in Key /\ entry.population \in Population /\ ValidPopulation(entry.population)
      BY <2>4, EntryAssumption DEF Nothing, Raise
    <3>2. reduction' = r /\ completion' = None /\ gather' = None /\ population' = entry.population
      BY <1>4, <2>4 DEF EnterPhase, Opens
    <3>3. r \in ReductionState(Key) /\ ReductionTallies(r, entry.population, {}) /\ r # None
      BY <3>1, OpenedReduction, NoneIsApart
    <3> HIDE DEF r
    <3>4. CollectionTypes'
      BY <1>2, <2>2, <2>3, <3>1, <3>2, <3>3 DEF CollectionTypes
    <3>5. Tallies'
      BY <1>2, <2>1, <2>3, <3>2, <3>3 DEF Tallies, Live
    <3> QED
      BY <1>2, <2>2, <3>4, <3>5 DEF Collecting
  <2>5. CASE entry.action = "open_gather"
    <3> DEFINE answer == OpenGather(entry.key, entry.mask)  pop == Members(entry.mask)
    <3>1. entry.key \in Key /\ entry.mask \in SUBSET Member
      BY <2>5, EntryAssumption DEF Nothing, Raise
    <3>2. /\ population' = pop /\ reduction' = None
          /\ gather' = IF answer.result = "pending" THEN answer.collection ELSE None
          /\ completion' = IF answer.result = "complete" THEN answer.event ELSE None
      BY <1>4, <2>5 DEF EnterPhase, Opens
    <3>3. \/ /\ answer.result = "complete" /\ answer.event \in Completion(Key)
             /\ Holds(answer.event, pop, {})
          \/ /\ answer.result = "pending" /\ answer.collection \in GatherState(Key)
             /\ GatherTallies(answer.collection, pop, {})
      BY <3>1, OpenedGather
    <3>4. pop \in Population
      BY <3>1 DEF Population
    <3> HIDE DEF answer, pop
    <3>5. CASE answer.result = "complete"
      <4>1. gather' = None /\ completion' = answer.event /\ completion' \in Completion(Key)
            /\ Holds(completion', pop, {}) /\ completion' # None
        BY <3>2, <3>3, <3>5, NoneIsApart
      <4>2. CollectionTypes'
        BY <1>2, <2>2, <2>3, <3>2, <3>4, <4>1 DEF CollectionTypes
      <4>3. Tallies'
        BY <1>2, <2>1, <2>3, <3>2, <4>1 DEF Tallies, Live
      <4> QED
        BY <1>2, <2>2, <4>2, <4>3 DEF Collecting
    <3>6. CASE answer.result = "pending"
      <4>1. gather' = answer.collection /\ completion' = None /\ gather' \in GatherState(Key)
            /\ GatherTallies(gather', pop, {}) /\ gather' # None
        BY <3>2, <3>3, <3>6, NoneIsApart
      <4>2. CollectionTypes'
        BY <1>2, <2>2, <2>3, <3>2, <3>4, <4>1 DEF CollectionTypes
      <4>3. Tallies'
        BY <1>2, <2>1, <2>3, <3>2, <4>1 DEF Tallies, Live
      <4> QED
        BY <1>2, <2>2, <4>2, <4>3 DEF Collecting
    <3> QED
      BY <3>3, <3>5, <3>6
  <2> QED
    BY <1>4, <2>4, <2>5
<1> QED
  BY <1>3, <1>4

\* The end of a turn, which delivers the completion if one waited.
LEMMA ConcludeCollects ==
  ASSUME Collecting, Running, NEW to, NEW entry, NEW held, Conclude(to, entry, held),
         Crosses(to) => entry \in Entry,
         ~(Crosses(to) /\ ActiveCollection), delivered' = delivered + Live(completion),
         consumed \subseteq consumed'
  PROVE  Collecting'
<1>1. Lives
  BY DEF Running, Lives
<1>2. CASE Crosses(to)
  BY <1>1, <1>2, EntryCollects DEF Conclude, ActiveCollection
<1>3. CASE ~Crosses(to)
  <2>1. /\ status' = "busy" /\ completion' = None
        /\ UNCHANGED <<reduction, gather, opened, accepted, population>>
    BY <1>3 DEF Conclude, Stay
  <2>2. /\ CollectionTypes /\ Tallies /\ Given(accepted) \subseteq consumed
    BY <1>1 DEF Collecting
  <2>3. delivered \in Nat /\ opened \in Nat /\ Live(completion) \in {0, 1}
        /\ Live(reduction) \in {0, 1} /\ Live(gather) \in {0, 1}
    BY <2>2 DEF CollectionTypes, Live
  <2>4. CollectionTypes'
    BY <2>1, <2>2, <2>3 DEF CollectionTypes, Accepts
  <2>5. /\ opened' - delivered' = Live(reduction') + Live(gather') + Live(completion')
        /\ opened' - delivered' <= 1
    <3>1. /\ opened - delivered = Live(reduction) + Live(gather) + Live(completion)
          /\ opened - delivered <= 1
      BY <2>2 DEF Tallies
    <3>2. /\ Live(completion') = 0 /\ Live(reduction') = Live(reduction) /\ Live(gather') = Live(gather)
          /\ opened' = opened /\ delivered' = delivered + Live(completion)
      BY <2>1 DEF Live
    <3> DEFINE r == Live(reduction)  g == Live(gather)  c == Live(completion)
    <3>3. r \in Nat /\ g \in Nat /\ c \in Nat /\ opened \in Nat /\ delivered \in Nat
      BY <2>3
    <3>4. opened - delivered = r + g + c /\ opened - delivered <= 1 /\ delivered' = delivered + c
      BY <3>1, <3>2
    <3> HIDE DEF r, g, c
    <3>5. opened - delivered' = r + g /\ opened - delivered' <= 1
      BY ONLY <3>3, <3>4
    <3>6. opened' - delivered' = r + g /\ opened' - delivered' <= 1
      BY <3>2, <3>5
    <3>7. Live(reduction') + Live(gather') + Live(completion') = r + g
      BY <3>2, <3>3 DEF r, g
    <3> QED
      BY <3>6, <3>7
  <2>6. Tallies'
    BY <2>1, <2>2, <2>5 DEF Tallies, Live
  <2>7. Given(accepted)' \subseteq consumed'
    BY <2>1, <2>2 DEF Given
  <2> QED
    BY <2>1, <2>4, <2>6, <2>7 DEF Collecting
<1> QED
  BY <1>2, <1>3

\* What OfferCollection concludes of the collection that is open.
LEMMA OfferConcludes ==
  ASSUME Collecting, Tallies, NEW offer \in Offers, NEW id \in Nat, id \notin consumed,
         OfferCollection(offer, id).result \in {"pending", "complete"}
  PROVE  LET answer == OfferCollection(offer, id)
             new == accepted \cup {<<offer.member, id>>} IN
         IF offer.kind = "gather"
         THEN gather # None /\ Concludes(answer, GatherState(Key), GatherTallies, population, new)
         ELSE reduction # None /\ Concludes(answer, ReductionState(Key), ReductionTallies, population, new)
<1>1. /\ offer.kind \in {"gather", "member", "count"} /\ offer.member \in Member /\ offer.raises \in BOOLEAN
  BY OfferAssumption
<1>2. /\ Accepts(accepted) /\ id \notin Given(accepted)
      /\ gather # None => gather \in GatherState(Key) /\ GatherTallies(gather, population, accepted)
      /\ reduction # None =>
           reduction \in ReductionState(Key) /\ ReductionTallies(reduction, population, accepted)
  BY DEF Collecting, CollectionTypes, Tallies
<1>3. CASE offer.kind = "gather"
  <2>1. gather # None
    BY <1>3 DEF OfferCollection, Mismatch
  <2>2. OfferCollection(offer, id) = Offer(offer.key, offer.member, id, gather)
    BY <1>3, <2>1 DEF OfferCollection
  <2>3. Concludes(Offer(offer.key, offer.member, id, gather), GatherState(Key), GatherTallies,
                  population, accepted \cup {<<offer.member, id>>})
    BY <1>1, <1>2, <2>1, OfferTallies
  <2> QED
    BY <1>3, <2>1, <2>2, <2>3
<1>4. CASE offer.kind # "gather"
  <2>1. reduction # None
    BY <1>1, <1>4 DEF OfferCollection, Mismatch
  <2>2. population \in Population
    <3>1. reduction.population = population /\ reduction \in ReductionState(Key)
      BY <1>2, <2>1 DEF ReductionTallies
    <3> QED
      BY <3>1 DEF ReductionState
  <2>3. Concludes(OfferCollection(offer, id), ReductionState(Key), ReductionTallies,
                  population, accepted \cup {<<offer.member, id>>})
    <3>1. CASE offer.kind = "member"
      <4>1. OfferCollection(offer, id) = ContributeMember(offer.key, offer.member, id, offer.raises, reduction)
        BY <2>1, <3>1 DEF OfferCollection
      <4>2. Concludes(ContributeMember(offer.key, offer.member, id, offer.raises, reduction), ReductionState(Key),
                      ReductionTallies, population, accepted \cup {<<offer.member, id>>})
        BY <1>1, <1>2, <2>1, <2>2, MemberTallies
      <4> QED
        BY <4>1, <4>2
    <3>2. CASE offer.kind = "count"
      <4>1. OfferCollection(offer, id) = ContributeCount(offer.key, id, offer.raises, reduction)
        BY <2>1, <3>2 DEF OfferCollection
      <4>2. Concludes(ContributeCount(offer.key, id, offer.raises, reduction), ReductionState(Key),
                      ReductionTallies, population, accepted \cup {<<offer.member, id>>})
        BY <1>1, <1>2, <2>1, <2>2, CountTallies
      <4> QED
        BY <4>1, <4>2
    <3> QED
      BY <1>1, <1>4, <3>1, <3>2
  <2> QED
    BY <1>4, <2>1, <2>3
<1> QED
  BY <1>3, <1>4

\* A contribution that was taken.
LEMMA ContributionCollects ==
  ASSUME Queueing, Collecting, NEW id, NEW offer \in Offers, ContributionTurn(id, offer),
         OfferCollection(offer, id).result \in {"pending", "complete"}
  PROVE  Collecting'
<1> DEFINE answer == OfferCollection(offer, id)  new == accepted \cup {<<offer.member, id>>}
           next == IF answer.result = "pending" THEN answer.collection ELSE None
<1>1. Dispatches(id)
  BY DEF ContributionTurn
<1>2. /\ ConsumeMessage(id) /\ accepted' = new /\ NoRequest
      /\ IF offer.kind = "gather" THEN gather' = next /\ UNCHANGED reduction
         ELSE reduction' = next /\ UNCHANGED gather
      /\ completion' = IF answer.result = "complete" THEN answer.event ELSE None
      /\ UNCHANGED <<status, phase, epoch, opened, population>>
  BY DEF ContributionTurn
<1>3. id \in Nat /\ id \in Waiting /\ id \notin consumed
  BY <1>1, OldestEligible DEF Queueing, InputsAccounted
<1>4. status = "busy" /\ status' = "busy" /\ completion = None /\ Tallies /\ CollectionTypes
  BY <1>1, <1>2 DEF Dispatches, Running, Collecting, Lives
<1>5. UNCHANGED <<opened, delivered, population>> /\ consumed' = consumed \cup {id}
  BY <1>2 DEF NoRequest, ConsumeMessage
<1>6. IF offer.kind = "gather"
      THEN gather # None /\ Concludes(answer, GatherState(Key), GatherTallies, population, new)
      ELSE reduction # None /\ Concludes(answer, ReductionState(Key), ReductionTallies, population, new)
  BY <1>3, <1>4, OfferConcludes
<1>7. Accepts(new) /\ Given(new) \subseteq consumed'
  <2>1. offer.member \in Member /\ <<offer.member, id>> \notin accepted
    BY <1>3, OfferAssumption DEF Collecting, Given
  <2>2. Accepts(accepted) /\ Given(accepted) \subseteq consumed
    BY DEF Collecting, CollectionTypes
  <2> QED
    BY <1>3, <1>5, <2>1, <2>2, OneMore
<1> HIDE DEF answer, new
<1>8. /\ opened - delivered = Live(reduction) + Live(gather) /\ opened - delivered <= 1
      /\ opened \in Nat /\ delivered \in Nat /\ population \in Population \cup {None}
  BY <1>4 DEF Tallies, Live, CollectionTypes
<1>9. answer.result = "pending" \/ answer.result = "complete"
  BY DEF answer
<1>10. CASE offer.kind = "gather"
  <2>1. reduction = None /\ opened - delivered = 1 /\ reduction' = None
    BY <1>2, <1>6, <1>8, <1>10 DEF Live
  <2>2. CASE answer.result = "pending"
    <3>1. gather' = answer.collection /\ completion' = None
      BY <1>2, <1>10, <2>2
    <3>2. gather' \in GatherState(Key) /\ gather' # None /\ GatherTallies(gather', population, new)
      BY <1>6, <1>10, <2>2, <3>1, NoneIsApart DEF Concludes
    <3>3. Tallies'
      BY <1>2, <1>5, <2>1, <3>1, <3>2 DEF Tallies, Live
    <3>4. CollectionTypes'
      BY <1>2, <1>5, <1>7, <1>8, <2>1, <3>1, <3>2 DEF CollectionTypes
    <3> QED
      BY <1>2, <1>4, <1>7, <3>3, <3>4 DEF Collecting
  <2>3. CASE answer.result = "complete"
    <3>1. gather' = None /\ completion' = answer.event
      BY <1>2, <1>10, <2>3
    <3>2. completion' \in Completion(Key) /\ completion' # None /\ Holds(completion', population, new)
      BY <1>6, <1>10, <2>3, <3>1, NoneIsApart DEF Concludes
    <3>3. Tallies'
      BY <1>2, <1>5, <2>1, <3>1, <3>2 DEF Tallies, Live
    <3>4. CollectionTypes'
      BY <1>2, <1>5, <1>7, <1>8, <2>1, <3>1, <3>2 DEF CollectionTypes
    <3> QED
      BY <1>2, <1>4, <1>7, <3>3, <3>4 DEF Collecting
  <2> QED
    BY <1>9, <2>2, <2>3
<1>11. CASE offer.kind # "gather"
  <2>1. gather = None /\ opened - delivered = 1 /\ gather' = None
    BY <1>2, <1>6, <1>8, <1>11 DEF Live
  <2>2. CASE answer.result = "pending"
    <3>1. reduction' = answer.collection /\ completion' = None
      BY <1>2, <1>11, <2>2
    <3>2. reduction' \in ReductionState(Key) /\ reduction' # None /\ ReductionTallies(reduction', population, new)
      BY <1>6, <1>11, <2>2, <3>1, NoneIsApart DEF Concludes
    <3>3. Tallies'
      BY <1>2, <1>5, <2>1, <3>1, <3>2 DEF Tallies, Live
    <3>4. CollectionTypes'
      BY <1>2, <1>5, <1>7, <1>8, <2>1, <3>1, <3>2 DEF CollectionTypes
    <3> QED
      BY <1>2, <1>4, <1>7, <3>3, <3>4 DEF Collecting
  <2>3. CASE answer.result = "complete"
    <3>1. reduction' = None /\ completion' = answer.event
      BY <1>2, <1>11, <2>3
    <3>2. completion' \in Completion(Key) /\ completion' # None /\ Holds(completion', population, new)
      BY <1>6, <1>11, <2>3, <3>1, NoneIsApart DEF Concludes
    <3>3. Tallies'
      BY <1>2, <1>5, <2>1, <3>1, <3>2 DEF Tallies, Live
    <3>4. CollectionTypes'
      BY <1>2, <1>5, <1>7, <1>8, <2>1, <3>1, <3>2 DEF CollectionTypes
    <3> QED
      BY <1>2, <1>4, <1>7, <3>3, <3>4 DEF Collecting
  <2> QED
    BY <1>9, <2>2, <2>3
<1> QED
  BY <1>10, <1>11

LEMMA CollectingStops ==
  ASSUME Collecting, Stop
  PROVE  Collecting'
BY CollectingRests DEF Stop, history, Lives

LEMMA CollectingTurns ==
  ASSUME Queueing, Collecting, Turn
  PROVE  Collecting'
<1>1. ASSUME NEW to, NEW more, NEW entry \in Entry, CompletionTurn(to, more, entry)
      PROVE  Collecting'
  <2>1. CASE ~Stop
    <3>1. /\ Running /\ Conclude(to, entry, postponed) /\ ~(Crosses(to) /\ ActiveCollection)
          /\ delivered' = delivered + Live(completion) /\ consumed' = consumed
      BY <1>1, <2>1 DEF CompletionTurn, Live, NoInput
    <3> QED
      BY <3>1, ConcludeCollects
  <2> QED
    BY <2>1, CollectingStops
<1>2. ASSUME NEW to, NEW more, NEW reply, NEW entry \in Entry, ContinuationTurn(to, more, reply, entry)
      PROVE  Collecting'
  <2>1. CASE ~Stop
    <3>1. /\ Running /\ Conclude(to, entry, postponed) /\ ~(Crosses(to) /\ ActiveCollection)
          /\ delivered' = delivered /\ completion = None /\ consumed' = consumed
      BY <1>2, <2>1 DEF ContinuationTurn, NoInput
    <3>2. delivered' = delivered + Live(completion)
      BY <3>1 DEF Live, Collecting, CollectionTypes
    <3> QED
      BY <3>1, <3>2, ConcludeCollects
  <2> QED
    BY <2>1, CollectingStops
<1>3. ASSUME NEW id, NEW to, NEW entry, NEW held, Dispatches(id), Conclude(to, entry, held),
             Crosses(to) => entry \in Entry /\ ~ActiveCollection, UNCHANGED delivered,
             consumed \subseteq consumed'
      PROVE  Collecting'
  <2>1. Running /\ completion = None
    BY <1>3 DEF Dispatches
  <2>2. delivered' = delivered + Live(completion)
    BY <1>3, <2>1 DEF Live, Collecting, CollectionTypes
  <2> QED
    BY <1>3, <2>1, <2>2, ConcludeCollects
<1>4. ASSUME NEW id, NEW to, NEW entry \in Entry, PostponeTurn(id, to, entry)
      PROVE  Collecting'
  <2>1. CASE ~Stop
    <3>1. /\ Dispatches(id) /\ Conclude(to, entry, postponed \cup {id}) /\ (Crosses(to) => ~ActiveCollection)
          /\ UNCHANGED delivered /\ consumed' = consumed
      BY <1>4, <2>1 DEF PostponeTurn, NoRequest, KeepMessage
    <3> QED
      BY <1>3, <3>1
  <2> QED
    BY <2>1, CollectingStops
<1>5. ASSUME NEW id, NEW to, NEW more, NEW reply, NEW entry \in Entry, ConsumeTurn(id, to, more, reply, entry)
      PROVE  Collecting'
  <2>1. CASE ~Stop
    <3>1. /\ Dispatches(id) /\ Conclude(to, entry, postponed) /\ (Crosses(to) => ~ActiveCollection)
          /\ UNCHANGED delivered /\ consumed' = consumed \cup {id}
      BY <1>5, <2>1 DEF ConsumeTurn, ConsumeMessage
    <3> QED
      BY <1>3, <3>1
  <2> QED
    BY <2>1, CollectingStops
<1>6. ASSUME NEW id, RefuseCall(id)
      PROVE  Collecting'
  <2>1. /\ Dispatches(id) /\ Conclude(phase, Nothing, postponed) /\ ~Crosses(phase)
        /\ UNCHANGED delivered /\ consumed' = consumed \cup {id}
    BY <1>6 DEF RefuseCall, ConsumeMessage, Crosses
  <2> QED
    BY <1>3, <2>1
<1>7. ASSUME NEW id, NEW offer \in Offers, ContributionTurn(id, offer)
      PROVE  Collecting'
  <2> DEFINE answer == OfferCollection(offer, id)
  <2>1. answer.result \in {"error", "mismatch", "pending", "complete"}
    BY OfferOutcome
  <2>2. CASE answer.result \in {"pending", "complete"}
    BY <1>7, <2>2, ContributionCollects
  <2> HIDE DEF answer
  <2>3. CASE answer.result = "error"
    <3>1. Stop
      BY <1>7, <2>3 DEF ContributionTurn, answer
    <3> QED
      BY <3>1, CollectingStops
  <2>4. CASE answer.result = "mismatch"
    <3>1. /\ KeepMessage /\ NoRequest
          /\ UNCHANGED <<status, completion, reduction, gather, opened, accepted, population>>
      BY <1>7, <2>4 DEF ContributionTurn, answer
    <3> QED
      BY <3>1, CollectingRests DEF KeepMessage, NoRequest, Lives
  <2> QED
    BY <2>1, <2>2, <2>3, <2>4
<1>8. CASE Settle
  BY <1>8, CollectingRests DEF Settle, history, Running, Lives
<1>9. ASSUME NEW id, ExhaustHandles(id)
      PROVE  Collecting'
  BY <1>9, CollectingStops DEF ExhaustHandles
<1>10. CASE CallbackFails
  BY <1>10, CollectingStops DEF CallbackFails
<1> QED
  BY <1>1, <1>2, <1>4, <1>5, <1>6, <1>7, <1>8, <1>9, <1>10 DEF Turn

LEMMA CollectingKept == Queueing /\ Collecting /\ [Next]_vars => Collecting'
<1> SUFFICES ASSUME Queueing, Collecting, [Next]_vars PROVE Collecting'
  OBVIOUS
<1>1. ASSUME NEW kind, Arrive(kind) PROVE Collecting'
  <2>1. CASE Enqueued(kind, mailbox)
    <3>1. /\ UNCHANGED <<accepted, opened, delivered, reduction, gather, completion, population, consumed>>
          /\ status' = IF status = "idle" THEN "busy" ELSE status
      BY <2>1 DEF Enqueued
    <3> QED
      BY <3>1, CollectingRests DEF Lives
  <2> QED
    BY <1>1, <2>1, CollectingStops DEF Arrive, Enqueue
<1>2. ASSUME NEW entry \in Entry, Connect(entry) PROVE Collecting'
  <2>1. /\ Lives /\ EnterPhase(entry) /\ reduction = None /\ gather = None /\ completion = None
        /\ delivered' = delivered /\ consumed' = consumed /\ delivered \in Nat
    BY <1>2 DEF Connect, Collecting, Lives, CollectionTypes
  <2>2. delivered' = delivered + Live(completion)
    BY <2>1 DEF Live
  <2> QED
    BY <2>1, <2>2, EntryCollects
<1>3. CASE Turn
  BY <1>3, CollectingTurns
<1>4. CASE UNCHANGED vars
  BY <1>4, CollectingRests DEF vars, runtime, history, Lives
<1> QED
  BY <1>1, <1>2, <1>3, <1>4 DEF Next

LEMMA CollectingHolds == Spec => []Collecting
<1> QED
  BY CollectingStart, CollectingKept, QueueingHolds, PTL DEF Spec

\* No collection is lost or doubled, and a completion holds exactly what was
\* accepted: each expected member once, or the count, and no value of a reducer
\* that raised (active_collection_error/1, hls_reduction, hls_indexed_gather).
THEOREM CompletionsAreExact == Spec => []CompletionExact
<1>1. Collecting => CompletionExact
  <2> SUFFICES ASSUME Collecting, Lives PROVE CollectionsAccounted /\ (completion # None => CompletionHolds)
    BY DEF CompletionExact
  <2>1. Tallies
    BY DEF Collecting
  <2>2. CollectionsAccounted
    BY <2>1 DEF Tallies, CollectionsAccounted, Live
  <2>3. ASSUME completion # None PROVE CompletionHolds
    BY <2>1, <2>3 DEF Tallies, Holds, CompletionHolds, Contributors, Contributed, By, Given
  <2> QED
    BY <2>2, <2>3
<1> QED
  BY <1>1, CollectingHolds, PTL

-----------------------------------------------------------------------------
(* Calls (hls_reply_book).                                                 *)

Owed(b) == {b.callers[h] : h \in Handles(b)}
Said(list) == {list[n][1] : n \in 1 .. Len(list)}

\* Each handle was issued once and stands for one call; the calls in the book
\* differ, were taken from the mailbox and are not answered.
BookKept(b, given, done) ==
  /\ b = [next |-> b.next, callers |-> b.callers] /\ b.next \in Nat
  /\ Handles(b) \subseteq 0 .. b.next - 1 /\ Cardinality(Handles(b)) <= PendingCalls
  /\ given \subseteq Nat \X done /\ done \subseteq Nat
  /\ \A p \in given : p[1] < b.next
  /\ \A p, q \in given : p[1] = q[1] => p = q
  /\ \A h \in Handles(b) : <<h, b.callers[h]>> \in given
  /\ \A h, k \in Handles(b) : b.callers[h] = b.callers[k] => h = k

\* Every answer is the one that was meant, and no call has two.
AnswersKept(list, done) ==
  /\ list \in Seq(done \X done) /\ \A n \in 1 .. Len(list) : list[n][1] = list[n][2]
  /\ \A m, n \in 1 .. Len(list) : list[m][1] = list[n][1] => m = n

Calling ==
  /\ BookKept(book, issued, consumed) /\ AnswersKept(answers, consumed)
  /\ Said(answers) \cap Owed(book) = {}
  /\ calls \subseteq Waiting \ postponed

LEMMA HandlesFinite ==
  ASSUME NEW b, NEW given, NEW done, BookKept(b, given, done)
  PROVE  /\ IsFiniteSet(Handles(b)) /\ Cardinality(Handles(b)) \in Nat
         /\ Cardinality(Owed(b)) = Cardinality(Handles(b))
<1>1. IsFiniteSet(Handles(b)) /\ Cardinality(Handles(b)) \in Nat
  <2>1. 0 \in Int /\ b.next - 1 \in Int
    BY DEF BookKept
  <2>2. IsFiniteSet(0 .. b.next - 1)
    BY ONLY <2>1, FS_Interval
  <2> QED
    BY <2>2, FS_Subset, FS_CardinalityType DEF BookKept
<1>2. Cardinality(Owed(b)) = Cardinality(Handles(b))
  <2> DEFINE f == [h \in Handles(b) |-> b.callers[h]]
  <2>1. f \in Bijection(Handles(b), Owed(b))
    <3>1. f \in [Handles(b) -> Owed(b)]
      BY DEF Owed
    <3>2. \A h, k \in Handles(b) : f[h] = f[k] => h = k
      BY DEF BookKept
    <3>3. \A c \in Owed(b) : \E h \in Handles(b) : f[h] = c
      BY DEF Owed
    <3> HIDE DEF f
    <3> QED
      BY <3>1, <3>2, <3>3, Fun_IsBij
  <2>2. ExistsBijection(Handles(b), Owed(b))
    BY <2>1 DEF ExistsBijection
  <2> QED
    BY <1>1, <2>2, FS_Bijection
<1> QED
  BY <1>1, <1>2

LEMMA AnswersCounted ==
  ASSUME NEW list, NEW done, AnswersKept(list, done)
  PROVE  Cardinality(Said(list)) = Len(list)
<1> DEFINE S == 1 .. Len(list)  f == [n \in S |-> list[n][1]]
<1>1. Len(list) \in Nat
  BY DEF AnswersKept
<1>2. f \in [S -> Said(list)] /\ \A n \in S : f[n] = list[n][1]
  BY DEF Said
<1>3. \A m, n \in S : f[m] = f[n] => m = n
  BY <1>2 DEF AnswersKept
<1>4. \A x \in Said(list) : \E n \in S : f[n] = x
  BY <1>2 DEF Said
<1> HIDE DEF f
<1>5. ExistsBijection(S, Said(list))
  BY <1>2, <1>3, <1>4, Fun_IsBij DEF ExistsBijection
<1> QED
  BY <1>1, <1>5, FS_CountingElements

\* The book takes a call: admit/4.
LEMMA AdmitKeeps ==
  ASSUME NEW b, NEW given, NEW done, BookKept(b, given, done), NEW id \in Nat, id \notin done, ~Full(b)
  PROVE  /\ BookKept(Admit(b, id), given \cup {<<b.next, id>>}, done \cup {id})
         /\ Owed(Admit(b, id)) = Owed(b) \cup {id}
<1> DEFINE a == Admit(b, id)
<1>1. /\ a = [next |-> a.next, callers |-> a.callers] /\ a.next = b.next + 1
      /\ Handles(a) = Handles(b) \cup {b.next} /\ a.callers[b.next] = id
      /\ \A h \in Handles(b) \ {b.next} : a.callers[h] = b.callers[h]
  BY DEF Admit, Handles
<1>2. /\ b.next \in Nat /\ Handles(b) \subseteq 0 .. b.next - 1 /\ b.next \notin Handles(b)
      /\ \A h \in Handles(b) : <<h, b.callers[h]>> \in given /\ b.callers[h] \in done
      /\ \A p \in given : p[1] < b.next /\ p[1] \in Nat /\ p[2] \in done /\ p = <<p[1], p[2]>>
      /\ done \subseteq Nat
  BY DEF BookKept
<1> HIDE DEF a
<1>3. Cardinality(Handles(a)) <= PendingCalls
  <2>1. IsFiniteSet(Handles(b)) /\ Cardinality(Handles(b)) \in Nat
    BY HandlesFinite
  <2>2. Cardinality(Handles(a)) = Cardinality(Handles(b)) + 1
    BY <1>1, <1>2, <2>1, FS_AddElement
  <2>3. ~(Cardinality(Handles(b)) >= PendingCalls)
    BY DEF Full
  <2> QED
    BY <2>1, <2>2, <2>3, PendingCallsAssumption
<1>4. Handles(a) \subseteq 0 .. a.next - 1 /\ a.next \in Nat
  BY <1>1, <1>2
<1> DEFINE more == given \cup {<<b.next, id>>}
<1>5. more \subseteq Nat \X (done \cup {id}) /\ done \cup {id} \subseteq Nat
  BY <1>2 DEF BookKept
<1>6. \A p \in more : p[1] < a.next
  BY <1>1, <1>2
<1>7. \A p, q \in more : p[1] = q[1] => p = q
  <2>1. \A p, q \in given : p[1] = q[1] => p = q
    BY DEF BookKept
  <2>2. \A p \in given : p[1] # b.next
    BY <1>2
  <2> QED
    BY <2>1, <2>2
<1>8. \A h \in Handles(a) : <<h, a.callers[h]>> \in more
  BY <1>1, <1>2
<1>9. \A h, k \in Handles(a) : a.callers[h] = a.callers[k] => h = k
  <2>1. \A h, k \in Handles(b) : b.callers[h] = b.callers[k] => h = k
    BY DEF BookKept
  <2> QED
    BY <1>1, <1>2, <2>1
<1>10. Owed(a) = Owed(b) \cup {id}
  BY <1>1, <1>2 DEF Owed
<1> QED
  BY <1>1, <1>3, <1>4, <1>5, <1>6, <1>7, <1>8, <1>9, <1>10 DEF BookKept, a

\* The book loses the caller of a handle that it holds: complete/2.
LEMMA CompleteKeeps ==
  ASSUME NEW b, NEW given, NEW done, BookKept(b, given, done), NEW h \in Handles(b)
  PROVE  /\ BookKept(Complete(b, h), given, done)
         /\ Owed(Complete(b, h)) = Owed(b) \ {b.callers[h]}
<1> DEFINE a == Complete(b, h)
<1>1. /\ a = [next |-> a.next, callers |-> a.callers] /\ a.next = b.next
      /\ Handles(a) = Handles(b) \ {h} /\ \A k \in Handles(a) : a.callers[k] = b.callers[k]
  <2>1. b = [next |-> b.next, callers |-> b.callers]
    BY DEF BookKept
  <2> DEFINE left == [k \in Handles(b) \ {h} |-> b.callers[k]]
  <2>2. a = [next |-> b.next, callers |-> left]
    <3> HIDE DEF left
    <3> QED
      BY <2>1 DEF Complete, left
  <2> QED
    BY <2>2 DEF Handles
<1> HIDE DEF a
<1>2. Cardinality(Handles(a)) <= PendingCalls
  <2>1. IsFiniteSet(Handles(b)) /\ Cardinality(Handles(b)) \in Nat /\ Cardinality(Handles(b)) <= PendingCalls
    BY HandlesFinite DEF BookKept
  <2>2. Cardinality(Handles(a)) <= Cardinality(Handles(b)) /\ Cardinality(Handles(a)) \in Nat
    BY <1>1, <2>1, FS_Subset, FS_CardinalityType
  <2> QED
    BY <2>1, <2>2, PendingCallsAssumption
<1>3. Owed(a) = Owed(b) \ {b.callers[h]}
  BY <1>1 DEF Owed, BookKept
<1> QED
  BY <1>1, <1>2, <1>3 DEF BookKept, a

\* Taking more inputs from the mailbox disturbs nothing.
LEMMA MoreTaken ==
  ASSUME NEW b, NEW given, NEW list, NEW done, NEW more, BookKept(b, given, done), AnswersKept(list, done),
         done \subseteq more, more \subseteq Nat
  PROVE  BookKept(b, given, more) /\ AnswersKept(list, more)
<1>1. given \subseteq Nat \X more
  BY DEF BookKept
<1>2. list \in Seq(more \X more)
  <2> DEFINE S == done \X done  T == more \X more
  <2>1. list \in Seq(S) /\ S \subseteq T
    BY DEF AnswersKept
  <2> HIDE DEF S, T
  <2>2. Len(list) \in Nat /\ list \in [1 .. Len(list) -> S]
    BY <2>1
  <2>3. list \in [1 .. Len(list) -> T]
    BY <2>1, <2>2
  <2>4. list \in Seq(T)
    BY <2>2, <2>3
  <2> QED
    BY <2>4 DEF T
<1> QED
  BY <1>1, <1>2 DEF BookKept, AnswersKept

LEMMA AnswerAppended ==
  ASSUME NEW list, NEW done, AnswersKept(list, done), NEW c \in done, c \notin Said(list)
  PROVE  /\ AnswersKept(Append(list, <<c, c>>), done)
         /\ Said(Append(list, <<c, c>>)) = Said(list) \cup {c}
<1> DEFINE new == Append(list, <<c, c>>)
<1>1. list \in Seq(done \X done) /\ <<c, c>> \in done \X done
  BY DEF AnswersKept
<1>2. new \in Seq(done \X done)
  BY ONLY <1>1
<1>3. /\ Len(new) = Len(list) + 1 /\ Len(list) \in Nat /\ new[Len(list) + 1] = <<c, c>>
      /\ \A n \in 1 .. Len(list) : new[n] = list[n]
  BY <1>1
<1> HIDE DEF new
<1>4. \A n \in 1 .. Len(new) : n \in 1 .. Len(list) \/ n = Len(list) + 1
  BY <1>3
<1>5. \A n \in 1 .. Len(list) : list[n][1] # c
  BY DEF Said
<1>6. \A n \in 1 .. Len(new) : new[n][1] = new[n][2]
  BY <1>3, <1>4 DEF AnswersKept
<1>7. ASSUME NEW m \in 1 .. Len(new), NEW n \in 1 .. Len(new), new[m][1] = new[n][1]
      PROVE  m = n
  BY <1>3, <1>4, <1>5, <1>7 DEF AnswersKept
<1>8. Said(new) = Said(list) \cup {c}
  <2>1. \A n \in 1 .. Len(list) : n \in 1 .. Len(new)
    BY <1>3
  <2>2. Len(list) + 1 \in 1 .. Len(new)
    BY <1>3
  <2> QED
    BY <1>3, <1>4, <2>1, <2>2 DEF Said
<1> QED
  BY <1>2, <1>6, <1>7, <1>8 DEF AnswersKept, new

\* One call of the book may be answered.
AnswersOne(b) ==
  \/ Owed(book') = Owed(b) /\ Said(answers') = Said(answers)
  \/ \E c \in Owed(b) : Owed(book') = Owed(b) \ {c} /\ Said(answers') = Said(answers) \cup {c}

\* AnswersOne, as one set of answers.
LEMMA AnswersAtMostOne ==
  ASSUME NEW b, NEW owed, Owed(b) = owed, AnswersOne(b)
  PROVE  \E done \in SUBSET owed :
           /\ Cardinality(done) <= 1
           /\ Owed(book') = owed \ done /\ Said(answers') = Said(answers) \cup done
<1>1. CASE Owed(book') = Owed(b) /\ Said(answers') = Said(answers)
  <2>1. Cardinality({}) <= 1 /\ {} \in SUBSET owed
    BY FS_EmptySet
  <2>2. Owed(book') = owed \ {} /\ Said(answers') = Said(answers) \cup {}
    BY <1>1
  <2> QED
    BY <2>1, <2>2
<1>2. ASSUME NEW c \in Owed(b), Owed(book') = Owed(b) \ {c}, Said(answers') = Said(answers) \cup {c}
      PROVE  \E done \in SUBSET owed :
               /\ Cardinality(done) <= 1
               /\ Owed(book') = owed \ done /\ Said(answers') = Said(answers) \cup done
  <2>1. Cardinality({c}) = 1
    BY FS_Singleton
  <2>2. Cardinality({c}) <= 1 /\ {c} \in SUBSET owed
    BY <2>1
  <2> QED
    BY <1>2, <2>2
<1> QED
  BY <1>1, <1>2 DEF AnswersOne

\* A reply of the application: complete_reply/2.
LEMMA ReplyKeeps ==
  ASSUME NEW b, NEW given, NEW done, BookKept(b, given, done), AnswersKept(answers, done),
         Said(answers) \cap Owed(b) = {}, NEW reply \in {None} \cup given, Reply(reply, b)
  PROVE  /\ BookKept(book', given, done) /\ AnswersKept(answers', done)
         /\ Said(answers') \cap Owed(book') = {} /\ AnswersOne(b)
<1>1. CASE reply = None \/ reply[1] \notin Handles(b)
  BY <1>1 DEF Reply, AnswersOne
<1>2. CASE ~(reply = None \/ reply[1] \notin Handles(b))
  <2> DEFINE h == reply[1]  c == b.callers[h]
  <2>1. h \in Handles(b) /\ book' = Complete(b, h) /\ answers' = Append(answers, <<c, reply[2]>>)
    BY <1>2 DEF Reply
  <2>2. reply = <<h, c>> /\ c \in done
    BY <1>2, <2>1 DEF BookKept
  <2>3. c \in Owed(b) /\ c \notin Said(answers) /\ reply[2] = c
    BY <2>1, <2>2 DEF Owed
  <2> HIDE DEF h, c
  <2>4. BookKept(book', given, done) /\ Owed(book') = Owed(b) \ {c}
    BY <2>1, CompleteKeeps DEF c
  <2>5. AnswersKept(answers', done) /\ Said(answers') = Said(answers) \cup {c}
    BY <2>1, <2>2, <2>3, AnswerAppended
  <2> QED
    BY <2>3, <2>4, <2>5 DEF AnswersOne
<1> QED
  BY <1>1, <1>2

\* The calls that wait, after an input was dispatched.
LEMMA CallsWait ==
  ASSUME Queueing, calls \subseteq Waiting \ postponed, NEW id, NEW held, Dispatches(id), Takes(id, held),
         KeepMessage => id \notin calls, Boundary(held)
  PROVE  /\ calls' = calls \ {id} /\ calls' \subseteq Waiting' \ postponed'
         /\ consumed \subseteq consumed' /\ consumed' \subseteq consumed \cup {id} /\ consumed' \subseteq Nat
         /\ id \in Nat /\ id \notin consumed
<1>1. id \in Nat /\ id \in Waiting /\ id \notin consumed /\ consumed \subseteq Nat
  BY OldestEligible DEF Queueing, InputsAccounted
<1>2. /\ calls' = calls \ {id} /\ consumed \subseteq consumed' /\ consumed' \subseteq consumed \cup {id}
  BY DEF Takes, ConsumeMessage, KeepMessage
<1>3. Waiting' \ held = (Waiting \ postponed) \ {id}
  BY TakesInput
<1>4. postponed' \subseteq held
  BY DEF Boundary
<1> QED
  BY <1>1, <1>2, <1>3, <1>4

-----------------------------------------------------------------------------
(* The steps, as the callers see them.                                     *)

OwnerStep == [Ownership!Next]_Ownership!vars

LEMMA OwnerViews ==
  /\ Retained = Owed(book) /\ Answered = Said(answers)
  /\ Retained' = Owed(book') /\ Answered' = Said(answers')
BY DEF Retained, Answered, Owed, Said

\* The callers see nothing.
LEMMA CallingRests ==
  ASSUME Calling, UNCHANGED <<book, issued, answers, calls>>, calls' \subseteq Waiting' \ postponed',
         consumed \subseteq consumed', consumed' \subseteq Nat
  PROVE  Calling' /\ OwnerStep
<1>1. BookKept(book', issued', consumed') /\ AnswersKept(answers', consumed')
  BY MoreTaken DEF Calling
<1>2. Said(answers') \cap Owed(book') = {}
  BY DEF Calling
<1>3. Calling'
  BY <1>1, <1>2 DEF Calling, BookKept, AnswersKept, Said, Owed
<1>4. UNCHANGED Ownership!vars
  BY OwnerViews DEF Ownership!vars
<1> QED
  BY <1>3, <1>4 DEF OwnerStep

LEMMA SameCardinality ==
  ASSUME NEW set
  PROVE  Ownership!Cardinality(set) = Cardinality(set)
BY DEF Ownership!Cardinality, Cardinality

LEMMA OwedTaken ==
  ASSUME NEW b, NEW given, NEW done, BookKept(b, given, done), NEW c \in Owed(b)
  PROVE  c \in done
<1>1. PICK h \in Handles(b) : c = b.callers[h]
  BY DEF Owed
<1>2. <<h, c>> \in given /\ given \subseteq Nat \X done
  BY <1>1 DEF BookKept
<1>3. <<h, c>> \in Nat \X done
  BY <1>2
<1> QED
  BY <1>3

\* At most one call that is owed is answered; nothing else happens to calls.
LEMMA CallingAnswers ==
  ASSUME Queueing, Calling, NEW reply \in {None} \cup issued, Reply(reply, book),
         UNCHANGED <<issued, calls>>, calls' \subseteq Waiting' \ postponed',
         consumed \subseteq consumed', consumed' \subseteq Nat
  PROVE  Calling' /\ OwnerStep
<1>1. /\ BookKept(book', issued, consumed) /\ AnswersKept(answers', consumed)
      /\ Said(answers') \cap Owed(book') = {} /\ AnswersOne(book)
  BY ReplyKeeps DEF Calling
<1>2. BookKept(book', issued', consumed') /\ AnswersKept(answers', consumed')
  <2>1. issued' = issued
    OBVIOUS
  <2> QED
    BY <1>1, <2>1, MoreTaken
<1>3. Calling'
  BY <1>1, <1>2 DEF Calling, BookKept, AnswersKept, Said, Owed
<1>4. CASE Owed(book') = Owed(book) /\ Said(answers') = Said(answers)
  BY <1>3, <1>4, OwnerViews DEF OwnerStep, Ownership!vars
<1>5. ASSUME NEW c \in Owed(book), Owed(book') = Owed(book) \ {c}, Said(answers') = Said(answers) \cup {c}
      PROVE  OwnerStep
  <2>1. c \in Ids
    <3>1. c \in consumed
      BY OwedTaken DEF Calling
    <3>2. c \in 0 .. nextId - 1 /\ nextId \in Nat /\ nextId <= MaxMessages /\ MaxMessages \in Nat
      BY <3>1, CapacityAssumption DEF Queueing, InputsAccounted
    <3> QED
      BY <3>2 DEF Ids
  <2>2. Ownership!Answer(c)
    BY <1>5, OwnerViews DEF Ownership!Answer
  <2>3. Ownership!Next
    BY <2>1, <2>2 DEF Ownership!Next
  <2> QED
    BY <2>3 DEF OwnerStep
<1> QED
  BY <1>1, <1>3, <1>4, <1>5 DEF AnswersOne

\* The calls that wait are taken oldest first.
LEMMA OldestCall ==
  ASSUME Queueing, Calling, NEW id, Dispatches(id), id \in calls
  PROVE  Ownership!Oldest(id) /\ id \in Ids
<1>1. /\ id \in Nat /\ id < nextId /\ \A other \in Waiting \ postponed : id <= other
  BY OldestEligible
<1>2. calls \subseteq Waiting \ postponed
  BY DEF Calling
<1>3. nextId <= MaxMessages /\ MaxMessages \in Nat /\ nextId \in Nat
  BY CapacityAssumption DEF Queueing
<1>4. \A d \in calls : id <= d
  BY <1>1, <1>2
<1> QED
  BY <1>1, <1>3, <1>4 DEF Ownership!Oldest, Ids

\* A call that finds the book full is refused: invoke_message/3.
LEMMA CallingRefuses ==
  ASSUME Queueing, Calling, NEW id, RefuseCall(id)
  PROVE  Calling' /\ OwnerStep
<1>1. /\ Dispatches(id) /\ id \in calls /\ Full(book) /\ answers' = Append(answers, <<id, id>>)
      /\ ConsumeMessage(id) /\ Conclude(phase, Nothing, postponed) /\ UNCHANGED <<book, issued>>
  BY DEF RefuseCall
<1>2. /\ calls' = calls \ {id} /\ calls' \subseteq Waiting' \ postponed'
      /\ consumed \subseteq consumed' /\ consumed' \subseteq Nat /\ id \in Nat /\ id \notin consumed
      /\ consumed' = consumed \cup {id}
  <2>1. Boundary(postponed) /\ Takes(id, postponed)
    BY <1>1, ConcludeBoundary DEF Takes
  <2>2. KeepMessage => id \notin calls
    BY <1>1 DEF KeepMessage, ConsumeMessage
  <2>3. calls \subseteq Waiting \ postponed
    BY DEF Calling
  <2>4. consumed' = consumed \cup {id}
    BY <1>1 DEF ConsumeMessage
  <2> QED
    BY <1>1, <2>1, <2>2, <2>3, <2>4, CallsWait
<1>3. BookKept(book, issued, consumed') /\ AnswersKept(answers, consumed')
  BY <1>2, MoreTaken DEF Calling
<1>4. id \notin Said(answers) /\ id \notin Owed(book)
  <2>1. \A c \in Owed(book) : c \in consumed
    BY OwedTaken DEF Calling
  <2>2. \A n \in 1 .. Len(answers) : answers[n][1] \in consumed
    BY DEF Calling, AnswersKept
  <2> QED
    BY <1>2, <2>1, <2>2 DEF Said
<1>5. AnswersKept(answers', consumed') /\ Said(answers') = Said(answers) \cup {id}
  BY <1>1, <1>2, <1>3, <1>4, AnswerAppended
<1>6. Calling'
  <2>1. Said(answers') \cap Owed(book') = {}
    BY <1>1, <1>4, <1>5 DEF Calling
  <2>2. BookKept(book', issued', consumed')
    BY <1>1, <1>3
  <2> QED
    BY <1>2, <1>5, <2>1, <2>2 DEF Calling, BookKept, AnswersKept, Said, Owed
<1>7. Cardinality(Owed(book)) = PendingCalls
  <2>1. Cardinality(Handles(book)) \in Nat /\ Cardinality(Owed(book)) = Cardinality(Handles(book))
    BY HandlesFinite DEF Calling
  <2>2. Cardinality(Handles(book)) >= PendingCalls /\ Cardinality(Handles(book)) <= PendingCalls
    BY <1>1 DEF Full, Calling, BookKept
  <2> QED
    BY <2>1, <2>2, PendingCallsAssumption
<1>8. Ownership!Refuse(id)
  <2>1. Ownership!Oldest(id)
    BY <1>1, OldestCall
  <2> QED
    <3>1. Ownership!Cardinality(Retained) = PendingCalls
      BY <1>7, OwnerViews, SameCardinality
    <3>2. Retained' = Retained /\ Answered' = Answered \cup {id} /\ calls' = calls \ {id}
      BY <1>1, <1>2, <1>5, OwnerViews
    <3> QED
      BY ONLY <2>1, <3>1, <3>2 DEF Ownership!Refuse
<1>9. Ownership!Next
  BY <1>1, <1>8, OldestCall DEF Ownership!Next
<1> QED
  BY <1>6, <1>9 DEF OwnerStep

\* The application takes a call and may answer one it was given, this one
\* included: process_message/3 with consume.
LEMMA CallingTakes ==
  ASSUME Queueing, Calling, NEW id, Dispatches(id), id \in calls, ~Full(book), ConsumeMessage(id),
         Boundary(postponed), issued' = issued \cup {<<book.next, id>>},
         NEW reply \in {None} \cup issued', Reply(reply, Admit(book, id))
  PROVE  Calling' /\ OwnerStep
<1>1. /\ calls' = calls \ {id} /\ calls' \subseteq Waiting' \ postponed'
      /\ id \in Nat /\ id \notin consumed /\ consumed' = consumed \cup {id} /\ consumed' \subseteq Nat
  <2>1. Takes(id, postponed)
    BY DEF Takes
  <2>2. KeepMessage => id \notin calls
    BY DEF KeepMessage, ConsumeMessage
  <2>3. calls \subseteq Waiting \ postponed
    BY DEF Calling
  <2>4. consumed' = consumed \cup {id}
    BY DEF ConsumeMessage
  <2> QED
    BY <2>1, <2>2, <2>3, <2>4, CallsWait
<1> DEFINE b == Admit(book, id)
<1>2. BookKept(b, issued', consumed') /\ Owed(b) = Owed(book) \cup {id}
  BY <1>1, AdmitKeeps DEF Calling
<1>3. AnswersKept(answers, consumed') /\ Said(answers) \cap Owed(b) = {}
  <2>1. \A n \in 1 .. Len(answers) : answers[n][1] \in consumed
    BY DEF Calling, AnswersKept
  <2>2. id \notin Said(answers)
    BY <1>1, <2>1 DEF Said
  <2>3. AnswersKept(answers, consumed')
    BY <1>1, MoreTaken DEF Calling
  <2> QED
    BY <1>2, <2>2, <2>3 DEF Calling
<1> HIDE DEF b
<1>4. /\ BookKept(book', issued', consumed') /\ AnswersKept(answers', consumed')
      /\ Said(answers') \cap Owed(book') = {} /\ AnswersOne(b)
  BY <1>2, <1>3, ReplyKeeps DEF b
<1>5. Calling'
  BY <1>1, <1>4 DEF Calling, BookKept, AnswersKept, Said, Owed
<1>6. Cardinality(Owed(book)) < PendingCalls
  <2>1. Cardinality(Handles(book)) \in Nat /\ Cardinality(Owed(book)) = Cardinality(Handles(book))
    BY HandlesFinite DEF Calling
  <2> QED
    BY <2>1, PendingCallsAssumption DEF Full
<1>7. \E done \in SUBSET (Owed(book) \cup {id}) :
        /\ Cardinality(done) <= 1
        /\ Owed(book') = (Owed(book) \cup {id}) \ done /\ Said(answers') = Said(answers) \cup done
  BY <1>2, <1>4, AnswersAtMostOne
<1>8. Ownership!Take(id)
  <2>1. Ownership!Oldest(id)
    BY OldestCall
  <2> QED
    <3>1. Ownership!Cardinality(Retained) < PendingCalls
      BY <1>6, OwnerViews, SameCardinality
    <3>2. \E done \in SUBSET (Retained \cup {id}) :
            /\ Ownership!Cardinality(done) <= 1
            /\ Retained' = (Retained \cup {id}) \ done /\ Answered' = Answered \cup done
      BY ONLY <1>7, OwnerViews, SameCardinality
    <3>3. calls' = calls \ {id}
      BY <1>1
    <3> QED
      BY ONLY <2>1, <3>1, <3>2, <3>3 DEF Ownership!Take
<1>9. Ownership!Next
  BY <1>8, OldestCall DEF Ownership!Next
<1> QED
  BY <1>5, <1>9 DEF OwnerStep

LEMMA CallingStops ==
  ASSUME Queueing, Calling, Stop
  PROVE  Calling' /\ OwnerStep
<1>1. UNCHANGED <<book, issued, answers, calls, mailbox, postponed, consumed>>
  BY DEF Stop, history
<1>2. calls' \subseteq Waiting' \ postponed' /\ consumed' \subseteq Nat
  BY <1>1 DEF Calling, Waiting, BookKept
<1> QED
  BY <1>1, <1>2, CallingRests

\* A private event leaves the mailbox alone.
LEMMA CallsStay ==
  ASSUME Calling, UNCHANGED <<mailbox, calls, consumed>>, Boundary(postponed)
  PROVE  calls' \subseteq Waiting' \ postponed' /\ consumed \subseteq consumed' /\ consumed' \subseteq Nat
BY DEF Calling, Waiting, BookKept, Boundary

LEMMA CallingTurns ==
  ASSUME Queueing, Calling, Turn
  PROVE  Calling' /\ OwnerStep
<1>1. ASSUME NEW to, NEW more, NEW entry, CompletionTurn(to, more, entry)
      PROVE  Calling' /\ OwnerStep
  <2>1. CASE ~Stop
    <3>1. /\ Conclude(to, entry, postponed)
          /\ UNCHANGED <<book, issued, answers, calls, mailbox, consumed>>
      BY <1>1, <2>1 DEF CompletionTurn, NoInput
    <3> QED
      BY <3>1, ConcludeBoundary, CallsStay, CallingRests
  <2> QED
    BY <2>1, CallingStops
<1>2. ASSUME NEW to, NEW more, NEW reply \in {None} \cup issued, NEW entry,
             ContinuationTurn(to, more, reply, entry)
      PROVE  Calling' /\ OwnerStep
  <2>1. CASE ~Stop
    <3>1. /\ Conclude(to, entry, postponed) /\ Reply(reply, book)
          /\ UNCHANGED <<issued, calls, mailbox, consumed>>
      BY <1>2, <2>1 DEF ContinuationTurn, NoInput
    <3> QED
      BY <3>1, ConcludeBoundary, CallsStay, CallingAnswers
  <2> QED
    BY <2>1, CallingStops
<1>3. ASSUME NEW id, NEW held, Dispatches(id), id \notin calls, Takes(id, held), Boundary(held)
      PROVE  /\ calls' = calls /\ calls' \subseteq Waiting' \ postponed'
             /\ consumed \subseteq consumed' /\ consumed' \subseteq Nat
  <2>1. calls \subseteq Waiting \ postponed
    BY DEF Calling
  <2>2. /\ calls' = calls \ {id} /\ calls' \subseteq Waiting' \ postponed'
        /\ consumed \subseteq consumed' /\ consumed' \subseteq Nat
    BY <1>3, <2>1, CallsWait
  <2> QED
    BY <1>3, <2>2
<1>4. ASSUME NEW id, NEW to, NEW entry, PostponeTurn(id, to, entry)
      PROVE  Calling' /\ OwnerStep
  <2>1. CASE ~Stop
    <3>1. /\ Dispatches(id) /\ id \notin calls /\ KeepMessage /\ Conclude(to, entry, postponed \cup {id})
          /\ UNCHANGED <<book, issued, answers>>
      BY <1>4, <2>1 DEF PostponeTurn, NoRequest
    <3>2. Takes(id, postponed \cup {id}) /\ Boundary(postponed \cup {id})
      BY <3>1, ConcludeBoundary DEF Takes
    <3> QED
      BY <1>3, <3>1, <3>2, CallingRests
  <2> QED
    BY <2>1, CallingStops
<1>5. ASSUME NEW id, NEW to, NEW more, NEW reply \in {None} \cup Known(id), NEW entry,
             ConsumeTurn(id, to, more, reply, entry)
      PROVE  Calling' /\ OwnerStep
  <2>1. CASE ~Stop
    <3>1. /\ Dispatches(id) /\ ConsumeMessage(id) /\ Conclude(to, entry, postponed)
          /\ issued' = Known(id) /\ Reply(reply, IF id \in calls THEN Admit(book, id) ELSE book)
          /\ id \in calls => ~Full(book)
      BY <1>5, <2>1 DEF ConsumeTurn
    <3>2. Takes(id, postponed) /\ Boundary(postponed)
      BY <3>1, ConcludeBoundary DEF Takes
    <3>3. CASE id \in calls
      <4>1. issued' = issued \cup {<<book.next, id>>} /\ Reply(reply, Admit(book, id)) /\ ~Full(book)
            /\ reply \in {None} \cup issued'
        BY <3>1, <3>3 DEF Known
      <4> QED
        BY <3>1, <3>2, <3>3, <4>1, CallingTakes
    <3>4. CASE id \notin calls
      <4>1. issued' = issued /\ Reply(reply, book) /\ reply \in {None} \cup issued
        BY <3>1, <3>4 DEF Known
      <4> QED
        BY <1>3, <3>1, <3>2, <3>4, <4>1, CallingAnswers
    <3> QED
      BY <3>3, <3>4
  <2> QED
    BY <2>1, CallingStops
<1>6. ASSUME NEW id, RefuseCall(id)
      PROVE  Calling' /\ OwnerStep
  BY <1>6, CallingRefuses
<1>7. ASSUME NEW id, NEW offer \in Offers, ContributionTurn(id, offer)
      PROVE  Calling' /\ OwnerStep
  <2>1. Dispatches(id) /\ id \notin calls
    BY <1>7 DEF ContributionTurn
  <2>2. CASE Stop
    BY <2>2, CallingStops
  <2>3. CASE KeepMessage /\ postponed' = postponed \cup {id} /\ NoRequest /\ UNCHANGED epoch
    <3>1. Takes(id, postponed \cup {id}) /\ Boundary(postponed \cup {id})
      BY <2>3 DEF Takes, Boundary
    <3> QED
      BY <1>3, <2>1, <2>3, <3>1, CallingRests DEF NoRequest
  <2>4. CASE ConsumeMessage(id) /\ NoRequest /\ UNCHANGED <<postponed, epoch>>
    <3>1. Takes(id, postponed) /\ Boundary(postponed)
      BY <2>4 DEF Takes, Boundary
    <3> QED
      BY <1>3, <2>1, <2>4, <3>1, CallingRests DEF NoRequest
  <2> QED
    BY <1>7, <2>2, <2>3, <2>4, ContributionEnds
<1>8. CASE Settle
  <2>1. UNCHANGED <<book, issued, answers, calls, mailbox, consumed, postponed, epoch>>
    BY <1>8 DEF Settle, history
  <2>2. Boundary(postponed)
    BY <2>1 DEF Boundary
  <2> QED
    BY <2>1, <2>2, CallsStay, CallingRests
<1>9. ASSUME NEW id, ExhaustHandles(id)
      PROVE  Calling' /\ OwnerStep
  BY <1>9, CallingStops DEF ExhaustHandles
<1>10. CASE CallbackFails
  BY <1>10, CallingStops DEF CallbackFails
<1> QED
  BY <1>1, <1>2, <1>4, <1>5, <1>6, <1>7, <1>8, <1>9, <1>10 DEF Turn

LEMMA CallingArrives ==
  ASSUME Queueing, Calling, NEW kind, Arrive(kind)
  PROVE  Calling' /\ OwnerStep
<1>1. CASE Stop
  BY <1>1, CallingStops
<1>2. CASE Enqueued(kind, mailbox)
  <2>1. /\ mailbox' = Append(mailbox, nextId) /\ nextId < MaxMessages
        /\ calls' = IF kind = "call" THEN calls \cup {nextId} ELSE calls
        /\ UNCHANGED <<postponed, book, issued, answers, consumed>>
    BY <1>2 DEF Enqueued, Arrive
  <2>2. /\ mailbox \in Seq(Nat) /\ nextId \in Nat /\ MaxMessages \in Nat /\ consumed \subseteq Nat
        /\ Waiting \cup consumed = 0 .. nextId - 1 /\ postponed \subseteq Waiting
    BY CapacityAssumption DEF Queueing, InputsAccounted, Dispatching
  <2>3. Waiting' = Waiting \cup {nextId}
    <3>1. Len(mailbox') = Len(mailbox) + 1 /\ mailbox'[Len(mailbox) + 1] = nextId
          /\ \A n \in 1 .. Len(mailbox) : mailbox'[n] = mailbox[n]
      BY <2>1, <2>2
    <3>2. Len(mailbox) \in Nat
      BY <2>2
    <3>3. \A n \in 1 .. Len(mailbox') : n \in 1 .. Len(mailbox) \/ n = Len(mailbox) + 1
      BY <3>1, <3>2
    <3>4. Len(mailbox) + 1 \in 1 .. Len(mailbox') /\ \A n \in 1 .. Len(mailbox) : n \in 1 .. Len(mailbox')
      BY <3>1, <3>2
    <3> QED
      BY <3>1, <3>3, <3>4 DEF Waiting
  <2>4. nextId \notin Waiting \cup consumed /\ nextId \notin postponed
    BY <2>2
  <2>5. calls' \subseteq Waiting' \ postponed'
    BY <2>1, <2>3, <2>4 DEF Calling
  <2>6. CASE kind # "call"
    BY <2>1, <2>2, <2>5, <2>6, CallingRests
  <2>7. CASE kind = "call"
    <3>1. calls' = calls \cup {nextId}
      BY <2>1, <2>7
    <3>2. Calling'
      <4>1. BookKept(book', issued', consumed') /\ AnswersKept(answers', consumed')
            /\ Said(answers') \cap Owed(book') = {}
        BY <2>1 DEF Calling
      <4> QED
        BY <2>5, <4>1 DEF Calling, BookKept, AnswersKept, Said, Owed
    <3>3. nextId \notin calls \cup Retained \cup Answered
      <4>1. \A c \in Owed(book) : c \in consumed
        BY OwedTaken DEF Calling
      <4>2. \A n \in 1 .. Len(answers) : answers[n][1] \in consumed
        BY DEF Calling, AnswersKept
      <4>3. nextId \notin calls
        BY <2>4 DEF Calling
      <4> QED
        BY <2>4, <4>1, <4>2, <4>3, OwnerViews DEF Said
    <3>4. UNCHANGED <<Retained, Answered>>
      BY <2>1, OwnerViews
    <3>5. Ownership!Ask(nextId) /\ nextId \in Ids
      BY <2>1, <2>2, <3>1, <3>3, <3>4 DEF Ownership!Ask, Ids
    <3>6. Ownership!Next
      BY <3>5 DEF Ownership!Next
    <3> QED
      BY <3>2, <3>6 DEF OwnerStep
  <2> QED
    BY <2>6, <2>7
<1> QED
  BY <1>1, <1>2 DEF Arrive, Enqueue

LEMMA CallingKept == Queueing /\ Calling /\ [Next]_vars => Calling' /\ OwnerStep
<1> SUFFICES ASSUME Queueing, Calling, [Next]_vars PROVE Calling' /\ OwnerStep
  OBVIOUS
<1>1. ASSUME NEW kind, Arrive(kind) PROVE Calling' /\ OwnerStep
  BY <1>1, CallingArrives
<1>2. ASSUME NEW entry, Connect(entry) PROVE Calling' /\ OwnerStep
  <2>1. /\ UNCHANGED <<book, issued, answers, calls, mailbox, consumed, postponed>> /\ epoch' = epoch + 1
        /\ postponed = {}
    BY <1>2 DEF Connect, EnterPhase, Queueing
  <2>2. Boundary(postponed)
    BY <2>1 DEF Boundary
  <2> QED
    BY <2>1, <2>2, CallsStay, CallingRests
<1>3. CASE Turn
  BY <1>3, CallingTurns
<1>4. CASE UNCHANGED vars
  <2>1. UNCHANGED <<book, issued, answers, calls, mailbox, consumed, postponed, epoch>>
    BY <1>4 DEF vars, runtime, history
  <2>2. Boundary(postponed)
    BY <2>1 DEF Boundary
  <2> QED
    BY <2>1, <2>2, CallsStay, CallingRests
<1> QED
  BY <1>1, <1>2, <1>3, <1>4 DEF Next

LEMMA CallingStart == Init => Calling /\ Ownership!Init
<1> SUFFICES ASSUME Init PROVE Calling /\ Ownership!Init
  OBVIOUS
<1>1. /\ book = [next |-> 1, callers |-> <<>>] /\ issued = {} /\ answers = <<>> /\ calls = {} /\ consumed = {}
  BY DEF Init, NewBook
<1>2. Handles(book) = {} /\ Owed(book) = {} /\ Said(answers) = {}
  BY <1>1 DEF Handles, Owed, Said
<1>3. BookKept(book, issued, consumed)
  <2>1. Cardinality({}) <= PendingCalls
    BY FS_EmptySet, PendingCallsAssumption
  <2> QED
    BY <1>1, <1>2, <2>1 DEF BookKept
<1>4. AnswersKept(answers, consumed)
  BY <1>1 DEF AnswersKept
<1>5. Calling
  BY <1>1, <1>2, <1>3, <1>4 DEF Calling
<1>6. Ownership!Init
  BY <1>1, <1>2, OwnerViews DEF Ownership!Init
<1> QED
  BY <1>5, <1>6

\* The scheduler keeps its promise to callers: it takes calls oldest first,
\* gives each one answer, the one the application meant for it, and refuses a
\* call only while PendingCalls answers are owed (invoke_message/3,
\* complete_reply/2, hls_reply_book).  Every step is a step of CallOwnership or
\* leaves its variables alone.
THEOREM OwnershipIsKept == Spec => KeepsOwnership
<1>1. Calling => CallsAnsweredOnce
  <2> SUFFICES ASSUME Calling PROVE CallsAnsweredOnce
    OBVIOUS
  <2>1. AnswersKept(answers, consumed)
    BY DEF Calling
  <2>2. Cardinality(Said(answers)) = Len(answers)
    BY <2>1, AnswersCounted
  <2> QED
    BY <2>1, <2>2 DEF CallsAnsweredOnce, AnswersKept, Said
<1>2. Queueing /\ Calling /\ [Next]_vars => Calling'
  BY CallingKept
<1>3. Queueing /\ Calling /\ [Next]_vars => [Ownership!Next]_Ownership!vars
  BY CallingKept DEF OwnerStep
<1>4. Init => Calling /\ Ownership!Init
  BY CallingStart
<1> QED
  BY <1>1, <1>2, <1>3, <1>4, QueueingHolds, PTL DEF Spec, KeepsOwnership, Ownership!Spec

-----------------------------------------------------------------------------
(* The generic server: hls_gs with hls_gs_deferred, over the same book.    *)
(* Its queue is gen_server's; the book, the answers and the counter of     *)
(* arrivals are the ones above.                                            *)

VARIABLES running, queue, continue

Deferred == INSTANCE DeferredServer

\* It uses the same operators on the book.
LEMMA SameOperators ==
  ASSUME NEW b, NEW x
  PROVE  /\ Deferred!Cardinality(x) = Cardinality(x)
         /\ Deferred!Ownership!Cardinality(x) = Cardinality(x)
         /\ Deferred!Handles(b) = Handles(b) /\ Deferred!Full(b) = Full(b)
         /\ Deferred!Admit(b, x) = Admit(b, x)
         /\ Deferred!Reply(x, b) <=> Reply(x, b)
<1>1. Deferred!Cardinality(x) = Cardinality(x) /\ Deferred!Ownership!Cardinality(x) = Cardinality(x)
  BY DEF Deferred!Cardinality, Deferred!Ownership!Cardinality, Cardinality
<1>2. \A h : Deferred!Handles(b) = Handles(b) /\ Deferred!Complete(b, h) = Complete(b, h)
  BY DEF Deferred!Handles, Handles, Deferred!Complete, Complete
<1>3. Deferred!Cardinality(Handles(b)) = Cardinality(Handles(b))
  BY DEF Deferred!Cardinality, Cardinality
<1> QED
  BY <1>1, <1>2, <1>3 DEF Deferred!Full, Full, Deferred!Admit, Admit, Deferred!Reply, Reply

Kinds == {"call", "cast"}
Named(q) == {q[n][1] : n \in 1 .. Len(q)}
Asks(q) == {q[n][1] : n \in {m \in 1 .. Len(q) : q[m][2] = "call"}}

\* Messages lie in the order of their arrival.
QueueKept(q, n) ==
  /\ q \in Seq(Nat \X Kinds)
  /\ \A i, j \in 1 .. Len(q) : i < j => q[i][1] < q[j][1]
  /\ \A i \in 1 .. Len(q) : q[i][1] < n

\* The messages that the server took.
Taken(q, n) == (0 .. n - 1) \ Named(q)

Serving ==
  /\ nextId \in Nat /\ nextId <= MaxMessages /\ QueueKept(queue, nextId)
  /\ BookKept(book, issued, Taken(queue, nextId)) /\ AnswersKept(answers, Taken(queue, nextId))
  /\ Said(answers) \cap Owed(book) = {}

LEMMA MessageArrives ==
  ASSUME NEW q, NEW n \in Nat, QueueKept(q, n), NEW kind \in Kinds
  PROVE  /\ QueueKept(Append(q, <<n, kind>>), n + 1)
         /\ Taken(Append(q, <<n, kind>>), n + 1) = Taken(q, n)
         /\ Asks(Append(q, <<n, kind>>)) = Asks(q) \cup (IF kind = "call" THEN {n} ELSE {})
         /\ n \notin Asks(q)
<1> DEFINE new == Append(q, <<n, kind>>)
<1>1. q \in Seq(Nat \X Kinds) /\ <<n, kind>> \in Nat \X Kinds
  BY DEF QueueKept
<1>2. new \in Seq(Nat \X Kinds)
  BY ONLY <1>1
<1>3. /\ Len(new) = Len(q) + 1 /\ Len(q) \in Nat /\ new[Len(q) + 1] = <<n, kind>>
      /\ \A i \in 1 .. Len(q) : new[i] = q[i] /\ q[i] \in Nat \X Kinds
  BY <1>1
<1> HIDE DEF new
<1>4. /\ \A i \in 1 .. Len(new) : i \in 1 .. Len(q) \/ i = Len(q) + 1
      /\ \A i \in 1 .. Len(q) : i \in 1 .. Len(new)
      /\ Len(q) + 1 \in 1 .. Len(new)
  BY <1>3
<1>5. \A i \in 1 .. Len(q) : q[i][1] < n /\ q[i][1] \in Nat
  BY <1>3 DEF QueueKept
<1>6. QueueKept(new, n + 1)
  <2>1. \A i \in 1 .. Len(new) : new[i][1] < n + 1
    BY <1>3, <1>4, <1>5
  <2>2. ASSUME NEW i \in 1 .. Len(new), NEW j \in 1 .. Len(new), i < j
        PROVE  new[i][1] < new[j][1]
    <3>1. i \in 1 .. Len(q) /\ new[i] = q[i]
      BY <1>3, <2>2
    <3>2. CASE j \in 1 .. Len(q)
      <4>1. new[j] = q[j]
        BY <1>3, <3>2
      <4>2. q[i][1] < q[j][1]
        BY <2>2, <3>1, <3>2 DEF QueueKept
      <4> QED
        BY <3>1, <4>1, <4>2
    <3>3. CASE j = Len(q) + 1
      <4>1. new[j][1] = n
        BY <1>3, <3>3
      <4>2. q[i][1] < n
        BY <1>5, <3>1
      <4> QED
        BY <3>1, <4>1, <4>2
    <3> QED
      BY <1>4, <3>2, <3>3
  <2> QED
    BY <1>2, <2>1, <2>2 DEF QueueKept
<1>7. Named(new) = Named(q) \cup {n} /\ \A c \in Named(q) : c < n
  <2>1. Named(new) \subseteq Named(q) \cup {n}
    <3>1. ASSUME NEW i \in 1 .. Len(new)
          PROVE  new[i][1] \in Named(q) \cup {n}
      <4>1. CASE i \in 1 .. Len(q)
        BY <1>3, <4>1 DEF Named
      <4>2. CASE i = Len(q) + 1
        BY <1>3, <4>2
      <4> QED
        BY <1>4, <4>1, <4>2
    <3> QED
      BY <3>1 DEF Named
  <2>2. Named(q) \subseteq Named(new)
    <3>1. ASSUME NEW i \in 1 .. Len(q)
          PROVE  q[i][1] \in Named(new)
      BY <1>3, <1>4 DEF Named
    <3> QED
      BY <3>1 DEF Named
  <2>3. n \in Named(new)
    <3>1. new[Len(q) + 1][1] = n
      BY <1>3
    <3> QED
      BY <1>4, <3>1 DEF Named
  <2>4. \A c \in Named(q) : c < n
    BY <1>5 DEF Named
  <2> QED
    BY <2>1, <2>2, <2>3, <2>4
<1>8. Taken(new, n + 1) = Taken(q, n)
  BY <1>7 DEF Taken
<1>9. Asks(new) = Asks(q) \cup (IF kind = "call" THEN {n} ELSE {})
  BY <1>3, <1>4 DEF Asks
<1>10. n \notin Asks(q)
  BY <1>5 DEF Asks
<1> QED
  BY <1>6, <1>8, <1>9, <1>10 DEF new

LEMMA MessageLeaves ==
  ASSUME NEW q, NEW n \in Nat, QueueKept(q, n), q # <<>>
  PROVE  /\ QueueKept(Tail(q), n) /\ Head(q)[1] \in Nat /\ Head(q)[1] \notin Taken(q, n) /\ Head(q)[1] < n
         /\ Taken(Tail(q), n) = Taken(q, n) \cup {Head(q)[1]}
         /\ Asks(Tail(q)) = Asks(q) \ {Head(q)[1]}
         /\ Head(q)[2] = "call" => Head(q)[1] \in Asks(q) /\ \A d \in Asks(q) : Head(q)[1] <= d
         /\ Head(q)[2] = "cast" => Head(q)[1] \notin Asks(q)
<1> DEFINE new == Tail(q)  id == Head(q)[1]
<1>1. q \in Seq(Nat \X Kinds)
  BY DEF QueueKept
<1>2. new \in Seq(Nat \X Kinds) /\ Head(q) = q[1]
  BY <1>1
<1>3. /\ Len(new) = Len(q) - 1 /\ Len(q) \in Nat \ {0} /\ 1 \in 1 .. Len(q)
      /\ \A i \in 1 .. Len(new) : new[i] = q[i + 1]
      /\ \A i \in 1 .. Len(q) : q[i] \in Nat \X Kinds
  BY <1>1
<1> HIDE DEF new
<1>4. /\ \A i \in 1 .. Len(new) : i + 1 \in 1 .. Len(q)
      /\ \A i \in 1 .. Len(q) : i = 1 \/ (1 < i /\ i - 1 \in 1 .. Len(new) /\ i = (i - 1) + 1)
  BY <1>3
<1>5. /\ id \in Nat /\ id < n /\ id = q[1][1]
      /\ \A i \in 1 .. Len(q) : q[i][1] \in Nat /\ q[i][1] < n /\ (i # 1 => id < q[i][1])
  BY <1>2, <1>3, <1>4 DEF QueueKept
<1> HIDE DEF id
<1>6. QueueKept(new, n)
  <2>1. \A i, j \in 1 .. Len(new) : i < j => new[i][1] < new[j][1]
    <3>1. \A i, j \in 1 .. Len(new) : i < j => i + 1 < j + 1
      BY <1>3
    <3> QED
      BY <1>3, <1>4, <3>1 DEF QueueKept
  <2>2. \A i \in 1 .. Len(new) : new[i][1] < n
    BY <1>3, <1>4, <1>5
  <2> QED
    BY <1>2, <2>1, <2>2 DEF QueueKept
<1>7. \A i \in 1 .. Len(new) : id < new[i][1]
  <2>1. \A i \in 1 .. Len(new) : i + 1 # 1
    BY <1>3
  <2> QED
    BY <1>3, <1>4, <1>5, <2>1
<1>8. Named(q) = Named(new) \cup {id} /\ id \notin Named(new) /\ id \in Named(q)
  <2>1. Named(new) \subseteq Named(q)
    <3>1. ASSUME NEW i \in 1 .. Len(new)
          PROVE  i + 1 \in 1 .. Len(q) /\ new[i] = q[i + 1]
      BY <1>3, <1>4
    <3> QED
      BY <3>1 DEF Named
  <2>2. id \in Named(q)
    BY <1>3, <1>5 DEF Named
  <2>3. Named(q) \subseteq Named(new) \cup {id}
    <3> SUFFICES ASSUME NEW i \in 1 .. Len(q) PROVE q[i][1] \in Named(new) \cup {id}
      BY DEF Named
    <3>1. CASE i = 1
      BY <1>5, <3>1
    <3>2. CASE i - 1 \in 1 .. Len(new) /\ i = (i - 1) + 1
      <4>1. new[i - 1] = q[i]
        BY <1>3, <3>2
      <4> QED
        BY <3>2, <4>1 DEF Named
    <3> QED
      BY <1>4, <3>1, <3>2
  <2>4. id \notin Named(new)
    BY <1>5, <1>7 DEF Named
  <2> QED
    BY <2>1, <2>2, <2>3, <2>4
<1>9. id \notin Taken(q, n) /\ Taken(new, n) = Taken(q, n) \cup {id}
  BY <1>5, <1>8 DEF Taken
<1>10. Asks(new) = Asks(q) \ {id}
  <2>1. ASSUME NEW i \in 1 .. Len(new), new[i][2] = "call"
        PROVE  new[i][1] \in Asks(q) \ {id}
    <3>1. new[i] = q[i + 1] /\ i + 1 \in 1 .. Len(q)
      BY <1>3, <1>4
    <3>2. new[i][1] \in Asks(q)
      BY <2>1, <3>1 DEF Asks
    <3>3. id < new[i][1] /\ new[i][1] \in Nat
      BY <1>5, <1>7, <3>1
    <3> QED
      BY <1>5, <3>2, <3>3
  <2>2. ASSUME NEW i \in 1 .. Len(q), q[i][2] = "call", q[i][1] # id
        PROVE  q[i][1] \in Asks(new)
    <3>1. i - 1 \in 1 .. Len(new) /\ i = (i - 1) + 1
      BY <1>4, <1>5, <2>2
    <3>2. new[i - 1] = q[i]
      BY <1>3, <3>1
    <3> QED
      BY <2>2, <3>1, <3>2 DEF Asks
  <2> QED
    BY <2>1, <2>2 DEF Asks
<1>11. Head(q)[2] = "call" => id \in Asks(q) /\ \A d \in Asks(q) : id <= d
  BY <1>2, <1>3, <1>5 DEF Asks
<1>12. Head(q)[2] = "cast" => id \notin Asks(q)
  BY <1>2, <1>3, <1>5 DEF Asks
<1> QED
  BY <1>5, <1>6, <1>9, <1>10, <1>11, <1>12 DEF new, id

ServerStep == [Deferred!Ownership!Next]_Deferred!Ownership!vars

LEMMA ServerViews ==
  /\ Deferred!Asked = Asks(queue) /\ Deferred!Asked' = Asks(queue')
  /\ Deferred!Retained = Owed(book) /\ Deferred!Retained' = Owed(book')
  /\ Deferred!Answered = Said(answers) /\ Deferred!Answered' = Said(answers')
BY SameOperators DEF Deferred!Asked, Asks, Deferred!Retained, Owed, Deferred!Answered, Said,
                     Deferred!Handles, Handles

\* What was taken is a number in range, and an owed or answered call was taken.
LEMMA ServingFacts ==
  ASSUME Serving
  PROVE  /\ Taken(queue, nextId) \subseteq Deferred!Ids
         /\ Owed(book) \subseteq Taken(queue, nextId) /\ Said(answers) \subseteq Taken(queue, nextId)
         /\ Cardinality(Handles(book)) \in Nat /\ Cardinality(Owed(book)) = Cardinality(Handles(book))
<1>1. Taken(queue, nextId) \subseteq Deferred!Ids
  BY CapacityAssumption DEF Serving, Taken, Deferred!Ids
<1>2. Owed(book) \subseteq Taken(queue, nextId)
  BY OwedTaken DEF Serving
<1>3. Said(answers) \subseteq Taken(queue, nextId)
  BY DEF Serving, AnswersKept, Said
<1> QED
  BY <1>1, <1>2, <1>3, HandlesFinite DEF Serving

\* A message arrives: a call starts to wait.
LEMMA ServerSends ==
  ASSUME Serving, NEW kind \in Kinds, Deferred!Send(kind)
  PROVE  Serving' /\ ServerStep
<1>1. /\ nextId < MaxMessages /\ nextId \in Nat /\ queue' = Append(queue, <<nextId, kind>>)
      /\ nextId' = nextId + 1 /\ UNCHANGED <<book, issued, answers>>
  BY DEF Deferred!Send, Serving
<1>2. /\ QueueKept(queue', nextId') /\ Taken(queue', nextId') = Taken(queue, nextId)
      /\ Asks(queue') = Asks(queue) \cup (IF kind = "call" THEN {nextId} ELSE {}) /\ nextId \notin Asks(queue)
  BY <1>1, MessageArrives DEF Serving
<1>3. Serving'
  <2>1. BookKept(book', issued', Taken(queue', nextId')) /\ AnswersKept(answers', Taken(queue', nextId'))
    BY <1>1, <1>2 DEF Serving
  <2>2. Said(answers') \cap Owed(book') = {}
    BY <1>1 DEF Serving
  <2>3. nextId' \in Nat /\ nextId' <= MaxMessages
    BY <1>1, CapacityAssumption
  <2> QED
    BY <1>2, <2>1, <2>2, <2>3 DEF Serving, QueueKept, BookKept, AnswersKept, Said, Owed, Taken, Named
<1>4. nextId \in Deferred!Ids /\ nextId \notin Owed(book) \cup Said(answers)
  <2>1. nextId \notin Taken(queue, nextId)
    BY <1>1 DEF Taken
  <2> QED
    BY <1>1, <2>1, ServingFacts, CapacityAssumption DEF Deferred!Ids
<1>5. Owed(book') = Owed(book) /\ Said(answers') = Said(answers)
  BY <1>1
<1>6. CASE kind = "call"
  <2>1. Deferred!Ownership!Ask(nextId)
    BY <1>2, <1>4, <1>5, <1>6, ServerViews DEF Deferred!Ownership!Ask
  <2> QED
    BY <1>3, <1>4, <2>1 DEF ServerStep, Deferred!Ownership!Next
<1>7. CASE kind # "call"
  <2>1. UNCHANGED Deferred!Ownership!vars
    BY <1>2, <1>5, <1>7, ServerViews DEF Deferred!Ownership!vars
  <2> QED
    BY <1>3, <2>1 DEF ServerStep
<1> QED
  BY <1>6, <1>7

\* What a step that takes no message keeps of the queue.
LEMMA ServerKeeps ==
  ASSUME Serving, NEW b, NEW given, NEW list, UNCHANGED nextId, QueueKept(queue', nextId),
         BookKept(book', issued', Taken(queue', nextId)), AnswersKept(answers', Taken(queue', nextId)),
         Said(answers') \cap Owed(book') = {}
  PROVE  Serving'
<1>1. nextId' = nextId /\ nextId \in Nat /\ nextId <= MaxMessages
  BY DEF Serving
<1> QED
  BY <1>1 DEF Serving, QueueKept, BookKept, AnswersKept, Said, Owed, Taken, Named

\* A reply to one of the calls that are owed, or to none.
LEMMA ServerAnswers ==
  ASSUME Serving, NEW reply \in {None} \cup issued, Deferred!Reply(reply, book),
         UNCHANGED <<nextId, issued>>, QueueKept(queue', nextId), Asks(queue') = Asks(queue),
         Taken(queue, nextId) \subseteq Taken(queue', nextId)
  PROVE  Serving' /\ ServerStep
<1> DEFINE done == Taken(queue, nextId)
<1>1. BookKept(book, issued, done) /\ AnswersKept(answers, done) /\ Said(answers) \cap Owed(book) = {}
  BY DEF Serving
<1>2. Reply(reply, book)
  BY SameOperators
<1>3. /\ BookKept(book', issued, done) /\ AnswersKept(answers', done)
      /\ Said(answers') \cap Owed(book') = {} /\ AnswersOne(book)
  BY <1>1, <1>2, ReplyKeeps
<1>4. BookKept(book', issued', Taken(queue', nextId)) /\ AnswersKept(answers', Taken(queue', nextId))
  <2>1. issued' = issued /\ Taken(queue', nextId) \subseteq Nat
    BY DEF Taken, Serving
  <2> QED
    BY <1>3, <2>1, MoreTaken
<1>5. Serving'
  BY <1>3, <1>4, ServerKeeps
<1>6. CASE Owed(book') = Owed(book) /\ Said(answers') = Said(answers)
  <2>1. UNCHANGED Deferred!Ownership!vars
    BY <1>6, ServerViews DEF Deferred!Ownership!vars
  <2> QED
    BY <1>5, <2>1 DEF ServerStep
<1>7. ASSUME NEW c \in Owed(book), Owed(book') = Owed(book) \ {c}, Said(answers') = Said(answers) \cup {c}
      PROVE  ServerStep
  <2>1. c \in Deferred!Ids
    BY ServingFacts
  <2>2. Deferred!Ownership!Answer(c)
    BY <1>7, ServerViews DEF Deferred!Ownership!Answer
  <2> QED
    BY <2>1, <2>2 DEF ServerStep, Deferred!Ownership!Next
<1> QED
  BY <1>3, <1>5, <1>6, <1>7 DEF AnswersOne

LEMMA ServerRefuses ==
  ASSUME Serving, Deferred!Refuse
  PROVE  Serving' /\ ServerStep
<1> DEFINE id == Head(queue)[1]  done == Taken(queue, nextId)  more == Taken(queue', nextId)
<1>1. /\ queue # <<>> /\ Head(queue)[2] = "call" /\ Full(book) /\ queue' = Tail(queue)
      /\ answers' = Append(answers, <<id, id>>) /\ UNCHANGED <<nextId, book, issued>>
  BY SameOperators DEF Deferred!Refuse, Deferred!Receives
<1>2. /\ QueueKept(queue', nextId) /\ id \in Nat /\ id \notin done /\ id < nextId
      /\ more = done \cup {id} /\ Asks(queue') = Asks(queue) \ {id}
      /\ id \in Asks(queue) /\ \A d \in Asks(queue) : id <= d
  BY <1>1, MessageLeaves DEF Serving
<1>3. BookKept(book, issued, more) /\ AnswersKept(answers, more)
  <2>1. done \subseteq more /\ more \subseteq Nat
    BY <1>2 DEF Taken, Serving
  <2> QED
    BY <2>1, MoreTaken DEF Serving
<1>4. id \notin Said(answers) /\ id \notin Owed(book) /\ id \in more
  BY <1>2, ServingFacts
<1>5. id \in Deferred!Ids
  BY <1>2, CapacityAssumption DEF Deferred!Ids, Serving
<1> HIDE DEF id, done, more
<1>6. AnswersKept(answers', more) /\ Said(answers') = Said(answers) \cup {id}
  BY <1>1, <1>3, <1>4, AnswerAppended
<1>7. Serving'
  <2>1. Said(answers') \cap Owed(book') = {}
    BY <1>1, <1>4, <1>6 DEF Serving
  <2>2. BookKept(book', issued', more)
    BY <1>1, <1>3
  <2> QED
    BY <1>1, <1>2, <1>6, <2>1, <2>2, ServerKeeps DEF more
<1>8. Cardinality(Owed(book)) = PendingCalls
  <2>1. Cardinality(Handles(book)) >= PendingCalls /\ Cardinality(Handles(book)) <= PendingCalls
    BY <1>1 DEF Full, Serving, BookKept
  <2> QED
    BY <2>1, ServingFacts, PendingCallsAssumption
<1>9. Deferred!Ownership!Refuse(id)
  <2>1. Deferred!Ownership!Cardinality(Deferred!Retained) = PendingCalls
    BY <1>8, ServerViews, SameOperators
  <2>2. Deferred!Ownership!Oldest(id)
    BY <1>2, ServerViews DEF Deferred!Ownership!Oldest
  <2>3. /\ Deferred!Retained' = Deferred!Retained
        /\ Deferred!Answered' = Deferred!Answered \cup {id} /\ Deferred!Asked' = Deferred!Asked \ {id}
    BY <1>1, <1>2, <1>6, ServerViews
  <2> QED
    BY ONLY <2>1, <2>2, <2>3 DEF Deferred!Ownership!Refuse
<1> QED
  BY <1>5, <1>7, <1>9 DEF ServerStep, Deferred!Ownership!Next

\* A call is taken, and one that is owed may be answered, this one included.
LEMMA ServerTakes ==
  ASSUME Serving, NEW more \in BOOLEAN, Deferred!HandleCall(more)
  PROVE  Serving' /\ ServerStep
<1> DEFINE id == Head(queue)[1]  done == Taken(queue, nextId)  taken == Taken(queue', nextId)
           b == Admit(book, id)  known == issued \cup {<<book.next, id>>}
<1>1. /\ queue # <<>> /\ Head(queue)[2] = "call" /\ ~Full(book) /\ queue' = Tail(queue)
      /\ issued' = known /\ UNCHANGED nextId
  BY SameOperators DEF Deferred!HandleCall, Deferred!Receives, Deferred!Finish
<1>2. PICK reply \in {None} \cup known : Reply(reply, b)
  BY SameOperators DEF Deferred!HandleCall, Deferred!Finish
<1>3. /\ QueueKept(queue', nextId) /\ id \in Nat /\ id \notin done /\ id < nextId
      /\ taken = done \cup {id} /\ Asks(queue') = Asks(queue) \ {id}
      /\ id \in Asks(queue) /\ \A d \in Asks(queue) : id <= d
  BY <1>1, MessageLeaves DEF Serving
<1>4. id \in Deferred!Ids
  BY <1>3, CapacityAssumption DEF Deferred!Ids, Serving
<1>5. BookKept(b, issued', taken) /\ Owed(b) = Owed(book) \cup {id}
  <2>1. BookKept(book, issued, done)
    BY DEF Serving
  <2>2. BookKept(b, known, done \cup {id}) /\ Owed(b) = Owed(book) \cup {id}
    BY <1>1, <1>3, <2>1, AdmitKeeps
  <2> QED
    BY <1>1, <1>3, <2>2
<1>6. AnswersKept(answers, taken) /\ Said(answers) \cap Owed(b) = {}
  <2>1. id \notin Said(answers)
    BY <1>3, ServingFacts
  <2>2. AnswersKept(answers, taken)
    <3>1. done \subseteq taken /\ taken \subseteq Nat
      BY <1>3 DEF Taken, Serving
    <3> QED
      BY <3>1, MoreTaken DEF Serving
  <2> QED
    BY <1>5, <2>1, <2>2 DEF Serving
<1> HIDE DEF b, id, done, taken
<1>7. /\ BookKept(book', issued', taken) /\ AnswersKept(answers', taken)
      /\ Said(answers') \cap Owed(book') = {} /\ AnswersOne(b)
  BY <1>1, <1>2, <1>5, <1>6, ReplyKeeps
<1>8. Serving'
  BY <1>1, <1>3, <1>7, ServerKeeps DEF taken
<1>9. Cardinality(Owed(book)) < PendingCalls
  BY <1>1, ServingFacts, PendingCallsAssumption DEF Full
<1>10. \E gone \in SUBSET (Owed(book) \cup {id}) :
         /\ Cardinality(gone) <= 1
         /\ Owed(book') = (Owed(book) \cup {id}) \ gone /\ Said(answers') = Said(answers) \cup gone
  BY <1>5, <1>7, AnswersAtMostOne
<1>11. Deferred!Ownership!Take(id)
  <2>1. Deferred!Ownership!Cardinality(Deferred!Retained) < PendingCalls
    BY <1>9, ServerViews, SameOperators
  <2>2. Deferred!Ownership!Oldest(id)
    BY <1>3, ServerViews DEF Deferred!Ownership!Oldest
  <2>3. \E gone \in SUBSET (Deferred!Retained \cup {id}) :
          /\ Deferred!Ownership!Cardinality(gone) <= 1
          /\ Deferred!Retained' = (Deferred!Retained \cup {id}) \ gone
          /\ Deferred!Answered' = Deferred!Answered \cup gone
    BY ONLY <1>10, ServerViews, SameOperators
  <2>4. Deferred!Asked' = Deferred!Asked \ {id}
    BY <1>3, ServerViews
  <2> QED
    BY ONLY <2>1, <2>2, <2>3, <2>4 DEF Deferred!Ownership!Take
<1> QED
  BY <1>4, <1>8, <1>11 DEF ServerStep, Deferred!Ownership!Next

LEMMA ServingKept == Serving /\ [Deferred!Next]_Deferred!vars => Serving' /\ ServerStep
<1> SUFFICES ASSUME Serving, [Deferred!Next]_Deferred!vars PROVE Serving' /\ ServerStep
  OBVIOUS
<1>1. ASSUME NEW kind \in Kinds, Deferred!Send(kind) PROVE Serving' /\ ServerStep
  BY <1>1, ServerSends
<1>2. CASE Deferred!Refuse
  BY <1>2, ServerRefuses
<1>3. ASSUME NEW more \in BOOLEAN, Deferred!HandleCall(more) PROVE Serving' /\ ServerStep
  BY <1>3, ServerTakes
<1>4. ASSUME NEW more \in BOOLEAN, Deferred!HandleCast(more) PROVE Serving' /\ ServerStep
  <2>1. /\ queue # <<>> /\ Head(queue)[2] = "cast" /\ queue' = Tail(queue) /\ UNCHANGED <<issued, nextId>>
    BY <1>4 DEF Deferred!HandleCast, Deferred!Receives, Deferred!Finish
  <2>2. PICK reply \in {None} \cup issued : Deferred!Reply(reply, book)
    BY <1>4 DEF Deferred!HandleCast, Deferred!Finish
  <2>3. /\ QueueKept(queue', nextId) /\ Asks(queue') = Asks(queue)
        /\ Taken(queue, nextId) \subseteq Taken(queue', nextId)
    <3> DEFINE id == Head(queue)[1]
    <3>1. /\ QueueKept(queue', nextId) /\ Asks(queue') = Asks(queue) \ {id} /\ id \notin Asks(queue)
          /\ Taken(queue', nextId) = Taken(queue, nextId) \cup {id}
      BY <2>1, MessageLeaves DEF Serving
    <3> QED
      BY <3>1
  <2> QED
    BY <2>1, <2>2, <2>3, ServerAnswers
<1>5. ASSUME NEW more \in BOOLEAN, Deferred!HandleContinue(more) PROVE Serving' /\ ServerStep
  <2>1. UNCHANGED <<queue, issued, nextId>>
    BY <1>5 DEF Deferred!HandleContinue, Deferred!Finish
  <2>2. PICK reply \in {None} \cup issued : Deferred!Reply(reply, book)
    BY <1>5 DEF Deferred!HandleContinue, Deferred!Finish
  <2>3. QueueKept(queue', nextId)
    BY <2>1 DEF Serving
  <2> QED
    BY <2>1, <2>2, <2>3, ServerAnswers
<1>6. ASSUME UNCHANGED <<queue, nextId, book, issued, answers>> PROVE Serving' /\ ServerStep
  <2>1. Serving'
    BY <1>6, ServerKeeps DEF Serving
  <2>2. UNCHANGED Deferred!Ownership!vars
    BY <1>6, ServerViews DEF Deferred!Ownership!vars
  <2> QED
    BY <2>1, <2>2 DEF ServerStep
<1>7. CASE Deferred!Crash
  BY <1>6, <1>7 DEF Deferred!Crash
<1>8. CASE UNCHANGED Deferred!vars
  BY <1>6, <1>8 DEF Deferred!vars
<1> QED
  BY <1>1, <1>2, <1>3, <1>4, <1>5, <1>7, <1>8 DEF Deferred!Next, Kinds

LEMMA ServingStart == Deferred!Init => Serving /\ Deferred!Ownership!Init
<1> SUFFICES ASSUME Deferred!Init PROVE Serving /\ Deferred!Ownership!Init
  OBVIOUS
<1>1. /\ book = [next |-> 1, callers |-> <<>>] /\ issued = {} /\ answers = <<>> /\ queue = <<>> /\ nextId = 0
  BY DEF Deferred!Init, Deferred!NewBook
<1>2. Handles(book) = {} /\ Owed(book) = {} /\ Said(answers) = {} /\ Asks(queue) = {}
  BY <1>1 DEF Handles, Owed, Said, Asks
<1>3. Taken(queue, nextId) = {} /\ QueueKept(queue, nextId) /\ nextId <= MaxMessages
  BY <1>1, CapacityAssumption DEF Taken, QueueKept
<1>4. BookKept(book, issued, {})
  <2>1. Cardinality({}) <= PendingCalls
    BY FS_EmptySet, PendingCallsAssumption
  <2> QED
    BY <1>1, <1>2, <2>1 DEF BookKept
<1>5. AnswersKept(answers, {})
  BY <1>1 DEF AnswersKept
<1>6. Serving
  BY <1>1, <1>2, <1>3, <1>4, <1>5 DEF Serving
<1>7. Deferred!Ownership!Init
  BY <1>2, ServerViews DEF Deferred!Ownership!Init
<1> QED
  BY <1>6, <1>7

\* The generic server keeps the same promise: calls are taken in order, each
\* gets one answer, the one that was meant, and `busy' is said only while
\* PendingCalls answers are owed (hls_gs_deferred:dispatch/6, finish/3).
THEOREM ServerKeepsOwnership == Deferred!Spec => Deferred!KeepsOwnership
<1>1. Serving => Deferred!CallsAnsweredOnce
  <2> SUFFICES ASSUME Serving PROVE Deferred!CallsAnsweredOnce
    OBVIOUS
  <2>1. AnswersKept(answers, Taken(queue, nextId))
    BY DEF Serving
  <2>2. Deferred!Cardinality(Deferred!Answered) = Len(answers)
    BY <2>1, AnswersCounted, SameOperators, ServerViews
  <2> QED
    BY <2>1, <2>2 DEF Deferred!CallsAnsweredOnce, AnswersKept
<1>2. Serving /\ [Deferred!Next]_Deferred!vars => Serving'
  BY ServingKept
<1>3. Serving /\ [Deferred!Next]_Deferred!vars => [Deferred!Ownership!Next]_Deferred!Ownership!vars
  BY ServingKept DEF ServerStep
<1>4. Deferred!Init => Serving /\ Deferred!Ownership!Init
  BY ServingStart
<1> QED
  BY <1>1, <1>2, <1>3, <1>4, PTL DEF Deferred!Spec, Deferred!KeepsOwnership, Deferred!Ownership!Spec
=============================================================================
