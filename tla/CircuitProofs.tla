--------------------------- MODULE CircuitProofs ---------------------------
(***************************************************************************)
(* Proofs about the circuits.                                              *)
(*                                                                         *)
(* FabricLink: for every number of ports, every table of endpoint IDs and  *)
(* packets of every length, packets arrive whole and no port is passed     *)
(* over by more than Ports - 1 others.                                     *)
(*                                                                         *)
(* HardwareServer: for every set of transaction IDs, number of slots,      *)
(* depth of the channels and number of faulty calls, every call the host   *)
(* waits for is in exactly one place.  Assumed are SlotsAssumption and     *)
(* NoneAssumption of that module, and nothing of the worker.               *)
(***************************************************************************)
EXTENDS FabricLink, HardwareServer, OrderLemmas, FunctionTheorems, FiniteSetTheorems, TLAPS

-----------------------------------------------------------------------------
(* FabricLink.                                                             *)

\* How far the scans have to go from port n to port p.
Distance(p, n) == IF p >= n THEN p - n ELSE p + Ports - n

Successor(p) == IF p = Ports - 1 THEN 0 ELSE p + 1

\* Where the next selection starts.
Cursor == IF state = "IDLE" THEN next_port ELSE Successor(selected)

Waits ==
  /\ \A p \in Port : offered[p] = NoOffer => waited[p] = 0
  /\ state # "IDLE" => waited[selected] = 0
  /\ \A p \in Port : waited[p] + Distance(p, Cursor) <= Ports - 1

\* A source counts its beats.
Counts ==
  \A p \in Port :
    /\ given[p] < MaxLength
    /\ offered[p] # NoOffer =>
         /\ offered[p].port = p /\ offered[p].index = given[p] + 1
         /\ offered[p].index = MaxLength => offered[p].last
    /\ given[p] # 0 => state # "IDLE" /\ p = selected

\* The captured beat is the first of the owner's packet.
Captured ==
  state \in {"ROUTE", "FIRST"} =>
    /\ first.port = selected /\ first.index = 1
    /\ given[selected] = IF first.last THEN 0 ELSE 1
    /\ stream = <<>>

\* The ingress is where the egress is.
InStep ==
  /\ state \in {"IDLE", "ROUTE"} => mode = "ADDRESS"
  /\ state \in {"FIRST", "BODY"} =>
       IF Known(destination)
       THEN mode = "FORWARD" /\ Endpoints[target] = destination /\ source = Endpoints[selected]
       ELSE mode = "DROP"

\* What has arrived of the owner's packet.
Arrived ==
  /\ \A k \in 1 .. Len(stream) :
       /\ Endpoints[stream[k].port] = destination
       /\ stream[k].source = Endpoints[selected] /\ stream[k].beat.port = selected
       /\ stream[k].beat.index = k /\ (stream[k].beat.last => k = Len(stream))
  /\ state = "BODY" =>
       /\ given[selected] # 0
       /\ Known(destination) => /\ Len(stream) = given[selected]
                                /\ \A k \in 1 .. Len(stream) : ~stream[k].beat.last
       /\ ~Known(destination) => stream = <<>>

LinkInv == TypeOK /\ Waits /\ Counts /\ Captured /\ InStep /\ Arrived

-----------------------------------------------------------------------------
(* The scans.                                                              *)

LEMMA LowestIsLeast ==
  ASSUME NEW S, S \subseteq Port, S # {}
  PROVE  Lowest(S) \in S /\ \A q \in S : Lowest(S) <= q
<1>1. S \subseteq Nat
  BY PortsAssumption DEF Port
<1>2. \E p \in S : \A q \in S : p <= q
  BY <1>1, MinimumExists
<1>. QED  BY <1>2 DEF Lowest

\* The two scans find the requester nearest to next_port, going round.
LEMMA CandidateIsNearest ==
  ASSUME next_port \in Port, Requesters # {}
  PROVE  /\ Candidate \in Requesters
         /\ \A q \in Requesters : Distance(Candidate, next_port) <= Distance(q, next_port)
<1>. DEFINE later == {p \in Requesters : p >= next_port}
<1>1. Requesters \subseteq Port /\ later \subseteq Requesters
  BY DEF Requesters
<1>4. SUFFICES /\ Candidate \in Requesters
               /\ \A q \in Requesters :
                    \/ Candidate >= next_port /\ (q >= next_port => Candidate <= q)
                    \/ Candidate < next_port /\ q < next_port /\ Candidate <= q
  <2>1. ASSUME NEW c \in Port, NEW q \in Port,
               \/ c >= next_port /\ (q >= next_port => c <= q)
               \/ c < next_port /\ q < next_port /\ c <= q
        PROVE  Distance(c, next_port) <= Distance(q, next_port)
    BY <2>1, PortsAssumption DEF Distance, Port
  <2>. QED  BY <1>1, <2>1
<1>2. CASE later # {}
  <2>1. Candidate = Lowest(later)
    BY <1>2 DEF Candidate
  <2>2. Lowest(later) \in later /\ \A q \in later : Lowest(later) <= q
    <3>. HIDE DEF later
    <3>. QED  BY <1>1, <1>2, LowestIsLeast
  <2>3. \A p \in Port : p \in Int /\ next_port \in Int
    BY PortsAssumption DEF Port
  <2>. QED  BY <1>1, <2>1, <2>2, <2>3
<1>3. CASE later = {}
  <2>1. Candidate = Lowest(Requesters)
    BY <1>3 DEF Candidate
  <2>2. Lowest(Requesters) \in Requesters /\ \A q \in Requesters : Lowest(Requesters) <= q
    BY <1>1, LowestIsLeast
  <2>3. \A q \in Requesters : q < next_port
    BY <1>1, <1>3, PortsAssumption DEF Port
  <2>. QED  BY <1>1, <2>1, <2>2, <2>3
<1>. QED  BY <1>2, <1>3

\* The arithmetic of the bound: when c is selected and q is not, q comes nearer.
LEMMA PassingComesNearer ==
  ASSUME NEW n \in Port, NEW c \in Port, NEW q \in Port, q # c,
         Distance(c, n) <= Distance(q, n)
  PROVE  Distance(q, Successor(c)) + 1 <= Distance(q, n)
BY PortsAssumption DEF Distance, Successor, Port

LEMMA DistanceBounds ==
  ASSUME NEW p \in Port, NEW n \in Port
  PROVE  Distance(p, n) \in 0 .. Ports - 1 /\ Successor(p) \in Port
BY PortsAssumption DEF Distance, Successor, Port

-----------------------------------------------------------------------------
(* The invariant is inductive.                                             *)

LEMMA BeatTypes ==
  /\ NoBeat \in Beat /\ NoOffer \notin Beat /\ 0 \in Port /\ 0 \in Address
  /\ \A p \in Port : Endpoints[p] \in Address /\ Known(Endpoints[p])
BY PortsAssumption, EndpointsAssumption, LengthAssumption, NoOfferAssumption
   DEF NoBeat, Beat, Port, Known

LEMMA LinkStarts == LinkInit => LinkInv
<1>. SUFFICES ASSUME LinkInit  PROVE LinkInv
  OBVIOUS
<1>1. TypeOK
  BY BeatTypes, LengthAssumption DEF LinkInit, TypeOK
<1>2. Waits
  <2>1. ASSUME NEW p \in Port
        PROVE  waited[p] = 0 /\ waited[p] + Distance(p, Cursor) <= Ports - 1
    <3>1. waited[p] = 0 /\ Cursor = 0
      BY DEF LinkInit, Cursor
    <3>2. Distance(p, 0) \in 0 .. Ports - 1
      BY DistanceBounds, BeatTypes
    <3>. QED  BY <3>1, <3>2, PortsAssumption
  <2>2. state = "IDLE"
    BY DEF LinkInit
  <2>. QED  BY <2>1, <2>2 DEF Waits
<1>3. Counts /\ Captured /\ InStep /\ Arrived
  BY LengthAssumption DEF LinkInit, Counts, Captured, InStep, Arrived
<1>. QED  BY <1>1, <1>2, <1>3 DEF LinkInv

LEMMA ResetKeeps == Reset => LinkInv'
<1>. SUFFICES ASSUME Reset  PROVE LinkInv'
  OBVIOUS
<1>1. TypeOK'
  BY BeatTypes, LengthAssumption DEF Reset, TypeOK
<1>2. Waits'
  BY PortsAssumption, DistanceBounds, BeatTypes DEF Reset, Waits, Cursor
<1>3. (Counts /\ Captured /\ InStep /\ Arrived)'
  BY LengthAssumption DEF Reset, Counts, Captured, InStep, Arrived
<1>. QED  BY <1>1, <1>2, <1>3 DEF LinkInv

LEMMA SelectKeeps == LinkInv /\ Select => LinkInv'
<1>. SUFFICES ASSUME LinkInv, Select  PROVE LinkInv'
  OBVIOUS
<1>. DEFINE c == Candidate
<1>1. /\ c \in Port /\ offered[c] # NoOffer /\ offered[c] \in Beat
      /\ \A q \in Requesters : Distance(c, next_port) <= Distance(q, next_port)
  BY CandidateIsNearest DEF Select, LinkInv, TypeOK, Requesters
<1>. HIDE DEF c
<1>2. /\ state = "IDLE" /\ state' = "ROUTE" /\ selected' = c /\ first' = offered[c]
      /\ destination' = wanted[c] /\ offered' = [offered EXCEPT ![c] = NoOffer]
      /\ wanted' = [wanted EXCEPT ![c] = 0] /\ stream' = <<>>
      /\ given' = [given EXCEPT ![c] = IF offered[c].last THEN 0 ELSE @ + 1]
      /\ waited' = [p \in Port |-> IF p = c THEN 0
                                   ELSE IF p \in Requesters THEN waited[p] + 1 ELSE waited[p]]
      /\ UNCHANGED <<next_port, mode, target, source>>
  BY DEF Select, Handover, c, ingress
<1>3. given[c] = 0 /\ \A p \in Port : given[p] = 0
  BY <1>1, <1>2 DEF LinkInv, Counts, TypeOK
<1>4. given'[c] = (IF offered[c].last THEN 0 ELSE 1) /\ given'[c] < MaxLength
  BY <1>1, <1>2, <1>3, LengthAssumption DEF LinkInv, Counts, TypeOK, Beat
<1>5. TypeOK'
  <2>1. /\ offered \in [Port -> Beat \cup {NoOffer}] /\ wanted \in [Port -> Address] /\ 0 \in Address
        /\ given \in [Port -> 0 .. MaxLength]
    BY BeatTypes DEF LinkInv, TypeOK
  <2>2. offered' \in [Port -> Beat \cup {NoOffer}] /\ wanted' \in [Port -> Address]
    BY <1>1, <1>2, <2>1
  <2>3. given' \in [Port -> 0 .. MaxLength]
    <3>1. given[c] + 1 \in 0 .. MaxLength /\ 0 \in 0 .. MaxLength
      BY <1>3, LengthAssumption
    <3>. QED  BY <1>2, <2>1, <3>1
  <2>4. waited' \in [Port -> Nat]
    <3>1. waited \in [Port -> Nat]
      BY DEF LinkInv, TypeOK
    <3>2. ASSUME NEW p \in Port  PROVE waited'[p] \in Nat
      BY <1>2, <3>1
    <3>. QED  BY <1>2, <3>2
  <2>5. selected' \in Port /\ first' \in Beat /\ destination' \in Address
    BY <1>1, <1>2, <2>1
  <2>6. stream' = << >>
    BY <1>2
  <2>. QED  BY <1>2, <2>2, <2>3, <2>4, <2>5, <2>6 DEF LinkInv, TypeOK
<1>6. Waits'
  <2>1. \A p \in Port : offered'[p] = NoOffer => waited'[p] = 0
    BY <1>1, <1>2 DEF LinkInv, TypeOK, Waits, Requesters
  <2>2. ASSUME NEW p \in Port
        PROVE  waited'[p] + Distance(p, Successor(c)) <= Ports - 1
    <3>1. waited[p] \in Nat /\ next_port \in Port /\ waited[p] + Distance(p, next_port) <= Ports - 1
      BY <1>2 DEF LinkInv, TypeOK, Waits, Cursor
    <3>2. /\ Distance(p, next_port) \in Int /\ Distance(p, Successor(c)) \in 0 .. Ports - 1
          /\ Successor(c) \in Port
      BY <1>1, <3>1, DistanceBounds
    <3>3. CASE p = c \/ p \notin Requesters
      <4>1. waited'[p] = 0
        BY <1>2, <3>3 DEF LinkInv, Waits, Requesters
      <4>. QED  BY <4>1, <3>2
    <3>4. CASE p # c /\ p \in Requesters
      <4>1. waited'[p] = waited[p] + 1
        BY <1>2, <3>4
      <4>2. Distance(p, Successor(c)) + 1 <= Distance(p, next_port)
        BY <1>1, <3>1, <3>4, PassingComesNearer
      <4>. QED  BY <4>1, <4>2, <3>1, <3>2, PortsAssumption
    <3>. QED  BY <3>3, <3>4
  <2>3. waited'[selected'] = 0 /\ Cursor' = Successor(c)
    BY <1>1, <1>2 DEF Cursor, Successor
  <2>. QED  BY <2>1, <2>2, <2>3 DEF Waits, Distance
<1>7. (Counts /\ Captured)'
  BY <1>1, <1>2, <1>3, <1>4, LengthAssumption DEF LinkInv, TypeOK, Counts, Captured
<1>8. (InStep /\ Arrived)'
  BY <1>2 DEF LinkInv, InStep, Arrived
<1>. QED  BY <1>5, <1>6, <1>7, <1>8 DEF LinkInv

LEMMA RouteKeeps == \A ready \in SUBSET Port : LinkInv /\ Route(ready) => LinkInv'
<1>. SUFFICES ASSUME NEW ready \in SUBSET Port, LinkInv, Route(ready)  PROVE LinkInv'
  OBVIOUS
<1>1. /\ state = "ROUTE" /\ state' = "FIRST" /\ mode = "ADDRESS"
      /\ target' = (IF Known(destination) THEN PortOf(destination) ELSE 0)
      /\ source' = Endpoints[selected]
      /\ mode' = (IF Known(destination) THEN "FORWARD" ELSE "DROP")
      /\ UNCHANGED <<selected, next_port, destination, first, ports, waited, stream>>
  BY DEF Route, Taken, Addressed, RouteWord, LinkInv, InStep
<1>2. Known(destination) => PortOf(destination) \in Port /\ Endpoints[PortOf(destination)] = destination
  BY DEF Known, PortOf
<1>3. TypeOK'
  BY <1>1, <1>2, BeatTypes DEF LinkInv, TypeOK, ports
<1>4. (Waits /\ Counts)'
  BY <1>1 DEF LinkInv, Waits, Counts, Cursor, Successor, Distance, ports
<1>5. (Captured /\ InStep /\ Arrived)'
  BY <1>1, <1>2 DEF LinkInv, Captured, InStep, Arrived, Known, ports
<1>. QED  BY <1>3, <1>4, <1>5 DEF LinkInv

\* What the last, or another, beat of the owner's packet does to the ingress.
LEMMA SendBeatKeeps == \A ready \in SUBSET Port : LinkInv /\ SendBeat(ready) => LinkInv'
<1>. SUFFICES ASSUME NEW ready \in SUBSET Port, LinkInv, SendBeat(ready)  PROVE LinkInv'
  OBVIOUS
<1>. DEFINE out == Outgoing
           got == [port |-> target, source |-> source, beat |-> out]
<1>1. /\ state \in {"FIRST", "BODY"} /\ mode \in {"FORWARD", "DROP"}
      /\ out \in Beat /\ out.port = selected
      /\ state = "BODY" => out = offered[selected] /\ out.index = given[selected] + 1
      /\ state = "FIRST" => out = first /\ out.index = 1
  BY DEF SendBeat, Present, Outgoing, LinkInv, TypeOK, InStep, Captured, Counts
<1>2. /\ state' = (IF out.last THEN "IDLE" ELSE "BODY")
      /\ mode' = (IF out.last THEN "ADDRESS" ELSE mode)
      /\ stream' = (IF mode = "FORWARD" THEN Append(stream, got) ELSE stream)
      /\ next_port' = (IF out.last THEN Successor(selected) ELSE next_port)
      /\ UNCHANGED <<selected, destination, first, waited, target, source>>
  BY <1>1 DEF SendBeat, Following, Taken, Passed, Payload, Successor
<1>3. IF state = "BODY"
      THEN /\ offered' = [offered EXCEPT ![selected] = NoOffer]
           /\ given' = [given EXCEPT ![selected] = IF out.last THEN 0 ELSE @ + 1]
           /\ wanted' = [wanted EXCEPT ![selected] = 0]
      ELSE UNCHANGED <<offered, given, wanted>>
  BY <1>1 DEF SendBeat, Handover, ports
<1>. HIDE DEF out
<1>4. given[selected] < MaxLength /\ (out.index = MaxLength => out.last \/ state = "FIRST")
  BY <1>1, <1>3 DEF LinkInv, Counts, SendBeat, Present, TypeOK
<1>5. TypeOK'
  <2>1. got \in [port : Port, source : Address, beat : Beat]
    BY <1>1 DEF LinkInv, TypeOK
  <2>2. stream' \in Seq([port : Port, source : Address, beat : Beat])
    <3>. DEFINE Entries == [port : Port, source : Address, beat : Beat]
    <3>1. stream \in Seq(Entries) /\ got \in Entries
      BY <2>1 DEF LinkInv, TypeOK
    <3>. HIDE DEF Entries, got
    <3>2. Append(stream, got) \in Seq(Entries)
      BY <3>1
    <3>3. stream' \in Seq(Entries)
      BY <1>2, <3>1, <3>2
    <3>. QED  BY <3>3 DEF Entries
  <2>3. given' \in [Port -> 0 .. MaxLength] /\ offered' \in [Port -> Beat \cup {NoOffer}]
    <3>1. /\ given \in [Port -> 0 .. MaxLength] /\ offered \in [Port -> Beat \cup {NoOffer}]
          /\ given[selected] + 1 \in 0 .. MaxLength /\ 0 \in 0 .. MaxLength
      BY <1>1, <1>4, LengthAssumption DEF LinkInv, TypeOK
    <3>. QED  BY <1>3, <3>1
  <2>4. wanted' \in [Port -> Address]
    <3>1. wanted \in [Port -> Address] /\ 0 \in Address
      BY BeatTypes DEF LinkInv, TypeOK
    <3>. QED  BY <1>3, <3>1
  <2>5. next_port' \in Port
    <3>1. next_port \in Port /\ selected \in Port
      BY DEF LinkInv, TypeOK
    <3>2. Successor(selected) \in Port
      BY <3>1, DistanceBounds
    <3>. QED  BY <1>2, <3>1, <3>2
  <2>6. state' \in {"IDLE", "BODY"} /\ mode' \in {"ADDRESS", "FORWARD", "DROP"}
    BY <1>1, <1>2
  <2>. QED  BY <1>2, <2>2, <2>3, <2>4, <2>5, <2>6 DEF LinkInv, TypeOK
<1>6. Waits'
  <2>1. Cursor' = Cursor
    BY <1>1, <1>2 DEF Cursor, Successor
  <2>2. \A p \in Port : offered'[p] = NoOffer => waited'[p] = 0
    BY <1>1, <1>2, <1>3 DEF LinkInv, Waits, TypeOK
  <2>. QED  BY <1>1, <1>2, <2>1, <2>2 DEF LinkInv, Waits, Distance
<1>7. Counts'
  <2>. SUFFICES ASSUME NEW p \in Port
                PROVE  /\ given'[p] < MaxLength
                       /\ offered'[p] # NoOffer =>
                            /\ offered'[p].port = p /\ offered'[p].index = given'[p] + 1
                            /\ offered'[p].index = MaxLength => offered'[p].last
                       /\ given'[p] # 0 => state' # "IDLE" /\ p = selected'
    BY DEF Counts
  <2>1. /\ selected \in Port /\ given \in [Port -> 0 .. MaxLength]
        /\ offered \in [Port -> Beat \cup {NoOffer}]
        /\ given[p] < MaxLength /\ (given[p] # 0 => p = selected)
        /\ offered[p] # NoOffer =>
             /\ offered[p].port = p /\ offered[p].index = given[p] + 1
             /\ offered[p].index = MaxLength => offered[p].last
    BY DEF LinkInv, Counts, TypeOK
  <2>2. CASE p # selected
    BY <1>2, <1>3, <2>1, <2>2
  <2>3. CASE p = selected /\ state = "BODY"
    <3>1. offered'[p] = NoOffer /\ given'[p] = IF out.last THEN 0 ELSE given[p] + 1
      BY <1>3, <2>1, <2>3
    <3>2. ~out.last => given[p] + 1 < MaxLength
      BY <1>1, <1>4, <2>1, <2>3, LengthAssumption
    <3>. QED  BY <1>2, <2>3, <3>1, <3>2, LengthAssumption
  <2>4. CASE p = selected /\ state = "FIRST"
    <3>1. given'[p] = given[p] /\ offered'[p] = offered[p]
      BY <1>3, <2>4
    <3>2. given[p] # 0 => ~out.last
      BY <1>1, <2>4 DEF LinkInv, Captured
    <3>. QED  BY <1>2, <2>1, <2>4, <3>1, <3>2
  <2>. QED  BY <1>1, <2>2, <2>3, <2>4
<1>8. Captured' /\ InStep'
  BY <1>1, <1>2, <1>3 DEF LinkInv, Captured, InStep, Known
<1>9. Arrived'
  <2>1. CASE mode = "FORWARD"
    <3>1. /\ Known(destination) /\ Endpoints[target] = destination /\ source = Endpoints[selected]
      BY <1>1, <2>1 DEF LinkInv, InStep
    <3>2. /\ stream \in Seq([port : Port, source : Address, beat : Beat])
          /\ stream' = Append(stream, got)
          /\ Len(stream) = (IF state = "FIRST" THEN 0 ELSE given[selected])
          /\ out.index = Len(stream) + 1
      BY <1>1, <1>2, <2>1, <3>1 DEF LinkInv, TypeOK, Captured, Arrived
    <3>3. /\ Len(stream') = Len(stream) + 1 /\ stream'[Len(stream) + 1] = got
          /\ \A k \in 1 .. Len(stream) : stream'[k] = stream[k]
          /\ Len(stream) \in Nat
      BY <3>2
    <3>4. \A k \in 1 .. Len(stream) : ~stream[k].beat.last
      BY <1>1, <3>1, <3>2 DEF LinkInv, Arrived
    <3>5. ASSUME NEW k \in 1 .. Len(stream')
          PROVE  /\ Endpoints[stream'[k].port] = destination
                 /\ stream'[k].source = Endpoints[selected] /\ stream'[k].beat.port = selected
                 /\ stream'[k].beat.index = k /\ (stream'[k].beat.last => k = Len(stream'))
      <4>1. CASE k = Len(stream) + 1
        BY <1>1, <3>1, <3>2, <3>3, <4>1
      <4>2. CASE k \in 1 .. Len(stream)
        BY <3>3, <3>4, <4>2 DEF LinkInv, Arrived
      <4>. QED  BY <3>3, <4>1, <4>2
    <3>6. state' = "BODY" =>
            /\ given'[selected] # 0 /\ Len(stream') = given'[selected]
            /\ \A k \in 1 .. Len(stream') : ~stream'[k].beat.last
      <4>1. state' = "BODY" => ~out.last
        BY <1>2
      <4>2. ~out.last => given'[selected] = Len(stream) + 1
        BY <1>1, <1>3, <3>2 DEF LinkInv, Captured, TypeOK
      <4>3. ~out.last => \A k \in 1 .. Len(stream') : ~stream'[k].beat.last
        BY <3>3, <3>4
      <4>. QED  BY <4>1, <4>2, <4>3, <3>3
    <3>. QED  BY <1>2, <3>1, <3>5, <3>6 DEF Arrived, Known
  <2>2. CASE mode = "DROP"
    <3>1. ~Known(destination) /\ stream = <<>> /\ stream' = <<>>
      BY <1>1, <1>2, <2>2 DEF LinkInv, InStep, Captured, Arrived
    <3>2. ~out.last => given'[selected] # 0
      BY <1>1, <1>3 DEF LinkInv, Captured, Arrived, TypeOK
    <3>. QED  BY <1>2, <3>1, <3>2 DEF Arrived, Known
  <2>. QED  BY <1>1, <2>1, <2>2
<1>. QED  BY <1>5, <1>6, <1>7, <1>8, <1>9 DEF LinkInv

LEMMA OfferKeeps ==
  \A p \in Port, last \in BOOLEAN, address \in Wanted : LinkInv /\ Offer(p, last, address) => LinkInv'
<1>. SUFFICES ASSUME NEW p \in Port, NEW last \in BOOLEAN, NEW address \in Wanted, LinkInv,
                     Offer(p, last, address)
              PROVE  LinkInv'
  OBVIOUS
<1>1. /\ offered[p] = NoOffer /\ (given[p] = MaxLength - 1 => last)
      /\ offered' = [offered EXCEPT ![p] = [port |-> p, index |-> given[p] + 1, last |-> last]]
      /\ wanted' = [wanted EXCEPT ![p] = address]
      /\ UNCHANGED <<given, state, selected, next_port, destination, first, mode, target,
                     source, waited, stream>>
  BY DEF Offer, egress, ingress
<1>2. given[p] \in Nat /\ given[p] < MaxLength
  BY LengthAssumption DEF LinkInv, Counts, TypeOK
<1>3. TypeOK'
  <2>. DEFINE beat == [port |-> p, index |-> given[p] + 1, last |-> last]
  <2>1. beat \in Beat /\ offered' = [offered EXCEPT ![p] = beat]
    BY <1>1, <1>2, LengthAssumption DEF Beat
  <2>. HIDE DEF beat
  <2>2. offered' \in [Port -> Beat \cup {NoOffer}]
    BY <2>1 DEF LinkInv, TypeOK
  <2>3. wanted' \in [Port -> Address]
    <3>1. wanted \in [Port -> Address] /\ address \in Address
      BY EndpointsAssumption DEF LinkInv, TypeOK
    <3>. QED  BY <1>1, <3>1
  <2>. QED  BY <1>1, <2>2, <2>3 DEF LinkInv, TypeOK
<1>4. Waits'
  BY <1>1 DEF LinkInv, Waits, TypeOK, Cursor, Successor, Distance
<1>5. Counts'
  BY <1>1, <1>2, LengthAssumption DEF LinkInv, Counts, TypeOK
<1>6. (Captured /\ InStep /\ Arrived)'
  BY <1>1 DEF LinkInv, Captured, InStep, Arrived, Known
<1>. QED  BY <1>3, <1>4, <1>5, <1>6 DEF LinkInv

LEMMA LinkInductive == LinkInv /\ [LinkNext]_link => LinkInv'
<1>. SUFFICES ASSUME LinkInv, [LinkNext]_link  PROVE LinkInv'
  OBVIOUS
<1>1. CASE \E p \in Port : Offers(p)
  BY <1>1, OfferKeeps DEF Offers
<1>2. CASE \E ready \in SUBSET Port : Clock(ready)
  BY <1>2, SelectKeeps, RouteKeeps, SendBeatKeeps DEF Clock
<1>3. CASE Reset
  BY <1>3, ResetKeeps
<1>4. CASE UNCHANGED link
  BY <1>4 DEF link, egress, ingress, ports, LinkInv, TypeOK, Waits, Counts, Captured, InStep,
              Arrived, Cursor, Successor, Distance, Known
<1>. QED  BY <1>1, <1>2, <1>3, <1>4 DEF LinkNext

LEMMA LinkInvariance == LinkSpec => []LinkInv
<1>. QED  BY LinkStarts, LinkInductive, PTL DEF LinkSpec

-----------------------------------------------------------------------------
(* The theorems.                                                           *)

\* Every register, beat and count keeps its type.
THEOREM TypeCorrect == LinkSpec => []TypeOK
<1>1. LinkInv => TypeOK
  BY DEF LinkInv
<1>. QED  BY <1>1, LinkInvariance, PTL

\* Packets arrive whole, in order and at the port they were meant for, whatever
\* the number of ports, the lengths, the gaps and the stalls.
THEOREM PacketsArriveWhole == LinkSpec => []PacketsWhole
<1>1. LinkInv => PacketsWhole
  <2>. SUFFICES ASSUME LinkInv  PROVE PacketsWhole
    OBVIOUS
  <2>1. selected \in Port /\ Len(stream) \in Nat
    BY DEF LinkInv, TypeOK
  <2>2. ASSUME NEW k \in 1 .. Len(stream)
        PROVE  /\ Endpoints[stream[k].port] = destination
               /\ stream[k].source = Endpoints[stream[k].beat.port]
               /\ stream[k].beat.port = stream[1].beat.port
               /\ stream[k].beat.index = k /\ (stream[k].beat.last => k = Len(stream))
    BY <2>1 DEF LinkInv, Arrived
  <2>3. (state = "BODY" /\ Known(destination)) => Len(stream) = given[selected]
    BY DEF LinkInv, Arrived
  <2>. QED  BY <2>2, <2>3 DEF PacketsWhole
<1>. QED  BY <1>1, LinkInvariance, PTL

\* The waiting bound for every number of ports, of which the repository's own
\* induction proofs cover 1, 2, 3, 5 and 8.
THEOREM PassedOverAtMost == LinkSpec => []BypassBound
<1>1. LinkInv => BypassBound
  <2>. SUFFICES ASSUME LinkInv, NEW p \in Port  PROVE waited[p] <= Ports - 1
    BY DEF BypassBound
  <2>1. Cursor \in Port
    BY DistanceBounds DEF LinkInv, TypeOK, Cursor
  <2>2. waited[p] \in Nat /\ waited[p] + Distance(p, Cursor) <= Ports - 1
    BY DEF LinkInv, TypeOK, Waits
  <2>3. Distance(p, Cursor) \in 0 .. Ports - 1
    BY <2>1, DistanceBounds
  <2>. QED  BY <2>2, <2>3, PortsAssumption
<1>. QED  BY <1>1, LinkInvariance, PTL


-----------------------------------------------------------------------------
(* Counting in a channel.                                                  *)

\* How many of the first k elements of a sequence are in a set, and of all.
UpTo(q, k, S) == Cardinality({n \in 1 .. k : q[n] \in S})
Counted(q, S) == UpTo(q, Len(q), S)

-----------------------------------------------------------------------------
(* The retained-reply driver.                                              *)

CallId == Txid \ {CastId}
Frames == [call : {TRUE}, txid : Txid, number : Nat] \cup [call : {FALSE}, txid : {CastId}, number : Nat]
ErrorCode == {"busy", "protocol", "exhausted", "contract", "fault"}
Answer == [txid : Txid, code : {"reply"}, meant : Nat]
            \cup [txid : Txid \cup {CastId}, code : ErrorCode, meant : {0}]

AnswersOn(t) == {a \in Answer : a.txid = t}
CallsOn(t) == {f \in Frames : f.call /\ f.txid = t}

Typed ==
  /\ slots \in [Slot -> {None} \cup [handle : Nat \ {0}, txid : CallId]]
  /\ sequence \in Nat \ {0} /\ frames \in Nat
  /\ failure \in {None} \cup ErrorCode
  /\ invoked \in {None} \cup [kind : {"call"}, txid : Txid] \cup [kind : {"cast", "internal"}, txid : {CastId}]
  /\ invoked = None \/ sending = <<>>
  /\ sending \in Seq(Answer) /\ Len(sending) <= 1 /\ output \in Seq(Answer)
  /\ input \in Seq(Frames)
  /\ open \in [Txid -> SUBSET (1 .. frames)]
  /\ issued \subseteq (Nat \ {0}) \X (1 .. frames)
  /\ swallowed \subseteq CallId \X (1 .. frames)

\* Frames arrive in the order of their numbers.
Arriving ==
  /\ \A m, n \in 1 .. Len(input) : m < n => input[m].number < input[n].number
  /\ \A n \in 1 .. Len(input) : input[n].number \in 1 .. frames
  /\ \A n \in 1 .. Len(input), p \in issued \cup swallowed : p[2] < input[n].number

\* The call a host waits for is queued, or came before all that is queued.
QueuedCall(q, t, y) == \E n \in 1 .. Len(q) : q[n] \in CallsOn(t) /\ q[n].number = y
Waiting ==
  /\ \A t \in CallId, y \in Nat : QueuedCall(input, t, y) => y \in open[t]
  /\ \A t \in CallId : \A y \in open[t] :
       QueuedCall(input, t, y) \/ \A n \in 1 .. Len(input) : y < input[n].number

\* A handle is a call's alone; a live one stands for a call that is open, and
\* whatever is open and later was not taken yet, or was swallowed.
Held(h) == \E i \in Live : slots[i].handle = h
Retaining ==
  /\ \A p \in issued : p[1] < sequence
  /\ \A p, q \in issued : p[1] = q[1] \/ p[2] = q[2] => p = q
  /\ \A i, j \in Live : slots[i].handle = slots[j].handle => i = j
  /\ \A i \in Live : \E p \in issued : p[1] = slots[i].handle
  /\ \A i \in Live, p \in issued : p[1] = slots[i].handle =>
       LET t == slots[i].txid IN
       /\ p[2] \in open[t]
       /\ \A y \in open[t] : y > p[2] => QueuedCall(input, t, y) \/ <<t, y>> \in swallowed

Before(S, x) == {y \in S : y < x}

\* A reply that is under way is for an open call that no slot holds any more,
\* and before it there are no more answers than calls that are older.
Meets(a, ahead) ==
  a.code = "reply" =>
    /\ a.txid \in CallId /\ a.meant \in open[a.txid]
    /\ ahead <= Cardinality(Before(open[a.txid], a.meant))
    /\ \E p \in issued : p[2] = a.meant /\ ~Held(p[1])

Replying ==
  /\ \A n \in 1 .. Len(output) : Meets(output[n], UpTo(output, n - 1, AnswersOn(output[n].txid)))
  /\ \A n \in 1 .. Len(sending) : Meets(sending[n], Counted(output, AnswersOn(sending[n].txid)))
  /\ \A m, n \in 1 .. Len(output) :
       m < n /\ output[m].code = "reply" /\ output[n].code = "reply" => output[m].meant # output[n].meant
  /\ \A m \in 1 .. Len(output), n \in 1 .. Len(sending) :
       output[m].code = "reply" /\ sending[n].code = "reply" => output[m].meant # sending[n].meant

Balanced ==
  \A t \in CallId :
    Cardinality(open[t]) = Counted(input, CallsOn(t)) + Retained(t) + Counted(output, AnswersOn(t))
                             + Counted(sending, AnswersOn(t)) + Swallowed(t)

IInv == Typed /\ Arriving /\ Waiting /\ Retaining /\ Replying /\ Balanced

-----------------------------------------------------------------------------
(* Facts about counting.                                                   *)

LEMMA UpToFacts ==
  ASSUME NEW q, NEW k \in Nat, NEW S
  PROVE  UpTo(q, k, S) \in Nat /\ UpTo(q, k, S) <= k
<1>. DEFINE I == {n \in 1 .. k : q[n] \in S}
<1>1. IsFiniteSet(1 .. k) /\ Cardinality(1 .. k) = k
  BY FS_Interval
<1>2. I \in SUBSET (1 .. k)
  OBVIOUS
<1>3. IsFiniteSet(I) /\ Cardinality(I) <= k
  BY <1>1, <1>2, FS_Subset
<1>4. Cardinality(I) \in Nat
  BY <1>3, FS_CardinalityType
<1>. QED  BY <1>3, <1>4 DEF UpTo

LEMMA UpToFinite ==
  ASSUME NEW q, NEW k \in Nat, NEW S
  PROVE  IsFiniteSet({n \in 1 .. k : q[n] \in S})
<1>1. {n \in 1 .. k : q[n] \in S} \in SUBSET (1 .. k)
  OBVIOUS
<1>2. IsFiniteSet(1 .. k)
  BY FS_Interval
<1>. QED  BY <1>1, <1>2, FS_Subset

LEMMA UpToNothing == \A q, S : UpTo(q, 0, S) = 0
BY FS_EmptySet DEF UpTo

LEMMA UpToNext ==
  ASSUME NEW q, NEW k \in Nat, NEW S
  PROVE  UpTo(q, k + 1, S) = UpTo(q, k, S) + IF q[k + 1] \in S THEN 1 ELSE 0
<1>. DEFINE I(j) == {n \in 1 .. j : q[n] \in S}
<1>1. IsFiniteSet(I(k)) /\ k + 1 \notin I(k)
  <2>1. IsFiniteSet(I(k))
    BY UpToFinite
  <2>2. k + 1 \notin I(k)
    OBVIOUS
  <2>. QED  BY <2>1, <2>2
<1>2. UpTo(q, k, S) = Cardinality(I(k)) /\ UpTo(q, k + 1, S) = Cardinality(I(k + 1))
  BY DEF UpTo
<1>3. UpTo(q, k, S) \in Nat
  BY UpToFacts
<1>4. CASE q[k + 1] \in S
  <2>1. I(k + 1) = I(k) \cup {k + 1}
    BY <1>4
  <2>2. Cardinality(I(k) \cup {k + 1}) = Cardinality(I(k)) + 1
    <3>. HIDE DEF I
    <3>. QED  BY <1>1, FS_AddElement
  <2>. QED  BY <1>2, <1>4, <2>1, <2>2
<1>5. CASE q[k + 1] \notin S
  <2>1. I(k + 1) = I(k)
    BY <1>5
  <2>. QED  BY <1>2, <1>3, <1>5, <2>1
<1>. QED  BY <1>4, <1>5

LEMMA UpToAlike ==
  ASSUME NEW q, NEW r, NEW k \in Nat, NEW S, NEW T,
         \A n \in 1 .. k : q[n] \in S <=> r[n] \in T
  PROVE  UpTo(q, k, S) = UpTo(r, k, T)
<1>1. {n \in 1 .. k : q[n] \in S} = {n \in 1 .. k : r[n] \in T}
  OBVIOUS
<1>. QED  BY <1>1 DEF UpTo

\* Among the first k there are no more than among all.
LEMMA CountedFacts ==
  ASSUME NEW T, NEW q \in Seq(T), NEW S
  PROVE  /\ Counted(q, S) \in Nat
         /\ Counted(q, S) > 0 <=> \E n \in 1 .. Len(q) : q[n] \in S
         /\ q = <<>> => Counted(q, S) = 0
<1>. DEFINE I == {n \in 1 .. Len(q) : q[n] \in S}
<1>1. IsFiniteSet(I) /\ Counted(q, S) = Cardinality(I) /\ Counted(q, S) \in Nat
  <2>1. Len(q) \in Nat
    OBVIOUS
  <2>2. IsFiniteSet(I)
    BY <2>1, UpToFinite
  <2>3. UpTo(q, Len(q), S) \in Nat
    BY <2>1, UpToFacts
  <2>. QED  BY <2>2, <2>3 DEF Counted, UpTo
<1>2. Counted(q, S) = 0 <=> I = {}
  <2>. HIDE DEF I
  <2>. QED  BY <1>1, FS_EmptySet
<1>3. q = <<>> => I = {}
  OBVIOUS
<1>. QED  BY <1>1, <1>2, <1>3

LEMMA CountAppend ==
  ASSUME NEW T, NEW q \in Seq(T), NEW e \in T, NEW S
  PROVE  /\ Counted(Append(q, e), S) = Counted(q, S) + IF e \in S THEN 1 ELSE 0
         /\ \A k \in 0 .. Len(q) : UpTo(Append(q, e), k, S) = UpTo(q, k, S)
<1>. DEFINE r == Append(q, e)
<1>1. /\ Len(q) \in Nat /\ Len(r) = Len(q) + 1 /\ r[Len(q) + 1] = e
      /\ \A n \in 1 .. Len(q) : r[n] = q[n]
  OBVIOUS
<1>2. ASSUME NEW k \in 0 .. Len(q)
      PROVE  UpTo(r, k, S) = UpTo(q, k, S)
  <2>1. k \in Nat /\ \A n \in 1 .. k : r[n] \in S <=> q[n] \in S
    BY <1>1
  <2>. HIDE DEF r
  <2>. QED  BY <2>1, UpToAlike
<1>3. UpTo(r, Len(q) + 1, S) = UpTo(r, Len(q), S) + IF r[Len(q) + 1] \in S THEN 1 ELSE 0
  <2>. HIDE DEF r
  <2>. QED  BY <1>1, UpToNext
<1>4. UpTo(r, Len(q), S) = UpTo(q, Len(q), S)
  BY <1>1, <1>2
<1>. HIDE DEF r
<1>5. Counted(r, S) = Counted(q, S) + IF e \in S THEN 1 ELSE 0
  BY <1>1, <1>3, <1>4 DEF Counted
<1>. QED  BY <1>2, <1>5 DEF r

\* What follows the head is counted from one place later.
LEMMA ShiftCount ==
  ASSUME NEW T, NEW q \in Seq(T), q # <<>>, NEW S
  PROVE  /\ Counted(Tail(q), S) = Counted(q, S) - IF Head(q) \in S THEN 1 ELSE 0
         /\ \A k \in 0 .. Len(q) - 1 :
              UpTo(Tail(q), k, S) = UpTo(q, k + 1, S) - IF Head(q) \in S THEN 1 ELSE 0
<1>. DEFINE r == Tail(q)
            h == IF Head(q) \in S THEN 1 ELSE 0
            N == Len(q) - 1
            K == {k \in 0 .. N : UpTo(r, k, S) = UpTo(q, k + 1, S) - h}
<1>1. /\ N \in Nat /\ Len(r) = N /\ Head(q) = q[1] /\ Len(q) = N + 1
      /\ \A n \in 1 .. N : r[n] = q[n + 1]
  OBVIOUS
<1>2. 0 \in K
  <2>1. UpTo(q, 0 + 1, S) = UpTo(q, 0, S) + h
    BY <1>1, UpToNext
  <2>2. UpTo(q, 0, S) = 0 /\ UpTo(r, 0, S) = 0
    BY UpToNothing
  <2>. QED  BY <1>1, <2>1, <2>2
<1>3. ASSUME NEW n \in 1 .. N, n - 1 \in K
      PROVE  n \in K
  <2>1. n \in Nat /\ n - 1 \in Nat /\ (n - 1) + 1 = n
    BY <1>1
  <2>2. UpTo(r, n, S) = UpTo(r, n - 1, S) + IF r[n] \in S THEN 1 ELSE 0
    <3>. HIDE DEF r
    <3>1. \A k \in Nat : UpTo(r, k + 1, S) = UpTo(r, k, S) + IF r[k + 1] \in S THEN 1 ELSE 0
      BY UpToNext
    <3>. QED  BY <2>1, <3>1
  <2>3. UpTo(q, n + 1, S) = UpTo(q, n, S) + IF q[n + 1] \in S THEN 1 ELSE 0
    BY <2>1, UpToNext
  <2>4. r[n] = q[n + 1]
    BY <1>1
  <2>5. UpTo(r, n - 1, S) = UpTo(q, n, S) - h
    BY <1>3, <2>1
  <2>6. UpTo(q, n, S) \in Nat /\ h \in {0, 1}
    BY <2>1, UpToFacts
  <2>7. UpTo(r, n, S) = UpTo(q, n + 1, S) - h
    <3>. HIDE DEF r, h
    <3>. QED  BY <2>2, <2>3, <2>4, <2>5, <2>6
  <2>. QED  BY <1>1, <2>7
<1>4. \A k \in 0 .. N : k \in K
  <2>. HIDE DEF K, N
  <2>. QED  BY <1>1, <1>2, <1>3, Climb
<1>5. \A k \in 0 .. N : UpTo(r, k, S) = UpTo(q, k + 1, S) - h
  BY <1>4
<1>6. Counted(r, S) = Counted(q, S) - h
  <2>1. UpTo(r, N, S) = UpTo(q, N + 1, S) - h
    BY <1>1, <1>5
  <2>. HIDE DEF r, h, N
  <2>. QED  BY <1>1, <2>1 DEF Counted
<1>. QED  BY <1>5, <1>6

\* Where an element came from.
LEMMA UpToBounds ==
  ASSUME NEW q, NEW k \in Nat, NEW S, NEW n \in 1 .. k, q[n] \in S
  PROVE  UpTo(q, k, S) >= 1
<1>. DEFINE I == {m \in 1 .. k : q[m] \in S}
<1>1. IsFiniteSet(I) /\ n \in I /\ UpTo(q, k, S) = Cardinality(I) /\ UpTo(q, k, S) \in Nat
  <2>1. IsFiniteSet(I)
    BY UpToFinite
  <2>. QED  BY <2>1, UpToFacts DEF UpTo
<1>2. Cardinality(I) # 0
  <2>. HIDE DEF I
  <2>. QED  BY <1>1, FS_EmptySet
<1>. QED  BY <1>1, <1>2

LEMMA Injects ==
  ASSUME NEW A, NEW B, IsFiniteSet(B), NEW f \in [A -> B],
         \A x, y \in A : f[x] = f[y] => x = y
  PROVE  IsFiniteSet(A) /\ Cardinality(A) <= Cardinality(B)
<1>1. f \in Injection(A, B)
  BY DEF Injection, IsInjective
<1>. QED  BY <1>1, FS_Injection

LEMMA SingleCount ==
  ASSUME NEW T, NEW e \in T, NEW S
  PROVE  Counted(<<e>>, S) = IF e \in S THEN 1 ELSE 0
<1>1. <<>> \in Seq(T) /\ <<e>> = Append(<<>>, e)
  OBVIOUS
<1>2. Counted(<<>>, S) = 0
  BY <1>1, CountedFacts
<1>3. Counted(Append(<<>>, e), S) = Counted(<<>>, S) + IF e \in S THEN 1 ELSE 0
  BY <1>1, CountAppend
<1>. QED  BY <1>1, <1>2, <1>3

-----------------------------------------------------------------------------
(* The places a call can be in, and how many are in each.                  *)

RetainedOn(t) == {i \in Live : slots[i].txid = t}
SwallowedOn(t) == {s \in swallowed : s[1] = t}

LEMMA PlacesFinite ==
  ASSUME Typed, NEW t \in Txid
  PROVE  /\ IsFiniteSet(open[t]) /\ open[t] \subseteq Nat
         /\ IsFiniteSet(RetainedOn(t)) /\ IsFiniteSet(SwallowedOn(t))
<1>1. frames \in Nat /\ Slots \in Nat
  BY SlotsAssumption DEF Typed
<1>2. IsFiniteSet(1 .. frames) /\ IsFiniteSet(1 .. Slots) /\ IsFiniteSet({t})
  <2>1. IsFiniteSet(1 .. frames) /\ IsFiniteSet(1 .. Slots)
    BY <1>1, FS_Interval
  <2>2. IsFiniteSet({t})
    BY FS_Singleton
  <2>. QED  BY <2>1, <2>2
<1>3. open[t] \in SUBSET (1 .. frames) /\ open[t] \subseteq Nat
  BY <1>1 DEF Typed
<1>4. RetainedOn(t) \in SUBSET (1 .. Slots)
  BY DEF RetainedOn, Live, Slot
<1>5. SwallowedOn(t) \in SUBSET ({t} \X (1 .. frames))
  BY DEF SwallowedOn, Typed
<1>6. IsFiniteSet({t} \X (1 .. frames))
  BY <1>2, FS_Product
<1>. QED  BY <1>2, <1>3, <1>4, <1>5, <1>6, FS_Subset

LEMMA PlacesCounted ==
  ASSUME Typed, NEW t \in Txid
  PROVE  /\ Cardinality(open[t]) \in Nat
         /\ Retained(t) = Cardinality(RetainedOn(t)) /\ Retained(t) \in Nat
         /\ Swallowed(t) = Cardinality(SwallowedOn(t)) /\ Swallowed(t) \in Nat
         /\ Counted(input, CallsOn(t)) \in Nat
         /\ Counted(output, AnswersOn(t)) \in Nat
         /\ Counted(sending, AnswersOn(t)) \in Nat
<1>1. Retained(t) = Cardinality(RetainedOn(t)) /\ Swallowed(t) = Cardinality(SwallowedOn(t))
  BY DEF Retained, RetainedOn, Swallowed, SwallowedOn
<1>2. /\ Cardinality(open[t]) \in Nat /\ Cardinality(RetainedOn(t)) \in Nat
      /\ Cardinality(SwallowedOn(t)) \in Nat
  BY PlacesFinite, FS_CardinalityType
<1>3. input \in Seq(Frames) /\ output \in Seq(Answer) /\ sending \in Seq(Answer)
  BY DEF Typed
<1>. QED  BY <1>1, <1>2, <1>3, CountedFacts

\* Calls that are queued or swallowed are no more than those two places hold.
LEMMA LaterBound ==
  ASSUME Typed, Arriving, NEW t \in CallId, NEW L, L \subseteq Nat,
         \A y \in L : QueuedCall(input, t, y) \/ <<t, y>> \in swallowed
  PROVE  /\ IsFiniteSet(L)
         /\ Cardinality(L) <= Counted(input, CallsOn(t)) + Swallowed(t)
<1>. DEFINE Q == {y \in L : QueuedCall(input, t, y)}
            W == {y \in L : <<t, y>> \in swallowed}
            I == {n \in 1 .. Len(input) : input[n] \in CallsOn(t)}
            place == [y \in Q |-> CHOOSE n \in I : input[n].number = y]
            pair == [y \in W |-> <<t, y>>]
<1>1. t \in Txid
  BY DEF CallId
<1>2. IsFiniteSet(I) /\ Counted(input, CallsOn(t)) = Cardinality(I)
  <2>1. Len(input) \in Nat
    BY DEF Typed
  <2>. QED  BY <2>1, UpToFinite DEF Counted, UpTo
<1>3. \A y \in Q : place[y] \in I /\ input[place[y]].number = y
  BY DEF QueuedCall
<1>4. place \in [Q -> I] /\ \A x, y \in Q : place[x] = place[y] => x = y
  BY <1>3
<1>5. IsFiniteSet(Q) /\ Cardinality(Q) <= Cardinality(I)
  <2>. HIDE DEF Q, I, place
  <2>. QED  BY <1>2, <1>4, Injects
<1>6. pair \in [W -> SwallowedOn(t)] /\ \A x, y \in W : pair[x] = pair[y] => x = y
  BY DEF SwallowedOn
<1>7. IsFiniteSet(SwallowedOn(t)) /\ Swallowed(t) = Cardinality(SwallowedOn(t))
  BY <1>1, PlacesFinite, PlacesCounted
<1>8. IsFiniteSet(W) /\ Cardinality(W) <= Cardinality(SwallowedOn(t))
  <2>. HIDE DEF W, pair
  <2>. QED  BY <1>6, <1>7, Injects
<1>9. L = Q \cup W
  OBVIOUS
<1>10. /\ IsFiniteSet(Q \cup W) /\ IsFiniteSet(Q \cap W)
       /\ Cardinality(Q \cup W) = Cardinality(Q) + Cardinality(W) - Cardinality(Q \cap W)
  <2>1. Q \cap W \in SUBSET Q
    OBVIOUS
  <2>. HIDE DEF Q, W
  <2>. QED  BY <1>5, <1>8, <2>1, FS_Union, FS_Subset
<1>11. /\ Cardinality(Q) \in Nat /\ Cardinality(W) \in Nat /\ Cardinality(Q \cap W) \in Nat
       /\ Cardinality(I) \in Nat /\ Cardinality(SwallowedOn(t)) \in Nat
  <2>. HIDE DEF Q, W, I
  <2>. QED  BY <1>2, <1>5, <1>7, <1>8, <1>10, FS_CardinalityType
<1>. HIDE DEF Q, W, I
<1>. QED  BY <1>2, <1>5, <1>7, <1>8, <1>9, <1>10, <1>11

\* A number of a set, those before it and those after it.
LEMMA Parted ==
  ASSUME NEW S, S \subseteq Nat, IsFiniteSet(S), NEW x \in S
  PROVE  LET B == {y \in S : y < x}
             A == {y \in S : y > x}
         IN  /\ IsFiniteSet(B) /\ IsFiniteSet(A)
             /\ Cardinality(B) \in Nat /\ Cardinality(A) \in Nat
             /\ Cardinality(S) = Cardinality(B) + 1 + Cardinality(A)
<1>. DEFINE B == {y \in S : y < x}
            A == {y \in S : y > x}
<1>1. S = (B \cup A) \cup {x} /\ x \notin B \cup A /\ B \cap A = {}
  <2>1. \A y \in S : y \in Nat /\ (y < x \/ y = x \/ y > x)
    OBVIOUS
  <2>2. \A y \in S : ~(y < x /\ y > x) /\ ~(x < x) /\ ~(x > x)
    OBVIOUS
  <2>3. S = (B \cup A) \cup {x}
    BY <2>1
  <2>4. x \notin B /\ x \notin A /\ \A y \in B : y \notin A
    BY <2>2
  <2>. HIDE DEF A, B
  <2>. QED  BY <2>3, <2>4
<1>2. B \in SUBSET S /\ A \in SUBSET S
  OBVIOUS
<1>. HIDE DEF A, B
<1>3. IsFiniteSet(B) /\ IsFiniteSet(A)
  BY <1>2, FS_Subset
<1>4. Cardinality(B) \in Nat /\ Cardinality(A) \in Nat
  BY <1>3, FS_CardinalityType
<1>5. IsFiniteSet(B \cup A) /\ Cardinality(B \cup A) = Cardinality(B) + Cardinality(A)
  <2>1. Cardinality(B \cap A) = 0
    BY <1>1, FS_EmptySet
  <2>2. /\ IsFiniteSet(B \cup A)
        /\ Cardinality(B \cup A) = Cardinality(B) + Cardinality(A) - Cardinality(B \cap A)
    BY <1>3, FS_Union
  <2>. QED  BY <1>4, <2>1, <2>2
<1>6. Cardinality(S) = Cardinality(B \cup A) + 1
  BY <1>1, <1>5, FS_AddElement
<1>7. Cardinality(S) = Cardinality(B) + 1 + Cardinality(A)
  BY <1>4, <1>5, <1>6
<1>. QED  BY <1>3, <1>4, <1>7 DEF A, B

\* When all that is open and later was not taken, or was swallowed, the older
\* calls are as many as the slots and the answers under way, but for one.
LEMMA OlderEnough ==
  ASSUME Typed, Arriving, Balanced, NEW t \in CallId, NEW x \in open[t],
         \A y \in open[t] : y > x => QueuedCall(input, t, y) \/ <<t, y>> \in swallowed
  PROVE  /\ Cardinality(Before(open[t], x)) \in Nat
         /\ Cardinality(Before(open[t], x)) + 1 >=
              Retained(t) + Counted(output, AnswersOn(t)) + Counted(sending, AnswersOn(t))
<1>. DEFINE A == {y \in open[t] : y > x}
<1>1. t \in Txid
  BY DEF CallId
<1>2. IsFiniteSet(open[t]) /\ open[t] \subseteq Nat
  BY <1>1, PlacesFinite
<1>3. /\ Cardinality(Before(open[t], x)) \in Nat /\ Cardinality(A) \in Nat
      /\ Cardinality(open[t]) = Cardinality(Before(open[t], x)) + 1 + Cardinality(A)
  BY <1>2, Parted DEF Before
<1>4. A \subseteq Nat /\ \A y \in A : QueuedCall(input, t, y) \/ <<t, y>> \in swallowed
  BY <1>2
<1>5. Cardinality(A) <= Counted(input, CallsOn(t)) + Swallowed(t)
  <2>. HIDE DEF A
  <2>. QED  BY <1>4, LaterBound
<1>6. Cardinality(open[t]) = Counted(input, CallsOn(t)) + Retained(t) + Counted(output, AnswersOn(t))
                               + Counted(sending, AnswersOn(t)) + Swallowed(t)
  BY DEF Balanced
<1>. HIDE DEF A
<1>. QED  BY <1>1, <1>3, <1>5, <1>6, PlacesCounted

\* What is counted on an ID is there.
LEMMA RetainedThere ==
  ASSUME Typed, NEW i \in Live
  PROVE  /\ slots[i] \in [handle : Nat \ {0}, txid : CallId] /\ i \in Slot
         /\ Retained(slots[i].txid) >= 1
<1>. DEFINE t == slots[i].txid
<1>1. slots[i] \in [handle : Nat \ {0}, txid : CallId] /\ i \in Slot /\ t \in Txid
  BY DEF Typed, Live, CallId
<1>2. i \in RetainedOn(t)
  BY DEF RetainedOn
<1>3. IsFiniteSet(RetainedOn(t)) /\ Retained(t) = Cardinality(RetainedOn(t)) /\ Retained(t) \in Nat
  BY <1>1, PlacesFinite, PlacesCounted
<1>4. Retained(t) # 0
  BY <1>2, <1>3, FS_EmptySet
<1>. QED  BY <1>1, <1>3, <1>4

-----------------------------------------------------------------------------
(* The steps that give nothing up: the start, the host's frames, the         *)
(* worker's calls and the transport.                                        *)

LEMMA MinIsLeast ==
  ASSUME NEW S, S \subseteq Nat, S # {}
  PROVE  Min(S) \in S /\ \A y \in S : Min(S) <= y
<1>1. \E x \in S : \A y \in S : x <= y
  BY MinimumExists
<1>. QED  BY <1>1 DEF Min

LEMMA InitEstablishes == Init => IInv
<1>. SUFFICES ASSUME Init  PROVE IInv
  OBVIOUS
<1>1. /\ slots = [i \in Slot |-> None] /\ sequence = 1 /\ failure = None /\ invoked = None
      /\ sending = <<>> /\ input = <<>> /\ output = <<>> /\ frames = 0
      /\ open = [t \in Txid |-> {}] /\ issued = {} /\ swallowed = {}
  BY DEF Init
<1>2. Live = {}
  BY <1>1 DEF Live
<1>3. Typed
  BY <1>1 DEF Typed
<1>4. Arriving
  BY <1>1 DEF Arriving
<1>5. Waiting
  BY <1>1 DEF Waiting, QueuedCall, CallId
<1>6. Retaining
  BY <1>1, <1>2 DEF Retaining
<1>7. Replying
  BY <1>1 DEF Replying
<1>8. Balanced
  <2>. SUFFICES ASSUME NEW t \in CallId
                PROVE  Cardinality(open[t]) = Counted(input, CallsOn(t)) + Retained(t) + Counted(output, AnswersOn(t))
                                                + Counted(sending, AnswersOn(t)) + Swallowed(t)
    BY DEF Balanced
  <2>1. open[t] = {} /\ RetainedOn(t) = {} /\ SwallowedOn(t) = {} /\ t \in Txid
    BY <1>1, <1>2 DEF RetainedOn, SwallowedOn, CallId
  <2>2. Cardinality(open[t]) = 0 /\ Retained(t) = 0 /\ Swallowed(t) = 0
    BY <1>3, <2>1, PlacesCounted, FS_EmptySet
  <2>3. /\ Counted(input, CallsOn(t)) = 0 /\ Counted(output, AnswersOn(t)) = 0
        /\ Counted(sending, AnswersOn(t)) = 0
    BY <1>1, <1>3, CountedFacts DEF Typed
  <2>. QED  BY <2>2, <2>3
<1>. QED  BY <1>3, <1>4, <1>5, <1>6, <1>7, <1>8 DEF IInv

\* The number is the only thing the host sets.
LEMMA Renumbered ==
  ASSUME NEW frame \in HostFrame, NEW n \in Nat
  PROVE  LET new == [frame EXCEPT !.number = n]
         IN  /\ new \in Frames /\ new.number = n /\ new.call = frame.call /\ new.txid = frame.txid
             /\ frame.call => frame.txid \in Txid
             /\ ~frame.call => frame.txid = CastId
<1>1. CASE frame \in [call : {TRUE}, txid : Txid, number : {0}]
  <2>1. [frame EXCEPT !.number = n] \in [call : {TRUE}, txid : Txid, number : Nat]
    BY <1>1
  <2>2. frame.txid \in Txid /\ frame.call
    BY <1>1
  <2>3. /\ [frame EXCEPT !.number = n].number = n /\ [frame EXCEPT !.number = n].call = frame.call
        /\ [frame EXCEPT !.number = n].txid = frame.txid
    BY <1>1
  <2>. QED  BY <2>1, <2>2, <2>3 DEF Frames
<1>2. CASE frame \in [call : {FALSE}, txid : {CastId}, number : {0}]
  <2>1. [frame EXCEPT !.number = n] \in [call : {FALSE}, txid : {CastId}, number : Nat]
    BY <1>2
  <2>2. frame.txid = CastId /\ ~frame.call
    BY <1>2
  <2>3. /\ [frame EXCEPT !.number = n].number = n /\ [frame EXCEPT !.number = n].call = frame.call
        /\ [frame EXCEPT !.number = n].txid = frame.txid
    BY <1>2
  <2>. QED  BY <2>1, <2>2, <2>3 DEF Frames
<1>. QED  BY <1>1, <1>2 DEF HostFrame

\* A frame that the host sends is the newest.
LEMMA HostSendsKeeps ==
  ASSUME IInv, NEW frame \in HostFrame, HostSends(frame)
  PROVE  IInv'
<1>. DEFINE new == [frame EXCEPT !.number = frames + 1]
            id == frame.txid
<1>1. /\ slots' = slots /\ sequence' = sequence /\ failure' = failure /\ invoked' = invoked
      /\ sending' = sending /\ output' = output /\ issued' = issued /\ swallowed' = swallowed
      /\ frames' = frames + 1 /\ input' = Append(input, new)
      /\ open' = IF frame.call THEN [open EXCEPT ![id] = @ \cup {frames + 1}] ELSE open
  BY DEF HostSends, driver
<1>2. /\ new \in Frames /\ new.number = frames + 1 /\ new.call = frame.call /\ new.txid = id
      /\ frames \in Nat /\ (frame.call => id \in Txid) /\ (~frame.call => id = CastId)
  <2>1. frames \in Nat
    BY DEF IInv, Typed
  <2>. QED  BY <2>1, Renumbered
<1>. HIDE DEF new
<1>3. /\ input \in Seq(Frames) /\ input' \in Seq(Frames) /\ Len(input') = Len(input) + 1
      /\ Len(input) \in Nat
      /\ input'[Len(input) + 1] = new /\ \A n \in 1 .. Len(input) : input'[n] = input[n]
  BY <1>1, <1>2 DEF IInv, Typed
<1>4. /\ \A t \in Txid : open[t] \subseteq 1 .. frames
      /\ \A t \in Txid : open'[t] = IF frame.call /\ t = id THEN open[t] \cup {frames + 1} ELSE open[t]
  BY <1>1, <1>2 DEF IInv, Typed
<1>. /\ \A t \in Txid : open[t] \subseteq open'[t]
     /\ \A t \in Txid : \A y : y \in open'[t] /\ y \notin open[t] => frame.call /\ t = id /\ y = frames + 1
  BY <1>4
<1>5. Live' = Live
  BY <1>1 DEF Live
<1>6. Typed'
  <2>1. open' \in [Txid -> SUBSET (1 .. frames')]
    BY <1>1, <1>2, <1>4 DEF IInv, Typed
  <2>2. /\ issued \subseteq (Nat \ {0}) \X (1 .. frames') /\ swallowed \subseteq CallId \X (1 .. frames')
        /\ frames' \in Nat
    BY <1>1, <1>2 DEF IInv, Typed
  <2>. QED  BY <1>1, <1>3, <2>1, <2>2 DEF IInv, Typed
<1>7. Arriving'
  <2>1. \A n \in 1 .. Len(input) : input[n].number \in 1 .. frames
    BY DEF IInv, Arriving
  <2>2. \A p \in issued \cup swallowed : p[2] \in 1 .. frames
    BY DEF IInv, Typed
  <2>3. ASSUME NEW m \in 1 .. Len(input'), NEW n \in 1 .. Len(input'), m < n
        PROVE  input'[m].number < input'[n].number
    <3>1. CASE n = Len(input) + 1
      BY <1>2, <1>3, <2>1, <2>3, <3>1
    <3>2. CASE n # Len(input) + 1
      BY <1>3, <2>3, <3>2 DEF IInv, Arriving
    <3>. QED  BY <3>1, <3>2
  <2>4. \A n \in 1 .. Len(input') : input'[n].number \in 1 .. frames'
    BY <1>1, <1>2, <1>3, <2>1
  <2>5. ASSUME NEW n \in 1 .. Len(input'), NEW p \in issued \cup swallowed
        PROVE  p[2] < input'[n].number
    <3>1. CASE n = Len(input) + 1
      BY <1>2, <1>3, <2>2, <3>1
    <3>2. CASE n # Len(input) + 1
      BY <1>3, <3>2 DEF IInv, Arriving
    <3>. QED  BY <3>1, <3>2
  <2>. QED  BY <1>1, <2>3, <2>4, <2>5 DEF Arriving
<1>8. ASSUME NEW t \in CallId, NEW y
      PROVE  QueuedCall(input', t, y) <=> QueuedCall(input, t, y) \/ (frame.call /\ t = id /\ y = frames + 1)
  <2>1. new \in CallsOn(t) <=> frame.call /\ t = id
    BY <1>2 DEF CallsOn
  <2>. QED  BY <1>2, <1>3, <2>1 DEF QueuedCall
<1>9. Waiting'
  <2>1. ASSUME NEW t \in CallId, NEW y \in open'[t]
        PROVE  QueuedCall(input', t, y) \/ \A n \in 1 .. Len(input') : y < input'[n].number
    <3>1. t \in Txid
      BY DEF CallId
    <3>2. CASE y \in open[t]
      <4>1. QueuedCall(input, t, y) \/ \A n \in 1 .. Len(input) : y < input[n].number
        BY <3>2 DEF IInv, Waiting
      <4>2. y < frames + 1
        BY <1>2, <1>4, <3>1, <3>2
      <4>3. QueuedCall(input, t, y) => QueuedCall(input', t, y)
        BY <1>8
      <4>4. ASSUME \A n \in 1 .. Len(input) : y < input[n].number, NEW n \in 1 .. Len(input')
            PROVE  y < input'[n].number
        <5>1. CASE n = Len(input) + 1
          BY <1>2, <1>3, <4>2, <5>1
        <5>2. CASE n # Len(input) + 1
          BY <1>3, <4>4, <5>2
        <5>. QED  BY <5>1, <5>2
      <4>. QED  BY <4>1, <4>3, <4>4
    <3>3. CASE y \notin open[t]
      BY <1>8, <2>1, <3>1, <3>3
    <3>. QED  BY <3>2, <3>3
  <2>2. ASSUME NEW t \in CallId, NEW y \in Nat, QueuedCall(input', t, y)
        PROVE  y \in open'[t]
    <3>1. t \in Txid
      BY DEF CallId
    <3>2. CASE QueuedCall(input, t, y)
      BY <3>1, <3>2 DEF IInv, Waiting
    <3>3. CASE frame.call /\ t = id /\ y = frames + 1
      BY <1>4, <3>1, <3>3
    <3>. QED  BY <1>8, <2>2, <3>2, <3>3
  <2>. QED  BY <2>1, <2>2 DEF Waiting
<1>10. Retaining'
  <2>1. ASSUME NEW i \in Live, NEW p \in issued, p[1] = slots[i].handle
        PROVE  /\ p[2] \in open'[slots[i].txid]
               /\ \A y \in open'[slots[i].txid] :
                    y > p[2] => QueuedCall(input', slots[i].txid, y) \/ <<slots[i].txid, y>> \in swallowed
    <3>1. slots[i].txid \in CallId /\ slots[i].txid \in Txid
      BY RetainedThere DEF IInv, CallId
    <3>2. /\ p[2] \in open[slots[i].txid]
          /\ \A y \in open[slots[i].txid] :
               y > p[2] => QueuedCall(input, slots[i].txid, y) \/ <<slots[i].txid, y>> \in swallowed
      BY <2>1 DEF IInv, Retaining
    <3>3. ASSUME NEW y \in open'[slots[i].txid], y > p[2]
          PROVE  QueuedCall(input', slots[i].txid, y) \/ <<slots[i].txid, y>> \in swallowed
      <4>1. CASE y \in open[slots[i].txid]
        BY <1>8, <3>1, <3>2, <3>3, <4>1
      <4>2. CASE y \notin open[slots[i].txid]
        BY <1>8, <3>1, <3>3, <4>2
      <4>. QED  BY <4>1, <4>2
    <3>. QED  BY <3>1, <3>2, <3>3
  <2>2. /\ \A p \in issued : p[1] < sequence
        /\ \A p, q \in issued : p[1] = q[1] \/ p[2] = q[2] => p = q
        /\ \A i, j \in Live : slots[i].handle = slots[j].handle => i = j
        /\ \A i \in Live : \E p \in issued : p[1] = slots[i].handle
    BY DEF IInv, Retaining
  <2>. QED  BY <1>1, <1>5, <2>1, <2>2 DEF Retaining
<1>11. Replying'
  <2>1. \A h : Held(h)' <=> Held(h)
    BY <1>1, <1>5 DEF Held
  <2>2. ASSUME NEW a \in Answer, NEW k, Meets(a, k)
        PROVE  Meets(a, k)'
    <3>1. CASE a.code = "reply"
      <4>1. a.txid \in CallId /\ a.txid \in Txid /\ a.meant \in open[a.txid]
        BY <2>2, <3>1 DEF Meets, CallId
      <4>2. a.meant \in Nat /\ a.meant <= frames /\ a.meant \in open'[a.txid]
        <5>1. open[a.txid] \subseteq 1 .. frames
          BY <1>4, <4>1
        <5>. QED  BY <1>2, <4>1, <5>1
      <4>3. Before(open'[a.txid], a.meant) = Before(open[a.txid], a.meant)
        <5>1. ~(frames + 1 < a.meant)
          BY <1>2, <4>2
        <5>2. \A y : y \in open'[a.txid] /\ y < a.meant <=> y \in open[a.txid] /\ y < a.meant
          BY <4>1, <5>1
        <5>. QED  BY <2>2, <5>2 DEF Before
      <4>. QED  BY <1>1, <2>1, <2>2, <4>1, <4>2, <4>3 DEF Meets
    <3>2. CASE a.code # "reply"
      BY <3>2 DEF Meets
    <3>. QED  BY <3>1, <3>2
  <2>3. /\ \A n \in 1 .. Len(output) : output[n] \in Answer
        /\ \A n \in 1 .. Len(sending) : sending[n] \in Answer
    BY DEF IInv, Typed
  <2>. QED  BY <1>1, <2>2, <2>3 DEF IInv, Replying
<1>12. Balanced'
  <2>. SUFFICES ASSUME NEW t \in CallId
                PROVE  Cardinality(open'[t]) = Counted(input', CallsOn(t)) + Retained(t)' + Counted(output', AnswersOn(t))
                                                 + Counted(sending', AnswersOn(t)) + Swallowed(t)'
    BY DEF Balanced
  <2>1. Retained(t)' = Retained(t) /\ Swallowed(t)' = Swallowed(t) /\ t \in Txid
    BY <1>1, <1>5 DEF Retained, Swallowed, CallId
  <2>2. Counted(input', CallsOn(t)) = Counted(input, CallsOn(t)) + IF new \in CallsOn(t) THEN 1 ELSE 0
    BY <1>1, <1>2, <1>3, CountAppend
  <2>3. new \in CallsOn(t) <=> frame.call /\ t = id
    BY <1>2 DEF CallsOn
  <2>4. IsFiniteSet(open[t]) /\ frames + 1 \notin open[t]
    BY <1>2, <1>4, <2>1, PlacesFinite DEF IInv
  <2>5. Cardinality(open[t] \cup {frames + 1}) = Cardinality(open[t]) + 1
    BY <2>4, FS_AddElement
  <2>6. Cardinality(open'[t]) = Cardinality(open[t]) + IF new \in CallsOn(t) THEN 1 ELSE 0
    <3>1. Cardinality(open[t]) \in Nat
      BY <2>1, PlacesCounted DEF IInv
    <3>2. CASE new \in CallsOn(t)
      BY <1>4, <2>1, <2>3, <2>5, <3>2
    <3>3. CASE new \notin CallsOn(t)
      <4>1. open'[t] = open[t]
        BY <1>4, <2>1, <2>3, <3>3
      <4>. QED  BY <3>1, <3>3, <4>1
    <3>. QED  BY <3>2, <3>3
  <2>7. Cardinality(open[t]) = Counted(input, CallsOn(t)) + Retained(t) + Counted(output, AnswersOn(t))
                                 + Counted(sending, AnswersOn(t)) + Swallowed(t)
    BY DEF IInv, Balanced
  <2>. QED  BY <1>1, <2>1, <2>2, <2>6, <2>7, PlacesCounted DEF IInv
<1>. QED  BY <1>6, <1>7, <1>9, <1>10, <1>11, <1>12 DEF IInv

-----------------------------------------------------------------------------
(* What the steps of the driver have in common.                            *)

\* An answer goes on meeting its call while the open calls stay and no handle
\* that was given up comes back.
LEMMA MeetsKept ==
  ASSUME open' = open, issued \subseteq issued',
         \A p \in issued : Held(p[1])' => Held(p[1]),
         NEW a, NEW k, Meets(a, k)
  PROVE  Meets(a, k)'
<1>1. ASSUME a.code = "reply"
      PROVE  \E p \in issued' : p[2] = a.meant /\ ~Held(p[1])'
  <2>1. PICK p \in issued : p[2] = a.meant /\ ~Held(p[1])
    BY <1>1 DEF Meets
  <2>. QED  BY <2>1
<1>2. (Meets(a, k))' <=>
        (a.code = "reply" =>
           /\ a.txid \in CallId /\ a.meant \in open[a.txid]
           /\ k <= Cardinality(Before(open[a.txid], a.meant))
           /\ \E p \in issued' : p[2] = a.meant /\ ~Held(p[1])')
  BY DEF Meets
<1>. QED  BY <1>1, <1>2 DEF Meets

\* The answers that output holds go on doing so when it is not touched.
LEMMA OutputKept ==
  ASSUME IInv, open' = open, issued \subseteq issued', output' = output,
         \A p \in issued : Held(p[1])' => Held(p[1]),
         sending' = <<>> \/ \E e : sending' = <<e>> /\ e.code # "reply"
  PROVE  Replying'
<1>1. \A n \in 1 .. Len(output) :
        (Meets(output[n], UpTo(output, n - 1, AnswersOn(output[n].txid))))'
  <2>. SUFFICES ASSUME NEW n \in 1 .. Len(output)
                PROVE  (Meets(output[n], UpTo(output, n - 1, AnswersOn(output[n].txid))))'
    OBVIOUS
  <2>. DEFINE a == output[n]
              k == UpTo(output, n - 1, AnswersOn(output[n].txid))
  <2>1. Meets(a, k)
    BY DEF IInv, Replying
  <2>. HIDE DEF a, k
  <2>2. a' = a /\ k' = k
    BY DEF a, k
  <2>3. \A b, j : Meets(b, j) => Meets(b, j)'
    BY MeetsKept
  <2>. QED  BY <2>1, <2>2, <2>3 DEF a, k
<1>2. \A n \in 1 .. Len(sending') : sending'[n].code # "reply"
  OBVIOUS
<1>3. \A m, n \in 1 .. Len(output) :
        m < n /\ output[m].code = "reply" /\ output[n].code = "reply" => output[m].meant # output[n].meant
  BY DEF IInv, Replying
<1>. QED  BY <1>1, <1>2, <1>3 DEF Replying, Meets

\* The frame at the head of the input is the oldest that is queued.
LEMMA TakingFacts ==
  ASSUME IInv, input # <<>>, input' = Tail(input), frames' = frames, open' = open
  PROVE  /\ Frame \in Frames /\ Frame.number \in 1 .. frames /\ input' \in Seq(Frames)
         /\ \A m, n \in 1 .. Len(input') : m < n => input'[m].number < input'[n].number
         /\ \A n \in 1 .. Len(input') : input'[n].number \in 1 .. frames /\ Frame.number < input'[n].number
         /\ \A n \in 1 .. Len(input'), p \in issued \cup swallowed : p[2] < input'[n].number
         /\ \A p \in issued \cup swallowed : p[2] < Frame.number
         /\ \A t \in CallId : \A y : QueuedCall(input, t, y) =>
              QueuedCall(input', t, y) \/ (Frame \in CallsOn(t) /\ y = Frame.number)
         /\ \A t \in CallId : Frame \in CallsOn(t) =>
              /\ Frame.number \in open[t]
              /\ \A y \in open[t] : y > Frame.number => QueuedCall(input', t, y)
         /\ Waiting'
         /\ \A t \in CallId : Counted(input', CallsOn(t)) =
                                Counted(input, CallsOn(t)) - IF Frame \in CallsOn(t) THEN 1 ELSE 0
<1>1. /\ input \in Seq(Frames) /\ Len(input) \in Nat /\ Len(input) >= 1 /\ Frame = input[1]
      /\ input' \in Seq(Frames) /\ Len(input') = Len(input) - 1
      /\ \A n \in 1 .. Len(input') : input'[n] = input[n + 1]
  BY DEF IInv, Typed, Frame
<1>2. /\ \A m, n \in 1 .. Len(input) : m < n => input[m].number < input[n].number
      /\ \A n \in 1 .. Len(input) : input[n].number \in 1 .. frames
      /\ \A n \in 1 .. Len(input), p \in issued \cup swallowed : p[2] < input[n].number
  BY DEF IInv, Arriving
<1>3. Frame \in Frames /\ Frame.number \in 1 .. frames /\ \A p \in issued \cup swallowed : p[2] < Frame.number
  BY <1>1, <1>2
<1>4. \A m, n \in 1 .. Len(input') : m < n => input'[m].number < input'[n].number
  BY <1>1, <1>2
<1>5. \A n \in 1 .. Len(input') : input'[n].number \in 1 .. frames /\ Frame.number < input'[n].number
  BY <1>1, <1>2
<1>6. \A n \in 1 .. Len(input'), p \in issued \cup swallowed : p[2] < input'[n].number
  <2>. SUFFICES ASSUME NEW n \in 1 .. Len(input'), NEW p \in issued \cup swallowed
                PROVE  p[2] < input'[n].number
    OBVIOUS
  <2>1. n + 1 \in 1 .. Len(input) /\ input'[n] = input[n + 1]
    BY <1>1
  <2>. QED  BY <1>2, <2>1
<1>7. ASSUME NEW t \in CallId, NEW y, QueuedCall(input, t, y)
      PROVE  QueuedCall(input', t, y) \/ (Frame \in CallsOn(t) /\ y = Frame.number)
  <2>1. PICK n \in 1 .. Len(input) : input[n] \in CallsOn(t) /\ input[n].number = y
    BY <1>7 DEF QueuedCall
  <2>2. CASE n = 1
    BY <1>1, <2>1, <2>2
  <2>3. CASE n # 1
    <3>1. n - 1 \in 1 .. Len(input') /\ input'[n - 1] = input[n]
      BY <1>1, <2>3
    <3>. QED  BY <2>1, <3>1 DEF QueuedCall
  <2>. QED  BY <2>2, <2>3
<1>8. ASSUME NEW t \in CallId, NEW y, QueuedCall(input', t, y)
      PROVE  QueuedCall(input, t, y) /\ y \in Nat /\ Frame.number < y
  <2>1. PICK n \in 1 .. Len(input') : input'[n] \in CallsOn(t) /\ input'[n].number = y
    BY <1>8 DEF QueuedCall
  <2>2. n + 1 \in 1 .. Len(input) /\ input'[n] = input[n + 1]
    BY <1>1
  <2>3. y \in 1 .. frames /\ Frame.number < y
    BY <1>5, <2>1
  <2>4. frames \in Nat
    BY DEF IInv, Typed
  <2>. QED  BY <2>1, <2>2, <2>3, <2>4 DEF QueuedCall
<1>9. ASSUME NEW t \in CallId, Frame \in CallsOn(t)
      PROVE  /\ Frame.number \in open[t]
             /\ \A y \in open[t] : y > Frame.number => QueuedCall(input', t, y)
  <2>1. QueuedCall(input, t, Frame.number) /\ Frame.number \in Nat
    BY <1>1, <1>3, <1>9 DEF QueuedCall
  <2>2. ASSUME NEW y \in open[t], y > Frame.number
        PROVE  QueuedCall(input', t, y)
    <3>1. QueuedCall(input, t, y) \/ \A n \in 1 .. Len(input) : y < input[n].number
      BY DEF IInv, Waiting
    <3>2. y \in Nat
      BY PlacesFinite DEF IInv, CallId
    <3>3. ~(y < Frame.number) /\ y # Frame.number
      BY <2>1, <2>2, <3>2
    <3>. QED  BY <1>1, <1>7, <3>1, <3>3
  <2>. QED  BY <2>1, <2>2 DEF IInv, Waiting
<1>10. Waiting'
  <2>1. ASSUME NEW t \in CallId, NEW y \in Nat, QueuedCall(input', t, y)
        PROVE  y \in open[t]
    BY <1>8, <2>1 DEF IInv, Waiting
  <2>2. ASSUME NEW t \in CallId, NEW y \in open[t]
        PROVE  QueuedCall(input', t, y) \/ \A n \in 1 .. Len(input') : y < input'[n].number
    <3>1. CASE QueuedCall(input, t, y)
      BY <1>5, <1>7, <3>1
    <3>2. CASE \A n \in 1 .. Len(input) : y < input[n].number
      <4>1. ASSUME NEW n \in 1 .. Len(input')
            PROVE  y < input'[n].number
        <5>1. n + 1 \in 1 .. Len(input) /\ input'[n] = input[n + 1]
          BY <1>1
        <5>. QED  BY <3>2, <5>1
      <4>. QED  BY <4>1
    <3>. QED  BY <3>1, <3>2 DEF IInv, Waiting
  <2>. QED  BY <2>1, <2>2 DEF Waiting
<1>11. \A t \in CallId : Counted(input', CallsOn(t)) =
                           Counted(input, CallsOn(t)) - IF Frame \in CallsOn(t) THEN 1 ELSE 0
  BY <1>1, ShiftCount DEF Frame
<1>. QED  BY <1>1, <1>3, <1>4, <1>5, <1>6, <1>7, <1>9, <1>10, <1>11

LEMMA FrameOn ==
  ASSUME NEW f \in Frames, NEW t \in CallId
  PROVE  (f \in CallsOn(t) <=> f.txid = t) /\ (f \in CallsOn(t) => f.call)
BY DEF CallsOn, Frames, CallId

\* A frame that is answered by an error at once, on an ID that no slot holds.
LEMMA AnswersHeadKeeps ==
  ASSUME IInv, input # <<>>, sending = <<>>, ~Duplicate(Frame.txid),
         NEW c \in ErrorCode, sending' = <<ErrorFrame(Frame.txid, c)>>, input' = Tail(input),
         UNCHANGED <<slots, sequence, output, open, frames, issued, swallowed>>, Typed'
  PROVE  IInv'
<1>. DEFINE e == ErrorFrame(Frame.txid, c)
<1>1. Frame \in Frames /\ Live' = Live
  BY TakingFacts DEF Live
<1>2. e \in Answer /\ e.code # "reply" /\ e.txid = Frame.txid
  BY <1>1 DEF ErrorFrame, Answer, Frames, ErrorCode
<1>3. Arriving' /\ Waiting'
  BY TakingFacts DEF Arriving
<1>4. Retaining'
  <2>1. ASSUME NEW i \in Live, NEW p \in issued, p[1] = slots[i].handle
        PROVE  /\ p[2] \in open[slots[i].txid]
               /\ \A y \in open[slots[i].txid] :
                    y > p[2] => QueuedCall(input', slots[i].txid, y) \/ <<slots[i].txid, y>> \in swallowed
    <3>1. slots[i].txid \in CallId /\ slots[i].txid # Frame.txid
      BY RetainedThere DEF IInv, Duplicate
    <3>2. Frame \notin CallsOn(slots[i].txid)
      BY <1>1, <3>1, FrameOn
    <3>3. /\ p[2] \in open[slots[i].txid]
          /\ \A y \in open[slots[i].txid] :
               y > p[2] => QueuedCall(input, slots[i].txid, y) \/ <<slots[i].txid, y>> \in swallowed
      BY <2>1 DEF IInv, Retaining
    <3>. QED  BY <3>1, <3>2, <3>3, TakingFacts
  <2>2. /\ \A p \in issued : p[1] < sequence
        /\ \A p, q \in issued : p[1] = q[1] \/ p[2] = q[2] => p = q
        /\ \A i, j \in Live : slots[i].handle = slots[j].handle => i = j
        /\ \A i \in Live : \E p \in issued : p[1] = slots[i].handle
    BY DEF IInv, Retaining
  <2>. QED  BY <1>1, <2>1, <2>2 DEF Retaining
<1>5. Replying'
  <2>1. \A h : Held(h)' <=> Held(h)
    BY <1>1 DEF Held
  <2>. HIDE DEF e
  <2>. QED  BY <1>2, <2>1, OutputKept DEF e
<1>6. Balanced'
  <2>. SUFFICES ASSUME NEW t \in CallId
                PROVE  Cardinality(open[t]) = Counted(input', CallsOn(t)) + Retained(t) + Counted(output, AnswersOn(t))
                                                + Counted(sending', AnswersOn(t)) + Swallowed(t)
    BY <1>1 DEF Balanced, Retained, Swallowed
  <2>1. Frame \in CallsOn(t) <=> e \in AnswersOn(t)
    BY <1>1, <1>2, FrameOn DEF AnswersOn
  <2>2. Counted(sending', AnswersOn(t)) = IF e \in AnswersOn(t) THEN 1 ELSE 0
    BY <1>2, SingleCount
  <2>3. Counted(sending, AnswersOn(t)) = 0
    BY CountedFacts DEF IInv, Typed
  <2>4. Counted(input', CallsOn(t)) = Counted(input, CallsOn(t)) - IF Frame \in CallsOn(t) THEN 1 ELSE 0
    BY TakingFacts
  <2>5. t \in Txid /\ Cardinality(open[t]) =
          Counted(input, CallsOn(t)) + Retained(t) + Counted(output, AnswersOn(t))
            + Counted(sending, AnswersOn(t)) + Swallowed(t)
    BY DEF IInv, Balanced, CallId
  <2>. HIDE DEF e
  <2>. QED  BY <2>1, <2>2, <2>3, <2>4, <2>5, PlacesCounted DEF IInv
<1>. QED  BY <1>3, <1>4, <1>5, <1>6 DEF IInv

-----------------------------------------------------------------------------
(* The steps of the driver.                                                *)

\* What is not about the worker, when nothing but the worker's flags changes.
LEMMA Untouched ==
  ASSUME IInv, UNCHANGED <<slots, sequence, sending, input, output, frames, open, issued, swallowed>>, Typed'
  PROVE  IInv'
<1>1. Live' = Live /\ \A h : Held(h)' <=> Held(h)
  BY DEF Live, Held
<1>2. Arriving' /\ Waiting'
  BY DEF IInv, Arriving, Waiting
<1>3. Retaining'
  BY <1>1 DEF IInv, Retaining
<1>4. Replying'
  <2>1. \A a, k : Meets(a, k) => Meets(a, k)'
    BY <1>1, MeetsKept
  <2>2. \A a, k : Meets(a, k)' => Meets(a, k)
    BY <1>1 DEF Meets
  <2>. QED  BY <1>1, <2>1, <2>2 DEF IInv, Replying, Meets
<1>5. Balanced'
  BY <1>1 DEF IInv, Balanced, Retained, Swallowed
<1>. QED  BY <1>2, <1>3, <1>4, <1>5 DEF IInv

LEMMA ErrorAnswers ==
  ASSUME NEW t \in Txid \cup {CastId}, NEW c \in ErrorCode
  PROVE  LET e == ErrorFrame(t, c)
         IN  /\ e \in Answer /\ e.code # "reply" /\ e.txid = t
             /\ <<e>> \in Seq(Answer) /\ Len(<<e>>) = 1
<1>. DEFINE e == ErrorFrame(t, c)
<1>1. e \in Answer /\ e.code # "reply" /\ e.txid = t
  BY DEF ErrorFrame, Answer, ErrorCode
<1>. HIDE DEF e
<1>2. <<e>> \in Seq(Answer) /\ Len(<<e>>) = 1
  BY <1>1
<1>. QED  BY <1>1, <1>2 DEF e

LEMMA FrameId == ASSUME NEW f \in Frames  PROVE f.txid \in Txid \cup {CastId}
BY DEF Frames

LEMMA InvokeInternalKeeps ==
  ASSUME IInv, InvokeInternal
  PROVE  IInv'
<1>1. UNCHANGED <<slots, sequence, sending, input, output, frames, open, issued, swallowed, failure>>
  BY DEF InvokeInternal, host
<1>2. invoked' = [kind |-> "internal", txid |-> CastId] /\ sending = <<>>
  BY DEF InvokeInternal, Invocation, Idle
<1>3. Typed'
  BY <1>1, <1>2 DEF IInv, Typed
<1>. QED  BY <1>1, <1>3, Untouched

LEMMA RefuseCallKeeps ==
  ASSUME IInv, RefuseCall
  PROVE  IInv'
<1>1. /\ input # <<>> /\ sending = <<>> /\ invoked = None /\ ~Duplicate(Frame.txid)
      /\ input' = Tail(input) /\ sending' = <<ErrorFrame(Frame.txid, "busy")>>
      /\ UNCHANGED <<slots, sequence, failure, invoked, output, frames, open, issued, swallowed>>
  BY DEF RefuseCall, External, Idle, Rejected, Take, host
<1>2. Frame \in Frames /\ input' \in Seq(Frames) /\ "busy" \in ErrorCode
  BY <1>1, TakingFacts DEF ErrorCode
<1>3. sending' \in Seq(Answer) /\ Len(sending') <= 1
  <2>1. Frame.txid \in Txid \cup {CastId}
    BY <1>2, FrameId
  <2>2. \A t \in Txid \cup {CastId}, c \in ErrorCode : <<ErrorFrame(t, c)>> \in Seq(Answer) /\ Len(<<ErrorFrame(t, c)>>) = 1
    BY ErrorAnswers
  <2>. DEFINE answers == <<ErrorFrame(Frame.txid, "busy")>>
  <2>3. answers \in Seq(Answer) /\ Len(answers) <= 1
    BY <1>2, <2>1, <2>2
  <2>4. sending' = answers
    BY <1>1
  <2>. HIDE DEF answers
  <2>. QED  BY <2>3, <2>4
<1>4. Typed'
  BY <1>1, <1>2, <1>3 DEF IInv, Typed
<1>. QED  BY <1>1, <1>2, <1>4, AnswersHeadKeeps

LEMMA DrainFrameKeeps ==
  ASSUME IInv, DrainFrame
  PROVE  IInv'
<1>1. /\ input # <<>> /\ sending = <<>> /\ invoked = None /\ failure # None /\ Live = {}
      /\ input' = Tail(input) /\ sending' = <<ErrorFrame(Frame.txid, failure)>>
      /\ UNCHANGED <<slots, sequence, failure, invoked, output, frames, open, issued, swallowed>>
  BY DEF DrainFrame, Idle, Take, Healthy, host
<1>2. Frame \in Frames /\ input' \in Seq(Frames) /\ failure \in ErrorCode /\ ~Duplicate(Frame.txid)
  BY <1>1, TakingFacts DEF IInv, Typed, Duplicate
<1>3. sending' \in Seq(Answer) /\ Len(sending') <= 1
  <2>1. Frame.txid \in Txid \cup {CastId}
    BY <1>2, FrameId
  <2>2. \A t \in Txid \cup {CastId}, c \in ErrorCode : <<ErrorFrame(t, c)>> \in Seq(Answer) /\ Len(<<ErrorFrame(t, c)>>) = 1
    BY ErrorAnswers
  <2>. DEFINE answers == <<ErrorFrame(Frame.txid, failure)>>
  <2>3. answers \in Seq(Answer) /\ Len(answers) <= 1
    BY <1>2, <2>1, <2>2
  <2>4. sending' = answers
    BY <1>1
  <2>. HIDE DEF answers
  <2>. QED  BY <2>3, <2>4
<1>4. Typed'
  BY <1>1, <1>2, <1>3 DEF IInv, Typed
<1>. QED  BY <1>1, <1>2, <1>4, AnswersHeadKeeps

\* A call that repeats a retained one is swallowed: the slot is answered when
\* the failure is drained.
LEMMA SwallowKeeps ==
  ASSUME IInv, input # <<>>, sending = <<>>, Duplicate(Frame.txid), Frame.call,
         sending' = <<>>, input' = Tail(input),
         swallowed' = swallowed \cup {<<Frame.txid, Frame.number>>},
         UNCHANGED <<slots, sequence, output, open, frames, issued>>, Typed'
  PROVE  IInv'
<1>. DEFINE pair == <<Frame.txid, Frame.number>>
<1>1. Frame \in Frames /\ Live' = Live /\ Frame.number \in 1 .. frames
  BY TakingFacts DEF Live
<1>2. Frame.txid \in CallId
  BY RetainedThere DEF IInv, Duplicate
<1>3. /\ pair[1] = Frame.txid /\ pair[2] = Frame.number
      /\ \A s \in swallowed' : s \in swallowed \/ s = pair
      /\ swallowed \subseteq swallowed' /\ pair \in swallowed'
  OBVIOUS
<1>. HIDE DEF pair
<1>4. Arriving' /\ Waiting'
  BY <1>3, TakingFacts DEF Arriving
<1>5. Retaining'
  <2>1. ASSUME NEW i \in Live, NEW p \in issued, p[1] = slots[i].handle
        PROVE  /\ p[2] \in open[slots[i].txid]
               /\ \A y \in open[slots[i].txid] :
                    y > p[2] => QueuedCall(input', slots[i].txid, y) \/ <<slots[i].txid, y>> \in swallowed'
    <3>1. slots[i].txid \in CallId
      BY RetainedThere DEF IInv
    <3>2. /\ p[2] \in open[slots[i].txid]
          /\ \A y \in open[slots[i].txid] :
               y > p[2] => QueuedCall(input, slots[i].txid, y) \/ <<slots[i].txid, y>> \in swallowed
      BY <2>1 DEF IInv, Retaining
    <3>3. ASSUME NEW y \in open[slots[i].txid], y > p[2]
          PROVE  QueuedCall(input', slots[i].txid, y) \/ <<slots[i].txid, y>> \in swallowed'
      <4>1. CASE <<slots[i].txid, y>> \in swallowed
        BY <1>3, <4>1
      <4>2. CASE QueuedCall(input', slots[i].txid, y)
        BY <4>2
      <4>3. CASE Frame \in CallsOn(slots[i].txid) /\ y = Frame.number
        <5>1. Frame.txid = slots[i].txid
          BY <1>1, <3>1, <4>3, FrameOn
        <5>. QED  BY <1>3, <4>3, <5>1 DEF pair
      <4>. QED  BY <3>1, <3>2, <3>3, <4>1, <4>2, <4>3, TakingFacts
    <3>. QED  BY <3>2, <3>3
  <2>2. /\ \A p \in issued : p[1] < sequence
        /\ \A p, q \in issued : p[1] = q[1] \/ p[2] = q[2] => p = q
        /\ \A i, j \in Live : slots[i].handle = slots[j].handle => i = j
        /\ \A i \in Live : \E p \in issued : p[1] = slots[i].handle
    BY DEF IInv, Retaining
  <2>. QED  BY <1>1, <2>1, <2>2 DEF Retaining
<1>6. Replying'
  <2>1. \A h : Held(h)' <=> Held(h)
    BY <1>1 DEF Held
  <2>. QED  BY <2>1, OutputKept
<1>7. Balanced'
  <2>. SUFFICES ASSUME NEW t \in CallId
                PROVE  Cardinality(open[t]) = Counted(input', CallsOn(t)) + Retained(t) + Counted(output, AnswersOn(t))
                                                + Counted(sending', AnswersOn(t)) + Swallowed(t)'
    BY <1>1 DEF Balanced, Retained
  <2>1. t \in Txid /\ (Frame \in CallsOn(t) <=> Frame.txid = t)
    BY <1>1, FrameOn DEF CallId
  <2>2. Swallowed(t)' = Cardinality(SwallowedOn(t)') /\ SwallowedOn(t)' = {s \in swallowed' : s[1] = t}
    BY DEF Swallowed, SwallowedOn
  <2>3. pair \notin SwallowedOn(t)
    <3>1. \A p \in swallowed : p[2] < Frame.number
      BY TakingFacts
    <3>. QED  BY <1>1, <1>3, <3>1 DEF SwallowedOn
  <2>4. Frame.txid = t => SwallowedOn(t)' = SwallowedOn(t) \cup {pair}
    BY <1>3, <2>2 DEF SwallowedOn
  <2>5. Frame.txid # t => SwallowedOn(t)' = SwallowedOn(t)
    BY <1>3, <2>2 DEF SwallowedOn
  <2>6. IsFiniteSet(SwallowedOn(t)) /\ Swallowed(t) = Cardinality(SwallowedOn(t)) /\ Swallowed(t) \in Nat
    BY <2>1, PlacesFinite, PlacesCounted DEF IInv
  <2>7. Cardinality(SwallowedOn(t) \cup {pair}) = Cardinality(SwallowedOn(t)) + 1
    BY <2>3, <2>6, FS_AddElement
  <2>8. /\ Frame \in CallsOn(t) => Cardinality(SwallowedOn(t)') = Swallowed(t) + 1
        /\ Frame \notin CallsOn(t) => Cardinality(SwallowedOn(t)') = Swallowed(t)
    BY <2>1, <2>4, <2>5, <2>6, <2>7
  <2>9. Counted(input', CallsOn(t)) = Counted(input, CallsOn(t)) - IF Frame \in CallsOn(t) THEN 1 ELSE 0
    BY TakingFacts
  <2>10. Cardinality(open[t]) = Counted(input, CallsOn(t)) + Retained(t) + Counted(output, AnswersOn(t))
                                  + Counted(sending, AnswersOn(t)) + Swallowed(t)
    BY DEF IInv, Balanced
  <2>11. sending' = sending
    OBVIOUS
  <2>. QED  BY <2>1, <2>2, <2>6, <2>8, <2>9, <2>10, <2>11, PlacesCounted DEF IInv
<1>. QED  BY <1>4, <1>5, <1>6, <1>7 DEF IInv

LEMMA RejectCallKeeps ==
  ASSUME IInv, RejectCall
  PROVE  IInv'
<1>1. /\ input # <<>> /\ sending = <<>> /\ invoked = None /\ Frame.call
      /\ input' = Tail(input) /\ failure' = Code
      /\ UNCHANGED <<slots, sequence, invoked, output, frames, open, issued>>
  BY DEF RejectCall, Reject, External, Idle, Rejected, Call, Take, host
<1>2. /\ Frame \in Frames /\ input' \in Seq(Frames) /\ Code \in ErrorCode
      /\ Frame.number \in 1 .. frames
  BY <1>1, TakingFacts DEF ErrorCode, Code
<1>3. CASE Duplicate(Frame.txid)
  <2>1. sending' = <<>> /\ swallowed' = swallowed \cup {<<Frame.txid, Frame.number>>}
    BY <1>3 DEF RejectCall, Reject
  <2>2. Frame.txid \in CallId
    BY <1>3, RetainedThere DEF IInv, Duplicate
  <2>3. swallowed' \subseteq CallId \X (1 .. frames)
    BY <1>2, <2>1, <2>2 DEF IInv, Typed
  <2>4. Typed'
    BY <1>1, <1>2, <2>1, <2>3 DEF IInv, Typed
  <2>. QED  BY <1>1, <1>3, <2>1, <2>4, SwallowKeeps
<1>4. CASE ~Duplicate(Frame.txid)
  <2>1. sending' = <<ErrorFrame(Frame.txid, Code)>> /\ swallowed' = swallowed
    BY <1>4 DEF RejectCall, Reject
  <2>2. sending' \in Seq(Answer) /\ Len(sending') <= 1
    <3>1. Frame.txid \in Txid \cup {CastId}
      BY <1>2, FrameId
    <3>2. \A t \in Txid \cup {CastId}, c \in ErrorCode : <<ErrorFrame(t, c)>> \in Seq(Answer) /\ Len(<<ErrorFrame(t, c)>>) = 1
      BY ErrorAnswers
    <3>. DEFINE answers == <<ErrorFrame(Frame.txid, Code)>>
    <3>3. answers \in Seq(Answer) /\ Len(answers) <= 1
      BY <1>2, <3>1, <3>2
    <3>4. sending' = answers
      BY <2>1
    <3>. HIDE DEF answers
    <3>. QED  BY <3>3, <3>4
  <2>3. Typed'
    BY <1>1, <1>2, <2>1, <2>2 DEF IInv, Typed
  <2>. QED  BY <1>1, <1>2, <1>4, <2>1, <2>3, AnswersHeadKeeps
<1>. QED  BY <1>3, <1>4

\* A cast is given to the worker and no slot.
LEMMA InvokeCastKeeps ==
  ASSUME IInv, InvokeCast
  PROVE  IInv'
<1>1. /\ input # <<>> /\ sending = <<>> /\ ~Frame.call /\ input' = Tail(input)
      /\ invoked' = [kind |-> "cast", txid |-> Frame.txid]
      /\ UNCHANGED <<slots, sequence, failure, sending, output, frames, open, issued, swallowed>>
  BY DEF InvokeCast, External, Idle, Call, Take, Invocation, host
<1>2. Frame \in Frames /\ input' \in Seq(Frames) /\ Frame.txid = CastId
  BY <1>1, TakingFacts DEF Frames
<1>3. Typed'
  BY <1>1, <1>2 DEF IInv, Typed
<1>4. Live' = Live /\ \A h : Held(h)' <=> Held(h)
  BY <1>1 DEF Live, Held
<1>5. \A t \in CallId : Frame \notin CallsOn(t)
  BY <1>1, <1>2, FrameOn
<1>6. Arriving' /\ Waiting'
  BY <1>1, TakingFacts DEF Arriving
<1>7. Retaining'
  <2>1. ASSUME NEW i \in Live, NEW p \in issued, p[1] = slots[i].handle
        PROVE  /\ p[2] \in open[slots[i].txid]
               /\ \A y \in open[slots[i].txid] :
                    y > p[2] => QueuedCall(input', slots[i].txid, y) \/ <<slots[i].txid, y>> \in swallowed
    <3>1. slots[i].txid \in CallId
      BY RetainedThere DEF IInv
    <3>2. /\ p[2] \in open[slots[i].txid]
          /\ \A y \in open[slots[i].txid] :
               y > p[2] => QueuedCall(input, slots[i].txid, y) \/ <<slots[i].txid, y>> \in swallowed
      BY <2>1 DEF IInv, Retaining
    <3>. QED  BY <1>1, <1>5, <3>1, <3>2, TakingFacts
  <2>2. /\ \A p \in issued : p[1] < sequence
        /\ \A p, q \in issued : p[1] = q[1] \/ p[2] = q[2] => p = q
        /\ \A i, j \in Live : slots[i].handle = slots[j].handle => i = j
        /\ \A i \in Live : \E p \in issued : p[1] = slots[i].handle
    BY DEF IInv, Retaining
  <2>. QED  BY <1>1, <1>4, <2>1, <2>2 DEF Retaining
<1>8. Replying'
  BY <1>1, <1>4, OutputKept
<1>9. Balanced'
  <2>. SUFFICES ASSUME NEW t \in CallId
                PROVE  Cardinality(open[t]) = Counted(input', CallsOn(t)) + Retained(t) + Counted(output, AnswersOn(t))
                                                + Counted(sending, AnswersOn(t)) + Swallowed(t)
    BY <1>1, <1>4 DEF Balanced, Retained, Swallowed
  <2>1. Counted(input', CallsOn(t)) = Counted(input, CallsOn(t))
    <3>1. Counted(input, CallsOn(t)) \in Nat
      BY PlacesCounted DEF IInv, CallId
    <3>. QED  BY <1>1, <1>5, <3>1, TakingFacts
  <2>. QED  BY <2>1 DEF IInv, Balanced
<1>. QED  BY <1>3, <1>6, <1>7, <1>8, <1>9 DEF IInv

\* The call at the head takes the first free slot and a handle of its own.
LEMMA InvokeCallKeeps ==
  ASSUME IInv, InvokeCall
  PROVE  IInv'
<1>. DEFINE j == Min(Slot \ Live)
            held == [handle |-> sequence, txid |-> Frame.txid]
            pair == <<sequence, Frame.number>>
<1>1. /\ input # <<>> /\ sending = <<>> /\ Frame.call /\ ~Duplicate(Frame.txid) /\ Frame.txid # CastId
      /\ Live # Slot /\ input' = Tail(input)
      /\ slots' = [slots EXCEPT ![j] = held] /\ sequence' = sequence + 1
      /\ issued' = issued \cup {pair} /\ invoked' = [kind |-> "call", txid |-> Frame.txid]
      /\ UNCHANGED <<failure, sending, output, frames, open, swallowed>>
  BY DEF InvokeCall, External, Idle, Rejected, Call, Take, Invocation, NewHandle, host
<1>2. /\ Frame \in Frames /\ input' \in Seq(Frames) /\ Frame.number \in 1 .. frames
      /\ sequence \in Nat \ {0} /\ frames \in Nat
  BY <1>1, TakingFacts DEF IInv, Typed
<1>3. Frame.txid \in CallId /\ Frame.txid \in Txid /\ Frame \in CallsOn(Frame.txid)
  <2>1. Frame.txid \in CallId /\ Frame.txid \in Txid
    BY <1>1, <1>2, FrameId DEF CallId
  <2>. QED  BY <1>2, <2>1, FrameOn
<1>4. j \in Slot /\ j \notin Live
  <2>1. Slot \ Live \subseteq Nat /\ Slot \ Live # {}
    BY <1>1 DEF Slot, Live
  <2>. QED  BY <2>1, MinIsLeast
<1>5. /\ held \in [handle : Nat \ {0}, txid : CallId] /\ held # None
      /\ held.handle = sequence /\ held.txid = Frame.txid
  <2>1. held \in [handle : Nat \ {0}, txid : CallId] /\ held \in [handle : Nat, txid : Txid]
    BY <1>2, <1>3
  <2>. QED  BY <2>1, NoneAssumption
<1>6. /\ pair[1] = sequence /\ pair[2] = Frame.number /\ pair \in issued' /\ issued \subseteq issued'
      /\ \A p \in issued' : p \in issued \/ p = pair
      /\ pair \in (Nat \ {0}) \X (1 .. frames)
  BY <1>1, <1>2
<1>. HIDE DEF j, held, pair
<1>7. /\ slots' \in [Slot -> {None} \cup [handle : Nat \ {0}, txid : CallId]]
      /\ slots'[j] = held /\ \A i \in Slot : i # j => slots'[i] = slots[i]
  BY <1>1, <1>4, <1>5 DEF IInv, Typed
<1>8. Live' = Live \cup {j}
  BY <1>4, <1>5, <1>7 DEF Live
<1>9. \A i \in Live : i \in Slot /\ i # j /\ slots'[i] = slots[i]
  BY <1>4, <1>7 DEF Live
<1>10. Typed'
  <2>1. issued' \subseteq (Nat \ {0}) \X (1 .. frames)
    BY <1>6 DEF IInv, Typed
  <2>2. sequence' \in Nat \ {0}
    BY <1>1, <1>2
  <2>. QED  BY <1>1, <1>2, <1>3, <1>7, <2>1, <2>2 DEF IInv, Typed
<1>11. /\ \A p \in issued : p[1] < sequence /\ p[2] < Frame.number
       /\ \A p, q \in issued : p[1] = q[1] \/ p[2] = q[2] => p = q
       /\ \A i, k \in Live : slots[i].handle = slots[k].handle => i = k
       /\ \A i \in Live : \E p \in issued : p[1] = slots[i].handle
  BY <1>1, TakingFacts DEF IInv, Retaining
<1>12. /\ \A p \in issued : p[1] \in Nat /\ p[2] \in Nat
       /\ \A i \in Live : slots[i].handle \in Nat /\ slots[i].handle < sequence
  <2>1. \A p \in issued : p[1] \in Nat /\ p[2] \in Nat
    BY <1>2 DEF IInv, Typed
  <2>. QED  BY <1>11, <2>1
<1>13. Arriving' /\ Waiting'
  <2>1. \A n \in 1 .. Len(input'), p \in issued' \cup swallowed : p[2] < input'[n].number
    BY <1>1, <1>6, TakingFacts
  <2>. QED  BY <1>1, <2>1, TakingFacts DEF Arriving
<1>14. Retaining'
  <2>1. \A p \in issued' : p[1] < sequence'
    BY <1>1, <1>2, <1>6, <1>11, <1>12
  <2>2. \A p, q \in issued' : p[1] = q[1] \/ p[2] = q[2] => p = q
    <3>. SUFFICES ASSUME NEW p \in issued', NEW q \in issued', p[1] = q[1] \/ p[2] = q[2]
                  PROVE  p = q
      OBVIOUS
    <3>1. \A r \in issued : r[1] # pair[1] /\ r[2] # pair[2]
      BY <1>2, <1>6, <1>11, <1>12
    <3>. QED  BY <1>6, <1>11, <3>1
  <2>3. \A i, k \in Live' : slots'[i].handle = slots'[k].handle => i = k
    BY <1>2, <1>5, <1>7, <1>8, <1>9, <1>11, <1>12
  <2>4. \A i \in Live' : \E p \in issued' : p[1] = slots'[i].handle
    BY <1>5, <1>6, <1>7, <1>8, <1>9, <1>11
  <2>5. ASSUME NEW i \in Live', NEW p \in issued', p[1] = slots'[i].handle
        PROVE  /\ p[2] \in open[slots'[i].txid]
               /\ \A y \in open[slots'[i].txid] :
                    y > p[2] => QueuedCall(input', slots'[i].txid, y) \/ <<slots'[i].txid, y>> \in swallowed
    <3>1. CASE i = j
      <4>1. p = pair
        BY <1>2, <1>5, <1>6, <1>7, <1>11, <1>12, <2>5, <3>1
      <4>. QED  BY <1>1, <1>3, <1>5, <1>6, <1>7, <3>1, <4>1, TakingFacts
    <3>2. CASE i # j
      <4>1. i \in Live /\ slots'[i] = slots[i] /\ slots[i].txid \in CallId
        BY <1>8, <1>9, <3>2, RetainedThere DEF IInv
      <4>2. p \in issued
        BY <1>2, <1>6, <1>12, <2>5, <4>1
      <4>3. Frame \notin CallsOn(slots[i].txid)
        BY <1>1, <1>2, <4>1, FrameOn DEF Duplicate
      <4>4. /\ p[2] \in open[slots[i].txid]
            /\ \A y \in open[slots[i].txid] :
                 y > p[2] => QueuedCall(input, slots[i].txid, y) \/ <<slots[i].txid, y>> \in swallowed
        BY <2>5, <4>1, <4>2 DEF IInv, Retaining
      <4>. QED  BY <1>1, <4>1, <4>3, <4>4, TakingFacts
    <3>. QED  BY <3>1, <3>2
  <2>. QED  BY <1>1, <2>1, <2>2, <2>3, <2>4, <2>5 DEF Retaining
<1>15. Replying'
  <2>1. ASSUME NEW p \in issued, Held(p[1])'
        PROVE  Held(p[1])
    <3>1. PICK i \in Live' : slots'[i].handle = p[1]
      BY <2>1 DEF Held
    <3>2. i # j
      BY <1>2, <1>5, <1>7, <1>11, <1>12, <3>1
    <3>. QED  BY <1>8, <1>9, <3>1, <3>2 DEF Held
  <2>. QED  BY <1>1, <1>6, <2>1, OutputKept
<1>16. Balanced'
  <2>. SUFFICES ASSUME NEW t \in CallId
                PROVE  Cardinality(open[t]) = Counted(input', CallsOn(t)) + Retained(t)' + Counted(output, AnswersOn(t))
                                                + Counted(sending, AnswersOn(t)) + Swallowed(t)
    BY <1>1 DEF Balanced, Swallowed
  <2>1. t \in Txid /\ (Frame \in CallsOn(t) <=> Frame.txid = t)
    BY <1>2, FrameOn DEF CallId
  <2>2. Retained(t)' = Cardinality(RetainedOn(t)') /\ RetainedOn(t)' = {i \in Live' : slots'[i].txid = t}
    BY DEF Retained, RetainedOn
  <2>3. /\ Frame.txid = t => RetainedOn(t)' = RetainedOn(t) \cup {j}
        /\ Frame.txid # t => RetainedOn(t)' = RetainedOn(t)
    BY <1>5, <1>7, <1>8, <1>9, <2>2 DEF RetainedOn
  <2>4. j \notin RetainedOn(t)
    BY <1>4 DEF RetainedOn
  <2>5. IsFiniteSet(RetainedOn(t)) /\ Retained(t) = Cardinality(RetainedOn(t)) /\ Retained(t) \in Nat
    BY <2>1, PlacesFinite, PlacesCounted DEF IInv
  <2>6. Cardinality(RetainedOn(t) \cup {j}) = Cardinality(RetainedOn(t)) + 1
    BY <2>4, <2>5, FS_AddElement
  <2>7. /\ Frame \in CallsOn(t) => Cardinality(RetainedOn(t)') = Retained(t) + 1
        /\ Frame \notin CallsOn(t) => Cardinality(RetainedOn(t)') = Retained(t)
    BY <2>1, <2>3, <2>5, <2>6
  <2>8. Counted(input', CallsOn(t)) = Counted(input, CallsOn(t)) - IF Frame \in CallsOn(t) THEN 1 ELSE 0
    BY <1>1, TakingFacts
  <2>9. Cardinality(open[t]) = Counted(input, CallsOn(t)) + Retained(t) + Counted(output, AnswersOn(t))
                                 + Counted(sending, AnswersOn(t)) + Swallowed(t)
    BY DEF IInv, Balanced
  <2>. QED  BY <2>1, <2>2, <2>5, <2>7, <2>8, <2>9, PlacesCounted DEF IInv
<1>. QED  BY <1>10, <1>13, <1>14, <1>15, <1>16 DEF IInv

-----------------------------------------------------------------------------
(* A slot is given up: the worker replied, or a failure is drained.        *)

LEMMA ReleaseKeeps ==
  ASSUME IInv, NEW i \in Live, slots' = [slots EXCEPT ![i] = None],
         sending = <<>>, NEW e \in Answer, sending' = <<e>>, e.txid = slots[i].txid,
         e.code = "reply" => \E p \in issued : p[1] = slots[i].handle /\ p[2] = e.meant,
         UNCHANGED <<sequence, input, output, frames, open, issued, swallowed>>, Typed'
  PROVE  IInv'
<1>. DEFINE t == slots[i].txid
<1>1. i \in Slot /\ t \in CallId /\ t \in Txid /\ Retained(t) >= 1
  BY RetainedThere DEF IInv, CallId
<1>2. /\ Live' = Live \ {i} /\ i \in Live
      /\ \A k \in Live : k # i => slots'[k] = slots[k]
  BY <1>1 DEF IInv, Typed, Live
<1>. HIDE DEF t
<1>3. /\ \A p, q \in issued : p[1] = q[1] \/ p[2] = q[2] => p = q
      /\ \A p \in issued : p[1] < sequence
      /\ \A k, l \in Live : slots[k].handle = slots[l].handle => k = l
      /\ \A k \in Live : \E p \in issued : p[1] = slots[k].handle
  BY DEF IInv, Retaining
<1>4. \A h : Held(h)' => Held(h) /\ h # slots[i].handle
  BY <1>2, <1>3 DEF Held
<1>5. Arriving' /\ Waiting'
  BY DEF IInv, Arriving, Waiting
<1>6. Retaining'
  <2>1. \A k, l \in Live' : slots'[k].handle = slots'[l].handle => k = l
    BY <1>2, <1>3
  <2>2. \A k \in Live' : \E p \in issued : p[1] = slots'[k].handle
    BY <1>2, <1>3
  <2>3. ASSUME NEW k \in Live', NEW p \in issued, p[1] = slots'[k].handle
        PROVE  /\ p[2] \in open[slots'[k].txid]
               /\ \A y \in open[slots'[k].txid] :
                    y > p[2] => QueuedCall(input, slots'[k].txid, y) \/ <<slots'[k].txid, y>> \in swallowed
    <3>1. k \in Live /\ slots'[k] = slots[k]
      BY <1>2
    <3>. QED  BY <2>3, <3>1 DEF IInv, Retaining
  <2>. QED  BY <1>3, <2>1, <2>2, <2>3 DEF Retaining
<1>7. Replying'
  <2>1. \A a, k : Meets(a, k) => Meets(a, k)'
    BY <1>4, MeetsKept
  <2>2. ASSUME NEW n \in 1 .. Len(output)
        PROVE  (Meets(output[n], UpTo(output, n - 1, AnswersOn(output[n].txid))))'
    <3>. DEFINE a == output[n]
                k == UpTo(output, n - 1, AnswersOn(output[n].txid))
    <3>1. Meets(a, k) /\ a' = a /\ k' = k
      BY DEF IInv, Replying
    <3>. HIDE DEF a, k
    <3>. QED  BY <2>1, <3>1 DEF a, k
  <2>3. ASSUME e.code = "reply"
        PROVE  /\ e.meant \in open[t]
               /\ Counted(output, AnswersOn(t)) <= Cardinality(Before(open[t], e.meant))
               /\ \E p \in issued : p[2] = e.meant /\ ~Held(p[1])'
               /\ \A m \in 1 .. Len(output) : output[m].code = "reply" => output[m].meant # e.meant
    <3>1. PICK p \in issued : p[1] = slots[i].handle /\ p[2] = e.meant
      BY <2>3
    <3>2. /\ e.meant \in open[t]
          /\ \A y \in open[t] : y > e.meant => QueuedCall(input, t, y) \/ <<t, y>> \in swallowed
      BY <3>1 DEF IInv, Retaining, t
    <3>3. /\ Cardinality(Before(open[t], e.meant)) \in Nat
          /\ Cardinality(Before(open[t], e.meant)) + 1 >=
               Retained(t) + Counted(output, AnswersOn(t)) + Counted(sending, AnswersOn(t))
      BY <1>1, <3>2, OlderEnough DEF IInv
    <3>4. Counted(output, AnswersOn(t)) <= Cardinality(Before(open[t], e.meant))
      BY <1>1, <3>3, PlacesCounted DEF IInv
    <3>5. p[2] = e.meant /\ ~Held(p[1])'
      BY <1>4, <3>1
    <3>6. ASSUME NEW m \in 1 .. Len(output), output[m].code = "reply", output[m].meant = e.meant
          PROVE  FALSE
      <4>1. PICK q \in issued : q[2] = e.meant /\ ~Held(q[1])
        BY <3>6 DEF IInv, Replying, Meets
      <4>2. q = p
        BY <1>3, <3>1, <4>1
      <4>. QED  BY <3>1, <4>1, <4>2 DEF Held
    <3>. QED  BY <3>2, <3>4, <3>5, <3>6
  <2>4. e.code = "reply" =>
          /\ e.txid \in CallId /\ e.meant \in open[e.txid]
          /\ Counted(output, AnswersOn(e.txid)) <= Cardinality(Before(open[e.txid], e.meant))
          /\ \E p \in issued : p[2] = e.meant /\ ~Held(p[1])'
    BY <1>1, <2>3 DEF t
  <2>5. Len(sending') = 1 /\ sending'[1] = e
    OBVIOUS
  <2>6. \A n \in 1 .. Len(sending') :
          (Meets(sending[n], Counted(output, AnswersOn(sending[n].txid))))'
    BY <2>4, <2>5 DEF Meets
  <2>7. \A m, n \in 1 .. Len(output) :
          m < n /\ output[m].code = "reply" /\ output[n].code = "reply" => output[m].meant # output[n].meant
    BY DEF IInv, Replying
  <2>8. \A m \in 1 .. Len(output), n \in 1 .. Len(sending') :
          output[m].code = "reply" /\ sending'[n].code = "reply" => output[m].meant # sending'[n].meant
    BY <2>3, <2>5
  <2>. QED  BY <2>2, <2>6, <2>7, <2>8 DEF Replying
<1>8. Balanced'
  <2>. SUFFICES ASSUME NEW u \in CallId
                PROVE  Cardinality(open[u]) = Counted(input, CallsOn(u)) + Retained(u)' + Counted(output, AnswersOn(u))
                                                + Counted(sending', AnswersOn(u)) + Swallowed(u)
    BY DEF Balanced, Swallowed
  <2>1. u \in Txid /\ (e \in AnswersOn(u) <=> u = t)
    BY DEF CallId, AnswersOn, t
  <2>2. Retained(u)' = Cardinality(RetainedOn(u)') /\ RetainedOn(u)' = {k \in Live' : slots'[k].txid = u}
    BY DEF Retained, RetainedOn
  <2>3. /\ u = t => RetainedOn(u)' = RetainedOn(u) \ {i} /\ i \in RetainedOn(u)
        /\ u # t => RetainedOn(u)' = RetainedOn(u)
    BY <1>2, <2>2 DEF RetainedOn, t
  <2>4. IsFiniteSet(RetainedOn(u)) /\ Retained(u) = Cardinality(RetainedOn(u)) /\ Retained(u) \in Nat
    BY <2>1, PlacesFinite, PlacesCounted DEF IInv
  <2>5. i \in RetainedOn(u) => Cardinality(RetainedOn(u) \ {i}) = Cardinality(RetainedOn(u)) - 1
    BY <2>4, FS_RemoveElement
  <2>6. /\ u = t => Cardinality(RetainedOn(u)') = Retained(u) - 1
        /\ u # t => Cardinality(RetainedOn(u)') = Retained(u)
    BY <2>3, <2>4, <2>5
  <2>7. Counted(sending', AnswersOn(u)) = IF e \in AnswersOn(u) THEN 1 ELSE 0
    BY SingleCount
  <2>8. Counted(sending, AnswersOn(u)) = 0
    BY CountedFacts DEF IInv, Typed
  <2>9. Cardinality(open[u]) = Counted(input, CallsOn(u)) + Retained(u) + Counted(output, AnswersOn(u))
                                 + Counted(sending, AnswersOn(u)) + Swallowed(u)
    BY DEF IInv, Balanced
  <2>. QED  BY <2>1, <2>2, <2>4, <2>6, <2>7, <2>8, <2>9, PlacesCounted DEF IInv
<1>. QED  BY <1>5, <1>6, <1>7, <1>8 DEF IInv

LEMMA DrainSlotKeeps ==
  ASSUME IInv, DrainSlot
  PROVE  IInv'
<1>. DEFINE i == Min(Live)
            e == ErrorFrame(slots[i].txid, failure)
<1>1. /\ failure # None /\ invoked = None /\ sending = <<>> /\ Live # {}
      /\ sending' = <<e>> /\ slots' = [slots EXCEPT ![i] = None]
      /\ UNCHANGED <<sequence, failure, invoked, input, output, frames, open, issued, swallowed>>
  BY DEF DrainSlot, Healthy, Idle, host
<1>2. i \in Live
  <2>1. Live \subseteq Nat
    BY DEF Live, Slot
  <2>. QED  BY <1>1, <2>1, MinIsLeast
<1>3. slots[i].txid \in CallId /\ slots[i].txid \in Txid /\ i \in Slot /\ failure \in ErrorCode
  BY <1>1, <1>2, RetainedThere DEF IInv, Typed, CallId
<1>4. e \in Answer /\ e.code # "reply" /\ e.txid = slots[i].txid /\ <<e>> \in Seq(Answer) /\ Len(<<e>>) = 1
  BY <1>3, ErrorAnswers
<1>. HIDE DEF e, i
<1>5. Typed'
  BY <1>1, <1>3, <1>4 DEF IInv, Typed
<1>. QED  BY <1>1, <1>2, <1>4, <1>5, ReleaseKeeps

\* The worker completes a handle it was given, or answers a cast that failed.
LEMMA OutcomeKeeps ==
  ASSUME IInv, NEW from \in Given, NEW reply, NEW code \in {None, "fault"}, NEW more,
         Outcome(from, reply, code, more)
  PROVE  IInv'
<1>. DEFINE found == {k \in Live : slots[k].handle = from[1]}
            i     == IF found # {} /\ reply # None THEN Min(found) ELSE None
            error == IF code # None THEN code
                     ELSE IF i # None /\ reply = "refused" THEN "contract" ELSE None
            fault == IF error # None /\ invoked.kind = "cast"
                     THEN <<ErrorFrame(invoked.txid, error)>> ELSE <<>>
<1>1. /\ invoked # None /\ invoked' = None /\ failure' = error
      /\ IF i # None /\ error = None
         THEN slots' = [slots EXCEPT ![i] = None] /\ sending' = <<Response(i, from[2])>>
         ELSE sending' = fault /\ slots' = slots
      /\ UNCHANGED <<sequence, input, output, frames, open, issued, swallowed>>
  BY DEF Outcome, host
<1>2. sending = <<>> /\ error \in {None} \cup ErrorCode
  BY <1>1 DEF IInv, Typed, ErrorCode
<1>3. CASE i # None /\ error = None
  <2>1. found # {} /\ i = Min(found)
    BY <1>3
  <2>2. found \subseteq Nat
    BY DEF Live, Slot
  <2>3. i \in Live /\ slots[i].handle = from[1]
    <3>. HIDE DEF i
    <3>1. Min(found) \in found
      <4>. HIDE DEF found
      <4>. QED  BY <2>1, <2>2, MinIsLeast
    <3>. QED  BY <2>1, <3>1
  <2>. HIDE DEF found, i, error, fault
  <2>4. slots[i] \in [handle : Nat \ {0}, txid : CallId] /\ slots[i].txid \in Txid /\ i \in Slot
    BY <2>3, RetainedThere DEF IInv, CallId
  <2>5. from \in issued
    BY <2>3, <2>4 DEF Given
  <2>6. from[2] \in Nat
    BY <2>5 DEF IInv, Typed
  <2>7. PICK e : e = Response(i, from[2])
    OBVIOUS
  <2>8. e \in Answer /\ e.txid = slots[i].txid /\ e.meant = from[2]
    BY <2>4, <2>6, <2>7 DEF Response, Answer
  <2>9. sending' = <<e>> /\ slots' = [slots EXCEPT ![i] = None]
    BY <1>1, <1>3, <2>7
  <2>10. sending' \in Seq(Answer) /\ Len(sending') = 1
    BY <2>8, <2>9
  <2>11. slots' \in [Slot -> {None} \cup [handle : Nat \ {0}, txid : CallId]]
    BY <2>4, <2>9 DEF IInv, Typed
  <2>12. Typed'
    BY <1>1, <1>2, <2>10, <2>11 DEF IInv, Typed
  <2>. QED  BY <1>1, <1>2, <2>3, <2>5, <2>8, <2>9, <2>12, ReleaseKeeps
<1>4. CASE ~(i # None /\ error = None)
  <2>1. slots' = slots /\ sending' = fault
    BY <1>1, <1>4
  <2>2. fault = <<>> \/ (fault = <<ErrorFrame(CastId, error)>> /\ error \in ErrorCode)
    BY <1>1, <1>2 DEF IInv, Typed
  <2>. HIDE DEF fault, i, error
  <2>3. sending' \in Seq(Answer) /\ Len(sending') <= 1
    <3>1. CASE fault = <<>>
      BY <2>1, <3>1
    <3>2. CASE fault = <<ErrorFrame(CastId, error)>> /\ error \in ErrorCode
      <4>1. <<ErrorFrame(CastId, error)>> \in Seq(Answer) /\ Len(<<ErrorFrame(CastId, error)>>) = 1
        BY <3>2, ErrorAnswers
      <4>. QED  BY <2>1, <3>2, <4>1
    <3>. QED  BY <2>2, <3>1, <3>2
  <2>4. Typed'
    BY <1>1, <1>2, <2>1, <2>3 DEF IInv, Typed
  <2>5. Live' = Live /\ \A h : Held(h)' <=> Held(h)
    BY <2>1 DEF Live, Held
  <2>6. Arriving' /\ Waiting'
    BY <1>1 DEF IInv, Arriving, Waiting
  <2>7. Retaining'
    BY <1>1, <2>1, <2>5 DEF IInv, Retaining
  <2>8. Replying'
    <3>1. sending' = <<>> \/ \E e : sending' = <<e>> /\ e.code # "reply"
      BY <2>1, <2>2, ErrorAnswers
    <3>. QED  BY <1>1, <2>5, <3>1, OutputKept
  <2>9. Balanced'
    <3>1. ASSUME NEW t \in CallId
          PROVE  Counted(sending', AnswersOn(t)) = 0 /\ Counted(sending, AnswersOn(t)) = 0
      <4>1. \A n \in 1 .. Len(sending') : sending'[n] \notin AnswersOn(t)
        <5>1. CASE fault = <<>>
          BY <2>1, <5>1
        <5>2. CASE fault = <<ErrorFrame(CastId, error)>>
          BY <2>1, <5>2 DEF AnswersOn, ErrorFrame, CallId
        <5>. QED  BY <2>2, <5>1, <5>2
      <4>2. Counted(sending', AnswersOn(t)) \in Nat /\ ~(Counted(sending', AnswersOn(t)) > 0)
        BY <2>3, <4>1, CountedFacts
      <4>3. Counted(sending, AnswersOn(t)) = 0
        BY <1>2, CountedFacts DEF IInv, Typed
      <4>. QED  BY <4>2, <4>3
    <3>. QED  BY <1>1, <2>1, <2>5, <3>1 DEF IInv, Balanced, Retained, Swallowed
  <2>. QED  BY <2>4, <2>6, <2>7, <2>8, <2>9 DEF IInv
<1>. QED  BY <1>3, <1>4

-----------------------------------------------------------------------------
(* The transport and the host's reader.                                    *)

LEMMA SendKeeps ==
  ASSUME IInv, Send
  PROVE  IInv'
<1>. DEFINE e == Head(sending)
<1>1. /\ sending # <<>> /\ output' = Append(output, e) /\ sending' = Tail(sending)
      /\ UNCHANGED <<slots, sequence, failure, invoked, input, frames, open, issued, swallowed>>
  BY DEF Send, host
<1>2. /\ sending \in Seq(Answer) /\ output \in Seq(Answer) /\ Len(sending) = 1 /\ e \in Answer
      /\ sending[1] = e /\ sending' = <<>> /\ output' \in Seq(Answer)
      /\ Len(output) \in Nat /\ Len(output') = Len(output) + 1
      /\ output'[Len(output) + 1] = e /\ \A n \in 1 .. Len(output) : output'[n] = output[n]
  <2>1. sending \in Seq(Answer) /\ output \in Seq(Answer) /\ Len(sending) = 1
    <3>1. sending \in Seq(Answer) /\ Len(sending) <= 1 /\ output \in Seq(Answer)
      BY DEF IInv, Typed
    <3>2. Len(sending) \in Nat /\ Len(sending) # 0
      BY <1>1, <3>1
    <3>3. \A k \in Nat : k <= 1 /\ k # 0 => k = 1
      OBVIOUS
    <3>. QED  BY <3>1, <3>2, <3>3
  <2>2. e \in Answer /\ sending[1] = e /\ sending' = <<>>
    BY <1>1, <2>1
  <2>. HIDE DEF e
  <2>. QED  BY <1>1, <2>1, <2>2
<1>. HIDE DEF e
<1>3. Typed'
  <2>1. sending' \in Seq(Answer) /\ Len(sending') <= 1
    BY <1>2
  <2>. QED  BY <1>1, <1>2, <2>1 DEF IInv, Typed
<1>4. Live' = Live /\ \A h : Held(h)' <=> Held(h)
  BY <1>1 DEF Live, Held
<1>5. Arriving' /\ Waiting'
  BY <1>1 DEF IInv, Arriving, Waiting
<1>6. Retaining'
  BY <1>1, <1>4 DEF IInv, Retaining
<1>7. Replying'
  <2>1. \A a, k : Meets(a, k) => Meets(a, k)'
    BY <1>1, <1>4, MeetsKept
  <2>2. ASSUME NEW n \in 1 .. Len(output')
        PROVE  (Meets(output[n], UpTo(output, n - 1, AnswersOn(output[n].txid))))'
    <3>. DEFINE a == output'[n]
                k == UpTo(output', n - 1, AnswersOn(output'[n].txid))
    <3>1. Meets(a, k)
      <4>1. ASSUME NEW S
            PROVE  UpTo(output', n - 1, S) = UpTo(output, n - 1, S)
        <5>1. n - 1 \in 0 .. Len(output)
          BY <1>2
        <5>2. \A j \in 0 .. Len(output) : UpTo(Append(output, e), j, S) = UpTo(output, j, S)
          BY <1>2, CountAppend
        <5>. QED  BY <1>1, <5>1, <5>2
      <4>2. CASE n = Len(output) + 1
        <5>1. a = e /\ UpTo(output', n - 1, AnswersOn(e.txid)) = Counted(output, AnswersOn(e.txid))
          BY <1>2, <4>1, <4>2 DEF Counted
        <5>2. Meets(e, Counted(output, AnswersOn(e.txid)))
          BY <1>2 DEF IInv, Replying
        <5>. QED  BY <5>1, <5>2
      <4>3. CASE n # Len(output) + 1
        <5>1. n \in 1 .. Len(output) /\ a = output[n]
          BY <1>2, <4>3
        <5>2. Meets(output[n], UpTo(output, n - 1, AnswersOn(output[n].txid)))
          BY <5>1 DEF IInv, Replying
        <5>. QED  BY <4>1, <5>1, <5>2
      <4>. QED  BY <4>2, <4>3
    <3>2. \A b, j : b = a /\ j = k => Meets(b, j)'
      <4>. HIDE DEF a, k
      <4>. QED  BY <2>1, <3>1
    <3>. QED  BY <3>2 DEF Meets
  <2>3. ASSUME NEW m \in 1 .. Len(output'), NEW n \in 1 .. Len(output'), m < n,
               output'[m].code = "reply", output'[n].code = "reply"
        PROVE  output'[m].meant # output'[n].meant
    <3>1. m \in 1 .. Len(output) /\ output'[m] = output[m]
      BY <1>2, <2>3
    <3>2. CASE n = Len(output) + 1
      BY <1>2, <2>3, <3>1, <3>2 DEF IInv, Replying
    <3>3. CASE n # Len(output) + 1
      <4>1. n \in 1 .. Len(output) /\ output'[n] = output[n]
        BY <1>2, <3>3
      <4>. QED  BY <2>3, <3>1, <4>1 DEF IInv, Replying
    <3>. QED  BY <3>2, <3>3
  <2>4. Len(sending') = 0
    BY <1>2
  <2>. QED  BY <2>2, <2>3, <2>4 DEF Replying
<1>8. Balanced'
  <2>. SUFFICES ASSUME NEW t \in CallId
                PROVE  Cardinality(open[t]) = Counted(input, CallsOn(t)) + Retained(t) + Counted(output', AnswersOn(t))
                                                + Counted(sending', AnswersOn(t)) + Swallowed(t)
    BY <1>1, <1>4 DEF Balanced, Retained, Swallowed
  <2>1. t \in Txid
    BY DEF CallId
  <2>2. Counted(output', AnswersOn(t)) = Counted(output, AnswersOn(t)) + IF e \in AnswersOn(t) THEN 1 ELSE 0
    BY <1>1, <1>2, CountAppend
  <2>3. Counted(sending', AnswersOn(t)) = Counted(sending, AnswersOn(t)) - IF e \in AnswersOn(t) THEN 1 ELSE 0
    BY <1>1, <1>2, ShiftCount DEF e
  <2>4. Cardinality(open[t]) = Counted(input, CallsOn(t)) + Retained(t) + Counted(output, AnswersOn(t))
                                 + Counted(sending, AnswersOn(t)) + Swallowed(t)
    BY DEF IInv, Balanced
  <2>. QED  BY <2>1, <2>2, <2>3, <2>4, PlacesCounted DEF IInv
<1>. QED  BY <1>3, <1>5, <1>6, <1>7, <1>8 DEF IInv

\* The call that an answer closes is neither queued nor retained, and the
\* replies behind the answer still find theirs open.
Closed(answer) ==
  IF answer.meant \in open[answer.txid] THEN {answer.meant}
  ELSE IF open[answer.txid] = {} THEN {} ELSE {Min(open[answer.txid])}

LEMMA ClosingFacts ==
  ASSUME IInv, output # <<>>, NEW a, a = Head(output), NEW t \in CallId, t = a.txid
  PROVE  \E c \in open[t] :
           /\ Closed(a) = {c} /\ ~QueuedCall(input, t, c)
           /\ \A i \in Live, p \in issued : slots[i].txid = t /\ p[1] = slots[i].handle => p[2] # c
           /\ \A b, k : /\ Meets(b, k) /\ b.code = "reply" /\ b.txid = t /\ k \in Nat /\ k >= 1
                        /\ a.code = "reply" => a.meant # b.meant
                        => b.meant # c /\ k - 1 <= Cardinality(Before(open[t] \ {c}, b.meant))
<1>1. /\ output \in Seq(Answer) /\ Len(output) \in Nat /\ 1 \in 1 .. Len(output) /\ output[1] = a
      /\ a \in Answer /\ a \in AnswersOn(t) /\ t \in Txid
  BY DEF IInv, Typed, AnswersOn, CallId
<1>2. Counted(output, AnswersOn(t)) >= 1
  BY <1>1, UpToBounds DEF Counted
<1>3. open[t] # {}
  <2>1. Cardinality(open[t]) # 0
    BY <1>1, <1>2, PlacesCounted DEF IInv, Balanced
  <2>. QED  BY <2>1, FS_EmptySet
<1>4. open[t] \subseteq Nat /\ IsFiniteSet(open[t]) /\ 0 \notin open[t]
  <2>1. 0 \notin open[t]
    BY <1>1 DEF IInv, Typed
  <2>. QED  BY <1>1, <2>1, PlacesFinite DEF IInv
<1>5. ASSUME NEW c \in open[t], NEW m
      PROVE  /\ IsFiniteSet(Before(open[t], m)) /\ Cardinality(Before(open[t], m)) \in Nat
             /\ Cardinality(Before(open[t], m)) - 1 <= Cardinality(Before(open[t] \ {c}, m))
  <2>. DEFINE B == Before(open[t], m)
  <2>1. B \in SUBSET open[t] /\ Before(open[t] \ {c}, m) = B \ {c}
    BY DEF Before
  <2>. HIDE DEF B
  <2>2. IsFiniteSet(B)
    BY <1>4, <2>1, FS_Subset
  <2>3. Cardinality(B) \in Nat
    BY <2>2, FS_CardinalityType
  <2>4. Cardinality(B \ {c}) = IF c \in B THEN Cardinality(B) - 1 ELSE Cardinality(B)
    BY <2>2, FS_RemoveElement
  <2>5. Cardinality(B) - 1 <= Cardinality(B \ {c})
    BY <2>3, <2>4
  <2>. QED  BY <2>1, <2>2, <2>3, <2>5 DEF B
<1>6. CASE a.code = "reply"
  <2>1. /\ a.meant \in open[t]
        /\ \E p \in issued : p[2] = a.meant /\ ~Held(p[1])
    BY <1>1, <1>6 DEF IInv, Replying, Meets
  <2>2. PICK p \in issued : p[2] = a.meant /\ ~Held(p[1])
    BY <2>1
  <2>3. Closed(a) = {a.meant}
    BY <2>1 DEF Closed
  <2>4. ~QueuedCall(input, t, a.meant)
    <3>1. \A n \in 1 .. Len(input) : p[2] < input[n].number /\ input[n].number \in Nat
      BY DEF IInv, Arriving, Typed
    <3>2. p[2] \in Nat
      BY <1>4, <2>1, <2>2
    <3>. QED  BY <2>2, <3>1, <3>2 DEF QueuedCall
  <2>5. ASSUME NEW i \in Live, NEW q \in issued, q[1] = slots[i].handle, q[2] = a.meant
        PROVE  FALSE
    <3>1. q = p
      BY <2>2, <2>5 DEF IInv, Retaining
    <3>. QED  BY <2>2, <2>5, <3>1 DEF Held
  <2>6. ASSUME NEW b, NEW k, Meets(b, k), b.code = "reply", b.txid = t, k \in Nat, k >= 1, a.meant # b.meant
        PROVE  b.meant # a.meant /\ k - 1 <= Cardinality(Before(open[t] \ {a.meant}, b.meant))
    <3>1. k <= Cardinality(Before(open[t], b.meant))
      BY <2>6 DEF Meets
    <3>2. /\ Cardinality(Before(open[t], b.meant)) \in Nat
          /\ Cardinality(Before(open[t], b.meant)) - 1 <= Cardinality(Before(open[t] \ {a.meant}, b.meant))
      BY <1>5, <2>1
    <3>3. Cardinality(Before(open[t] \ {a.meant}, b.meant)) \in Nat
      <4>1. Before(open[t] \ {a.meant}, b.meant) \in SUBSET open[t]
        BY DEF Before
      <4>. QED  BY <1>4, <4>1, FS_Subset, FS_CardinalityType
    <3>. QED  BY <2>6, <3>1, <3>2, <3>3
  <2>7. a.meant \in open[t]
    BY <2>1
  <2>. WITNESS a.meant \in open[t]
  <2>. QED  BY <1>6, <2>3, <2>4, <2>5, <2>6
<1>7. CASE a.code # "reply"
  <2>1. PICK c : c = Min(open[t])
    OBVIOUS
  <2>2. c \in open[t] /\ \A y \in open[t] : c <= y
    BY <1>3, <1>4, <2>1, MinIsLeast
  <2>3. a.meant = 0
    BY <1>1, <1>7 DEF Answer
  <2>4. Closed(a) = {c}
    BY <1>3, <1>4, <2>1, <2>3 DEF Closed
  <2>5. ~QueuedCall(input, t, c)
    <3>. SUFFICES ASSUME QueuedCall(input, t, c)  PROVE FALSE
      OBVIOUS
    <3>1. PICK n \in 1 .. Len(input) : input[n].number = c
      BY DEF QueuedCall
    <3>2. ASSUME NEW y \in open[t]
          PROVE  QueuedCall(input, t, y)
      <4>1. QueuedCall(input, t, y) \/ \A m \in 1 .. Len(input) : y < input[m].number
        BY DEF IInv, Waiting
      <4>2. ~(y < c)
        BY <1>4, <2>2
      <4>. QED  BY <3>1, <4>1, <4>2
    <3>3. Cardinality(open[t]) <= Counted(input, CallsOn(t)) + Swallowed(t)
      BY <1>4, <3>2, LaterBound DEF IInv
    <3>4. Cardinality(open[t]) = Counted(input, CallsOn(t)) + Retained(t) + Counted(output, AnswersOn(t))
                                   + Counted(sending, AnswersOn(t)) + Swallowed(t)
      BY <1>1 DEF IInv, Balanced
    <3>5. /\ Counted(input, CallsOn(t)) \in Nat /\ Retained(t) \in Nat /\ Swallowed(t) \in Nat
          /\ Counted(output, AnswersOn(t)) \in Nat /\ Counted(sending, AnswersOn(t)) \in Nat
      BY <1>1, PlacesCounted DEF IInv
    <3>. QED  BY <1>2, <3>3, <3>4, <3>5
  <2>6. ASSUME NEW i \in Live, NEW p \in issued, slots[i].txid = t, p[1] = slots[i].handle, p[2] = c
        PROVE  FALSE
    <3>1. \A y \in open[t] : y > c => QueuedCall(input, t, y) \/ <<t, y>> \in swallowed
      BY <2>6 DEF IInv, Retaining
    <3>2. Cardinality(Before(open[t], c)) + 1 >=
            Retained(t) + Counted(output, AnswersOn(t)) + Counted(sending, AnswersOn(t))
      BY <2>2, <3>1, OlderEnough DEF IInv
    <3>3. Before(open[t], c) = {}
      BY <1>4, <2>2 DEF Before
    <3>4. Cardinality(Before(open[t], c)) = 0
      BY <3>3, FS_EmptySet
    <3>5. Retained(t) >= 1
      BY <2>6, RetainedThere DEF IInv
    <3>. QED  BY <1>1, <1>2, <3>2, <3>4, <3>5, PlacesCounted DEF IInv
  <2>7. ASSUME NEW b, NEW k, Meets(b, k), b.code = "reply", b.txid = t, k \in Nat, k >= 1
        PROVE  b.meant # c /\ k - 1 <= Cardinality(Before(open[t] \ {c}, b.meant))
    <3>1. k <= Cardinality(Before(open[t], b.meant)) /\ b.meant \in open[t]
      BY <2>7 DEF Meets
    <3>2. /\ Cardinality(Before(open[t], b.meant)) \in Nat
          /\ Cardinality(Before(open[t], b.meant)) - 1 <= Cardinality(Before(open[t] \ {c}, b.meant))
      BY <1>5, <2>2
    <3>3. Before(open[t], b.meant) # {}
      <4>1. Cardinality(Before(open[t], b.meant)) # 0
        BY <2>7, <3>1, <3>2
      <4>. QED  BY <4>1, FS_EmptySet
    <3>4. PICK y \in open[t] : y < b.meant
      BY <3>3 DEF Before
    <3>5. b.meant # c
      BY <1>4, <2>2, <3>1, <3>4
    <3>6. Cardinality(Before(open[t] \ {c}, b.meant)) \in Nat
      <4>1. Before(open[t] \ {c}, b.meant) \in SUBSET open[t]
        BY DEF Before
      <4>. QED  BY <1>4, <4>1, FS_Subset, FS_CardinalityType
    <3>. QED  BY <2>7, <3>1, <3>2, <3>5, <3>6
  <2>8. c \in open[t]
    BY <2>2
  <2>. WITNESS c \in open[t]
  <2>. QED  BY <2>4, <2>5, <2>6, <2>7
<1>. QED  BY <1>6, <1>7

LEMMA HostReceivesKeeps ==
  ASSUME IInv, HostReceives
  PROVE  IInv'
<1>. DEFINE a == Head(output)
            t == a.txid
<1>1. /\ output # <<>> /\ output' = Tail(output) /\ open' = [open EXCEPT ![t] = @ \ Closed(a)]
      /\ UNCHANGED <<slots, sequence, failure, invoked, sending, input, frames, issued, swallowed>>
  BY DEF HostReceives, Closed, driver
<1>2. /\ output \in Seq(Answer) /\ Len(output) \in Nat /\ Len(output) >= 1 /\ output[1] = a /\ a \in Answer
      /\ output' \in Seq(Answer) /\ Len(output') = Len(output) - 1
      /\ \A n \in 1 .. Len(output') : output'[n] = output[n + 1]
  BY <1>1 DEF IInv, Typed
<1>3. /\ open \in [Txid -> SUBSET (1 .. frames)] /\ open' \in [Txid -> SUBSET (1 .. frames)]
      /\ \A u \in CallId : u # t => open'[u] = open[u]
      /\ t \in CallId => open'[t] = open[t] \ Closed(a)
      /\ \A u \in CallId : open'[u] \subseteq open[u] /\ u \in Txid
  BY <1>1 DEF IInv, Typed, CallId
<1>4. PICK c : t \in CallId =>
                 /\ c \in open[t] /\ open'[t] = open[t] \ {c} /\ ~QueuedCall(input, t, c)
                 /\ \A i \in Live, p \in issued : slots[i].txid = t /\ p[1] = slots[i].handle => p[2] # c
                 /\ \A b, k : /\ Meets(b, k) /\ b.code = "reply" /\ b.txid = t /\ k \in Nat /\ k >= 1
                              /\ a.code = "reply" => a.meant # b.meant
                              => b.meant # c /\ k - 1 <= Cardinality(Before(open[t] \ {c}, b.meant))
  <2>1. CASE t \in CallId
    BY <1>1, <1>3, <2>1, ClosingFacts
  <2>2. CASE t \notin CallId
    BY <2>2
  <2>. QED  BY <2>1, <2>2
<1>. HIDE DEF a, t
<1>5. Live' = Live /\ \A h : Held(h)' <=> Held(h)
  BY <1>1 DEF Live, Held
<1>6. Typed'
  BY <1>1, <1>2, <1>3 DEF IInv, Typed
<1>7. Arriving'
  BY <1>1 DEF IInv, Arriving
<1>8. Waiting'
  <2>1. ASSUME NEW u \in CallId, NEW y \in Nat, QueuedCall(input, u, y)
        PROVE  y \in open'[u]
    <3>1. y \in open[u]
      BY <2>1 DEF IInv, Waiting
    <3>2. CASE u = t
      BY <1>4, <2>1, <3>1, <3>2
    <3>3. CASE u # t
      BY <1>3, <3>1, <3>3
    <3>. QED  BY <3>2, <3>3
  <2>2. ASSUME NEW u \in CallId, NEW y \in open'[u]
        PROVE  QueuedCall(input, u, y) \/ \A n \in 1 .. Len(input) : y < input[n].number
    BY <1>3 DEF IInv, Waiting
  <2>. QED  BY <1>1, <2>1, <2>2 DEF Waiting
<1>9. Retaining'
  <2>1. ASSUME NEW i \in Live, NEW p \in issued, p[1] = slots[i].handle
        PROVE  /\ p[2] \in open'[slots[i].txid]
               /\ \A y \in open'[slots[i].txid] :
                    y > p[2] => QueuedCall(input, slots[i].txid, y) \/ <<slots[i].txid, y>> \in swallowed
    <3>1. slots[i].txid \in CallId
      BY RetainedThere DEF IInv
    <3>2. /\ p[2] \in open[slots[i].txid]
          /\ \A y \in open[slots[i].txid] :
               y > p[2] => QueuedCall(input, slots[i].txid, y) \/ <<slots[i].txid, y>> \in swallowed
      BY <2>1 DEF IInv, Retaining
    <3>3. p[2] \in open'[slots[i].txid]
      <4>1. CASE slots[i].txid = t
        BY <1>4, <2>1, <3>1, <3>2, <4>1
      <4>2. CASE slots[i].txid # t
        BY <1>3, <3>1, <3>2, <4>2
      <4>. QED  BY <4>1, <4>2
    <3>. QED  BY <1>3, <3>1, <3>2, <3>3
  <2>2. /\ \A p \in issued : p[1] < sequence
        /\ \A p, q \in issued : p[1] = q[1] \/ p[2] = q[2] => p = q
        /\ \A i, j \in Live : slots[i].handle = slots[j].handle => i = j
        /\ \A i \in Live : \E p \in issued : p[1] = slots[i].handle
    BY DEF IInv, Retaining
  <2>. QED  BY <1>1, <1>5, <2>1, <2>2 DEF Retaining
<1>10. Replying'
  \* An answer that had k answers on its ID before it has one less when the
  \* one that is taken was on its ID.
  <2>1. ASSUME NEW b, NEW k \in Nat, Meets(b, k), NEW j \in Nat,
               a.code = "reply" /\ b.code = "reply" => a.meant # b.meant,
               j = k - IF a \in AnswersOn(b.txid) THEN 1 ELSE 0
        PROVE  (Meets(b, j))'
    <3>1. CASE b.code # "reply"
      BY <3>1 DEF Meets
    <3>2. CASE b.code = "reply"
      <4>1. /\ b.txid \in CallId /\ b.meant \in open[b.txid]
            /\ k <= Cardinality(Before(open[b.txid], b.meant))
            /\ \E p \in issued : p[2] = b.meant /\ ~Held(p[1])
        BY <2>1, <3>2 DEF Meets
      <4>2. a \in AnswersOn(b.txid) <=> b.txid = t
        BY <1>2 DEF AnswersOn, t
      <4>3. b.meant \in open'[b.txid] /\ j <= Cardinality(Before(open'[b.txid], b.meant))
        <5>1. CASE b.txid = t
          <6>1. j = k - 1 /\ k >= 1
            BY <2>1, <4>2, <5>1
          <6>2. b.meant # c /\ k - 1 <= Cardinality(Before(open[t] \ {c}, b.meant))
            BY <1>4, <2>1, <3>2, <4>1, <5>1, <6>1
          <6>. QED  BY <1>4, <4>1, <5>1, <6>1, <6>2
        <5>2. CASE b.txid # t
          BY <1>3, <2>1, <4>1, <4>2, <5>2
        <5>. QED  BY <5>1, <5>2
      <4>4. \E p \in issued' : p[2] = b.meant /\ ~Held(p[1])'
        BY <1>1, <1>5, <4>1
      <4>. QED  BY <4>1, <4>3, <4>4 DEF Meets
    <3>. QED  BY <3>1, <3>2
  <2>2. ASSUME NEW n \in 1 .. Len(output')
        PROVE  (Meets(output[n], UpTo(output, n - 1, AnswersOn(output[n].txid))))'
    <3>. DEFINE b == output[n + 1]
                k == UpTo(output, n, AnswersOn(b.txid))
                j == UpTo(output', n - 1, AnswersOn(b.txid))
    <3>1. n \in Nat /\ n + 1 \in 1 .. Len(output) /\ output'[n] = b /\ (n + 1) - 1 = n
      BY <1>2
    <3>2. Meets(b, k)
      BY <3>1 DEF IInv, Replying
    <3>3. k \in Nat /\ j \in Nat
      <4>1. n - 1 \in Nat
        OBVIOUS
      <4>. QED  BY <3>1, <4>1, UpToFacts
    <3>4. j = k - IF a \in AnswersOn(b.txid) THEN 1 ELSE 0
      <4>1. n - 1 \in 0 .. Len(output) - 1 /\ (n - 1) + 1 = n
        BY <1>2
      <4>2. \A l \in 0 .. Len(output) - 1 :
              UpTo(Tail(output), l, AnswersOn(b.txid)) =
                UpTo(output, l + 1, AnswersOn(b.txid)) - IF Head(output) \in AnswersOn(b.txid) THEN 1 ELSE 0
        <5>. HIDE DEF b
        <5>. QED  BY <1>1, <1>2, ShiftCount
      <4>. HIDE DEF b
      <4>. QED  BY <1>1, <4>1, <4>2 DEF a
    <3>5. a.code = "reply" /\ b.code = "reply" => a.meant # b.meant
      <4>1. 1 \in 1 .. Len(output) /\ 1 < n + 1
        BY <1>2, <3>1
      <4>. QED  BY <1>2, <3>1, <4>1 DEF IInv, Replying
    <3>6. \A x, y : x = b /\ y = j => (Meets(x, y))'
      <4>. HIDE DEF b, k, j
      <4>. QED  BY <2>1, <3>2, <3>3, <3>4, <3>5
    <3>. QED  BY <3>1, <3>6
  <2>3. ASSUME NEW n \in 1 .. Len(sending)
        PROVE  (Meets(sending[n], Counted(output, AnswersOn(sending[n].txid))))'
    <3>. DEFINE b == sending[n]
                k == Counted(output, AnswersOn(b.txid))
                j == Counted(output', AnswersOn(b.txid))
    <3>1. Meets(b, k)
      BY DEF IInv, Replying
    <3>2. k \in Nat /\ j \in Nat
      BY <1>2, CountedFacts
    <3>3. j = k - IF a \in AnswersOn(b.txid) THEN 1 ELSE 0
      <4>. HIDE DEF b
      <4>. QED  BY <1>1, <1>2, ShiftCount DEF a
    <3>4. a.code = "reply" /\ b.code = "reply" => a.meant # b.meant
      <4>1. 1 \in 1 .. Len(output)
        BY <1>2
      <4>. QED  BY <1>2, <4>1 DEF IInv, Replying
    <3>5. \A x, y : x = b /\ y = j => (Meets(x, y))'
      <4>. HIDE DEF b, k, j
      <4>. QED  BY <2>1, <3>1, <3>2, <3>3, <3>4
    <3>6. sending'[n] = b
      BY <1>1
    <3>. QED  BY <3>5, <3>6
  <2>4. ASSUME NEW m \in 1 .. Len(output'), NEW n \in 1 .. Len(output'), m < n,
               output'[m].code = "reply", output'[n].code = "reply"
        PROVE  output'[m].meant # output'[n].meant
    <3>1. /\ m + 1 \in 1 .. Len(output) /\ n + 1 \in 1 .. Len(output) /\ m + 1 < n + 1
          /\ output'[m] = output[m + 1] /\ output'[n] = output[n + 1]
      BY <1>2, <2>4
    <3>. QED  BY <2>4, <3>1 DEF IInv, Replying
  <2>5. ASSUME NEW m \in 1 .. Len(output'), NEW n \in 1 .. Len(sending),
               output'[m].code = "reply", sending[n].code = "reply"
        PROVE  output'[m].meant # sending[n].meant
    <3>1. m + 1 \in 1 .. Len(output) /\ output'[m] = output[m + 1]
      BY <1>2
    <3>. QED  BY <2>5, <3>1 DEF IInv, Replying
  <2>. QED  BY <1>1, <2>2, <2>3, <2>4, <2>5 DEF Replying
<1>11. Balanced'
  <2>. SUFFICES ASSUME NEW u \in CallId
                PROVE  Cardinality(open'[u]) = Counted(input, CallsOn(u)) + Retained(u) + Counted(output', AnswersOn(u))
                                                 + Counted(sending, AnswersOn(u)) + Swallowed(u)
    BY <1>1, <1>5 DEF Balanced, Retained, Swallowed
  <2>1. u \in Txid /\ (a \in AnswersOn(u) <=> u = t)
    BY <1>2 DEF AnswersOn, CallId, t
  <2>2. Counted(output', AnswersOn(u)) = Counted(output, AnswersOn(u)) - IF a \in AnswersOn(u) THEN 1 ELSE 0
    BY <1>1, <1>2, ShiftCount DEF a
  <2>3. IsFiniteSet(open[u]) /\ Cardinality(open[u]) \in Nat
    BY <2>1, PlacesFinite, PlacesCounted DEF IInv
  <2>4. u = t => Cardinality(open'[u]) = Cardinality(open[u]) - 1
    BY <1>4, <2>3, FS_RemoveElement
  <2>5. u # t => Cardinality(open'[u]) = Cardinality(open[u])
    BY <1>3
  <2>6. Cardinality(open[u]) = Counted(input, CallsOn(u)) + Retained(u) + Counted(output, AnswersOn(u))
                                 + Counted(sending, AnswersOn(u)) + Swallowed(u)
    BY DEF IInv, Balanced
  <2>. QED  BY <2>1, <2>2, <2>3, <2>4, <2>5, <2>6, PlacesCounted DEF IInv
<1>. QED  BY <1>6, <1>7, <1>8, <1>9, <1>10, <1>11 DEF IInv

-----------------------------------------------------------------------------
\* Whatever the worker, the host and the transport do next, calls stay in
\* exactly one place each.
LEMMA Inductive == IInv /\ [Next]_vars => IInv'
<1>. SUFFICES ASSUME IInv, [Next]_vars  PROVE IInv'
  OBVIOUS
<1>1. CASE Driver
  BY <1>1, RejectCallKeeps, RefuseCallKeeps, InvokeCallKeeps, InvokeCastKeeps, InvokeInternalKeeps,
     SendKeeps, DrainSlotKeeps, DrainFrameKeeps DEF Driver
<1>2. CASE Worker
  BY <1>2, OutcomeKeeps DEF Worker
<1>3. CASE HostReceives
  BY <1>3, HostReceivesKeeps
<1>4. CASE \E frame \in HostFrame : HostSends(frame)
  BY <1>4, HostSendsKeeps
<1>5. CASE UNCHANGED vars
  <2>1. UNCHANGED <<slots, sequence, sending, input, output, frames, open, issued, swallowed, failure, invoked>>
    BY <1>5 DEF vars, driver, host
  <2>2. Typed'
    BY <2>1 DEF IInv, Typed
  <2>. QED  BY <2>1, <2>2, Untouched
<1>. QED  BY <1>1, <1>2, <1>3, <1>4, <1>5 DEF Next

LEMMA Invariance == Spec => []IInv
BY InitEstablishes, Inductive, PTL DEF Spec

LEMMA InvariantBalances == IInv => CallsBalance
<1>. SUFFICES ASSUME IInv  PROVE CallsBalance
  OBVIOUS
<1>1. ASSUME NEW t \in Txid \ {CastId}
      PROVE  Cardinality(open[t]) = Queued(t) + Retained(t) + Flying(t) + Swallowed(t)
  <2>1. t \in CallId /\ t \in Txid
    BY DEF CallId
  <2>2. Queued(t) = Counted(input, CallsOn(t))
    <3>1. {n \in 1 .. Len(input) : input[n].call /\ input[n].txid = t} =
            {n \in 1 .. Len(input) : input[n] \in CallsOn(t)}
      BY DEF CallsOn, IInv, Typed
    <3>. QED  BY <3>1 DEF Queued, Counted, UpTo
  <2>3. Flying(t) = Counted(output, AnswersOn(t)) + Counted(sending, AnswersOn(t))
    <3>1. /\ {n \in 1 .. Len(output) : output[n].txid = t} =
               {n \in 1 .. Len(output) : output[n] \in AnswersOn(t)}
          /\ {n \in 1 .. Len(sending) : sending[n].txid = t} =
               {n \in 1 .. Len(sending) : sending[n] \in AnswersOn(t)}
      BY DEF AnswersOn, IInv, Typed
    <3>. QED  BY <3>1 DEF Flying, Counted, UpTo
  <2>. QED  BY <2>1, <2>2, <2>3, PlacesCounted DEF IInv, Balanced
<1>2. \A n \in 1 .. Len(output) : output[n].code = "reply" => output[n].meant \in open[output[n].txid]
  BY DEF IInv, Replying, Meets
<1>. QED  BY <1>1, <1>2 DEF CallsBalance

\* For every set of transaction IDs, number of slots, depth of the channels and
\* number of faulty calls: every call the host waits for is in exactly one
\* place, and a reply under way is for the call it is meant for
\* (hls_server.x, hls_reply.x).
THEOREM CallsAreBalanced == Spec => []CallsBalance
BY Invariance, InvariantBalances, PTL
=============================================================================
