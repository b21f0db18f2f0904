----------------------------- MODULE FabricLink -----------------------------
(***************************************************************************)
(* The packet multiplexers of priv/rtl/fabric: hls_fabric_egress.v merges  *)
(* the ports' packets onto one stream behind a route word, and             *)
(* hls_fabric_ingress.v at the far end of the stream takes the route word  *)
(* off and hands the packet to a port.                                     *)
(*                                                                         *)
(* One action is one clock of both circuits in which a beat moves; a clock *)
(* in which none does is a stutter.  A source keeps a beat that is stalled *)
(* and names a destination with every beat, 0 with none; only the one      *)
(* beside a packet's first beat counts.  Payload is whatever looks like a  *)
(* route to its own source.                                                *)
(***************************************************************************)
EXTENDS Integers, Sequences

CONSTANTS Ports,      \* number of ports
          Address,    \* 16-bit words
          Endpoints,  \* each port's ID
          Wanted,     \* the destinations that sources name
          MaxLength,  \* longest packet, in beats
          NoOffer

Port == 0 .. Ports - 1

\* The modules refuse to elaborate otherwise.
ASSUME PortsAssumption == Ports \in Nat \ {0}
ASSUME EndpointsAssumption ==
  /\ 0 \in Address /\ Wanted \subseteq Address
  /\ Endpoints \in [Port -> Address]
  /\ \A p, q \in Port : Endpoints[p] = Endpoints[q] => p = q
ASSUME LengthAssumption == MaxLength \in Nat \ {0}
ASSUME NoOfferAssumption == NoOffer \notin [port : Port, index : 0 .. MaxLength, last : BOOLEAN]

VARIABLES state, selected, next_port, destination, first,  \* egress
          mode, target, source,                            \* ingress: state, selected, source
          offered,  \* the beat each port presents, or NoOffer
          wanted,   \* the destination beside it
          given,    \* beats of its packet each port has handed over
          waited,   \* history: packets selected before the one a port offers
          stream    \* history: what a port was handed of the present packet
egress == <<state, selected, next_port, destination, first>>
ingress == <<mode, target, source>>
ports == <<offered, wanted, given>>
link == <<egress, ingress, ports, waited, stream>>

Beat == [port : Port, index : 0 .. MaxLength, last : BOOLEAN]
NoBeat == [port |-> 0, index |-> 0, last |-> FALSE]

LinkInit ==
  /\ state = "IDLE" /\ selected = 0 /\ next_port = 0
  /\ destination = 0 /\ first = NoBeat
  /\ mode = "ADDRESS" /\ target = 0 /\ source = 0
  /\ offered = [p \in Port |-> NoOffer] /\ wanted = [p \in Port |-> 0]
  /\ given = [p \in Port |-> 0]
  /\ waited = [p \in Port |-> 0] /\ stream = <<>>

-----------------------------------------------------------------------------
(* Egress.                                                                 *)

Requesters == {p \in Port : offered[p] # NoOffer}

Lowest(S) == CHOOSE p \in S : \A q \in S : p <= q

\* Mutant: a fixed priority.
CandidateFixed == Lowest(Requesters)

\* The two scans: the lowest requester from next_port on, else the lowest.
Candidate ==
  LET later == {p \in Requesters : p >= next_port}
  IN IF later # {} THEN Lowest(later) ELSE Lowest(Requesters)

\* Mutant: the destination is read when the route is sent.
RouteLive == [source |-> Endpoints[selected], destination |-> wanted[selected]]

RouteWord == [source |-> Endpoints[selected], destination |-> destination]

Payload(beat) ==
  [source |-> Endpoints[selected], destination |-> Endpoints[selected], beat |-> beat]

\* The beat behind the route: the captured one, then the owner's.
Present == state = "FIRST" \/ (state = "BODY" /\ offered[selected] # NoOffer)
Outgoing == IF state = "FIRST" THEN first ELSE offered[selected]

-----------------------------------------------------------------------------
(* Ingress.                                                                *)

Known(address) == \E p \in Port : Endpoints[p] = address
PortOf(address) == CHOOSE p \in Port : Endpoints[p] = address

\* ADDRESS: the word decides where the rest of the packet goes.
Addressed(word, last) ==
  /\ target' = IF Known(word.destination) THEN PortOf(word.destination) ELSE 0
  /\ source' = word.source
  /\ mode' = IF last THEN "ADDRESS" ELSE IF Known(word.destination) THEN "FORWARD" ELSE "DROP"
  /\ UNCHANGED stream

\* Mutant: a rejected packet ends with its second beat.
DropOne(word, last) ==
  /\ mode' = IF last \/ mode = "DROP" THEN "ADDRESS" ELSE mode
  /\ stream' = IF mode = "FORWARD"
               THEN Append(stream, [port |-> target, source |-> source, beat |-> word.beat])
               ELSE stream
  /\ UNCHANGED <<target, source>>

\* FORWARD and DROP, to the end of the packet.
Passed(word, last) ==
  /\ mode' = IF last THEN "ADDRESS" ELSE mode
  /\ stream' = IF mode = "FORWARD"
               THEN Append(stream, [port |-> target, source |-> source, beat |-> word.beat])
               ELSE stream
  /\ UNCHANGED <<target, source>>

\* Mutant: a rejected packet is refused, not drained.
AcceptsForwarded(ready) == mode # "DROP" /\ (mode = "FORWARD" => target \in ready)

\* s_ready, with the ports that are ready.
Accepts(ready) == mode = "FORWARD" => target \in ready

Taken(word, last) == IF mode = "ADDRESS" THEN Addressed(word, last) ELSE Passed(word, last)

-----------------------------------------------------------------------------
(* The clock.                                                              *)

Handover(p) ==
  /\ offered' = [offered EXCEPT ![p] = NoOffer]
  /\ given' = [given EXCEPT ![p] = IF offered[p].last THEN 0 ELSE @ + 1]
  /\ wanted' = [wanted EXCEPT ![p] = 0]

\* IDLE: the candidate owns the stream from here to its last beat.
Select ==
  /\ state = "IDLE" /\ Requesters # {}
  /\ state' = "ROUTE" /\ selected' = Candidate
  /\ destination' = wanted[Candidate] /\ first' = offered[Candidate]
  /\ Handover(Candidate)
  /\ waited' = [p \in Port |-> IF p = Candidate THEN 0
                               ELSE IF p \in Requesters THEN waited[p] + 1 ELSE waited[p]]
  /\ stream' = <<>>
  /\ UNCHANGED <<next_port, ingress>>

Route(ready) ==
  /\ state = "ROUTE" /\ Accepts(ready)
  /\ state' = "FIRST"
  /\ Taken(RouteWord, FALSE)
  /\ UNCHANGED <<selected, next_port, destination, first, ports, waited>>

Following(last) == IF last THEN "IDLE" ELSE "BODY"

SendBeat(ready) ==
  /\ Present /\ Accepts(ready)
  /\ state' = Following(Outgoing.last)
  /\ next_port' = IF ~Outgoing.last THEN next_port
                  ELSE IF selected = Ports - 1 THEN 0 ELSE selected + 1
  /\ Taken(Payload(Outgoing), Outgoing.last)
  /\ IF state = "BODY" THEN Handover(selected) ELSE UNCHANGED ports
  /\ UNCHANGED <<selected, destination, first, waited>>

\* A reset is of the circuits and of everything attached to them.
Reset ==
  /\ state' = "IDLE" /\ selected' = 0 /\ next_port' = 0 /\ destination' = 0
  /\ first' = NoBeat /\ mode' = "ADDRESS" /\ target' = 0 /\ source' = 0
  /\ offered' = [p \in Port |-> NoOffer] /\ wanted' = [p \in Port |-> 0]
  /\ given' = [p \in Port |-> 0]
  /\ waited' = [p \in Port |-> 0] /\ stream' = <<>>

Offer(p, last, address) ==
  /\ offered[p] = NoOffer /\ (given[p] = MaxLength - 1 => last)
  /\ offered' = [offered EXCEPT ![p] = [port |-> p, index |-> given[p] + 1, last |-> last]]
  /\ wanted' = [wanted EXCEPT ![p] = address]
  /\ UNCHANGED <<given, egress, ingress, waited, stream>>

-----------------------------------------------------------------------------
Offers(p) == \E last \in BOOLEAN, address \in Wanted : Offer(p, last, address)
Clock(ready) == Select \/ Route(ready) \/ SendBeat(ready)

LinkNext == (\E p \in Port : Offers(p)) \/ (\E ready \in SUBSET Port : Clock(ready)) \/ Reset

LinkSpec == LinkInit /\ [][LinkNext]_link

\* What docs/fabric-routing.md asks for: the circuits are clocked, a sink that
\* is offered a beat for ever takes it, and a source ends what it began.
LinkFairSpec ==
  /\ LinkSpec /\ WF_link(Clock(Port))
  /\ \A p \in Port : WF_link(given[p] > 0 /\ Offers(p))

-----------------------------------------------------------------------------
TypeOK ==
  /\ state \in {"IDLE", "ROUTE", "FIRST", "BODY"} /\ mode \in {"ADDRESS", "FORWARD", "DROP"}
  /\ selected \in Port /\ next_port \in Port /\ target \in Port
  /\ destination \in Address /\ source \in Address /\ first \in Beat
  /\ offered \in [Port -> Beat \cup {NoOffer}] /\ wanted \in [Port -> Address]
  /\ given \in [Port -> 0 .. MaxLength] /\ waited \in [Port -> Nat]
  /\ stream \in Seq([port : Port, source : Address, beat : Beat])

\* What a port is handed of a packet is beats 1, 2, ... of one source's packet,
\* with that source and the destination that stood beside its first beat: no
\* beat is lost, doubled, or mixed with another packet's, and nothing of a
\* packet for nobody is taken for a route (hls_fabric_egress.v, _ingress.v).
PacketsWhole ==
  /\ \A k \in 1 .. Len(stream) :
       LET got == stream[k]
       IN /\ Endpoints[got.port] = destination
          /\ got.source = Endpoints[got.beat.port] /\ got.beat.port = stream[1].beat.port
          /\ got.beat.index = k /\ (got.beat.last => k = Len(stream))
  /\ (state = "BODY" /\ Known(destination)) => Len(stream) = given[selected]

\* A port that offers a packet is passed over by at most Ports - 1 others
\* (docs/fabric-routing.md; next_port in hls_fabric_egress.v).
BypassBound == \A p \in Port : waited[p] <= Ports - 1

\* Every beat that is offered moves, whichever packet it belongs to.
OffersTaken == \A p \in Port : offered[p] # NoOffer ~> offered[p] = NoOffer
=============================================================================
