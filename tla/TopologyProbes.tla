--------------------------- MODULE TopologyProbes ---------------------------
(***************************************************************************)
(* Channels and queues of an elaborated design, as query resources:        *)
(* tools/erl_hls_tools/topology_debug.py, and the check of a report        *)
(* against them in topology_debug_report.py.                               *)
(*                                                                         *)
(* A design is a set of instances [path, kind, depth, clock, ports]: the   *)
(* names from the top, whether it is an "actor" or a "fifo" and how deep,  *)
(* whether its clock is the observed one, and its handshakes.  A port is   *)
(* [stem, valid, ready, out]: the nets of its pair, and whether it drives  *)
(* valid.  Stems are numbered in their order; nets below Wires are wires,  *)
(* the others tied-off constants.                                          *)
(***************************************************************************)
EXTENDS Integers, Sequences, FiniteSets, SequencesExt, FiniteSetsExt

CONSTANTS Wires,
          PathOrder    \* the instance paths, in the order of their names

Pop == 0
Push == 1

(* discover(): a wire-through queue is no vertex; the outside world has    *)
(* the opposite role of the top's own ports.                               *)
Observed(design) == {x \in design : x.ports # {} /\ ~(x.kind = "fifo" /\ x.depth = 0)}

Role(x, p) == IF p.out = (x.path # << >>) THEN "producer" ELSE "consumer"

Endpoints(design) ==
    UNION {{[path |-> x.path, stem |-> p.stem, role |-> Role(x, p),
             pair |-> <<p.valid, p.ready>>] : p \in x.ports} : x \in Observed(design)}

Clocked(design) == \A x \in design : x.ports # {} => x.clock

Inside(outer, inner) == Len(outer) < Len(inner) /\ IsPrefix(outer, inner)

(* Mutant: the other end of a channel also hides a container. *)
DeepestAnyRole(aliases) ==
    {e \in aliases : e.path = << >> \/ ~ \E o \in aliases : o.path # << >> /\ Inside(e.path, o.path)}

(* deepest(), for each role: a container that forwards a port into a child *)
(* is an alias of the child.  The outside world is never hidden.           *)
Deepest(aliases) ==
    {e \in aliases :
        e.path = << >> \/ ~ \E o \in aliases : o.path # << >> /\ o.role = e.role /\ Inside(e.path, o.path)}

Rank(e) == <<CHOOSE n \in DOMAIN PathOrder : PathOrder[n] = e.path, e.stem>>
Earlier(a, b) == a[1] < b[1] \/ (a[1] = b[1] /\ a[2] < b[2])

Label(endpoints) ==
    LET ranks == {Rank(e) : e \in endpoints} IN
    CHOOSE r \in ranks : \A other \in ranks : other = r \/ Earlier(r, other)

(* The probes, numbered in the order of their labels. *)
Probes(design) ==
    LET all == Endpoints(design)
        Channel(pair) ==
            LET aliases == {e \in all : e.pair = pair} IN
            [pair |-> pair, aliases |-> aliases, endpoints |-> Deepest(aliases),
             label |-> Label(Deepest(aliases)), constant |-> \E n \in DOMAIN pair : pair[n] >= Wires]
        channels == {Channel(pair) : pair \in {e.pair : e \in all}}
    IN SortSeq(FoldSet(LAMBDA c, s : Append(s, c), << >>, channels),
               LAMBDA a, b : Earlier(a.label, b.label))

(* fifo_resources(): the occupancy register of every queue that has one,   *)
(* with the channels of its two sides.                                     *)
Pair(x, stem) == LET p == CHOOSE q \in x.ports : q.stem = stem IN <<p.valid, p.ready>>

ChannelId(probes, pair) == (CHOOSE n \in DOMAIN probes : probes[n].pair = pair) - 1

Queues(design, probes) ==
    LET found == {x \in design : x.kind = "fifo" /\ x.depth > 0} IN
    [n \in 1 .. Cardinality(found) |->
       LET x == CHOOSE y \in found : Cardinality({z \in found : Earlier(Rank([path |-> z.path, stem |-> 0]),
                                                        Rank([path |-> y.path, stem |-> 0]))}) = n - 1
       IN [kind |-> "fifo", path |-> x.path, capacity |-> x.depth,
           width |-> CHOOSE w \in 1 .. x.depth : 2 ^ w > x.depth /\ 2 ^ (w - 1) <= x.depth,
           push |-> ChannelId(probes, Pair(x, Push)), pop |-> ChannelId(probes, Pair(x, Pop))]]

(* resources_for() and export_probes(): 64 bits for every resource.        *)
Resources(design) ==
    LET probes == Probes(design) IN
    [n \in DOMAIN probes |-> [kind |-> "channel", width |-> 2, bits |-> probes[n].pair]]
      \o [n \in DOMAIN Queues(design, probes) |->
            LET q == Queues(design, probes)[n] IN
            [kind |-> "fifo", width |-> q.width, capacity |-> q.capacity,
             bits |-> [i \in 1 .. q.width |-> <<q.path, i>>]]]

Padded(resource) == resource.bits \o [i \in 1 .. 64 - resource.width |-> "0"]
Exported(resources) == FoldLeft(LAMBDA v, r : v \o Padded(r), << >>, resources)

(* The wrapper's answer for a resource that is no actor.                   *)
Answer(resources, id) == SubSeq(Exported(resources), 64 * id + 1, 64 * id + 64)

(* validate(): a report of observations [id, cycle, value].                *)
ReportAccepted(resources, samples) ==
    \A n \in DOMAIN samples :
        /\ samples[n].id < Len(resources)
        /\ n > 1 => samples[n - 1].cycle < samples[n].cycle
        /\ LET r == resources[samples[n].id + 1] IN
           samples[n].value < 2 ^ r.width /\ (r.kind = "fifo" => samples[n].value <= r.capacity)

-----------------------------------------------------------------------------
(* Every handshake of an observed instance is an alias of one probe, and   *)
(* under every alias there is an endpoint of its role; endpoints of one    *)
(* role never contain each other, so no actor is counted twice or lost.    *)
ChannelsNamed(design) ==
    LET probes == Probes(design) IN
    /\ \A e \in Endpoints(design) :
          Cardinality({n \in DOMAIN probes : e \in probes[n].aliases}) = 1
    /\ \A n \in DOMAIN probes : LET p == probes[n] IN
          /\ \A e \in p.aliases : \E d \in p.endpoints :
                d.role = e.role /\ IsPrefix(e.path, d.path)
          /\ \A d, e \in p.endpoints :
                (d.role = e.role /\ d.path # << >>) => ~Inside(d.path, e.path)

(* Every queue is observed between the two channels its own ports carry,   *)
(* each resource answers with its own bits, and a reachable occupancy is   *)
(* never refused by the report.                                            *)
QueuesPlaced(design) ==
    LET probes == Probes(design)
        queues == Queues(design, probes)
        resources == Resources(design)
    IN /\ \A n \in DOMAIN queues : \A x \in design : x.path = queues[n].path =>
             \A side \in {Push, Pop} :
                LET id == IF side = Push THEN queues[n].push ELSE queues[n].pop IN
                \E e \in probes[id + 1].endpoints : e.path = x.path /\ e.stem = side
       /\ \A n \in DOMAIN resources :
             /\ SubSeq(Answer(resources, n - 1), 1, resources[n].width) = resources[n].bits
             /\ resources[n].kind = "fifo" => \A held \in 0 .. resources[n].capacity :
                  ReportAccepted(resources, <<[id |-> n - 1, cycle |-> 0, value |-> held]>>)

TopologyExact(design) ==
    (Clocked(design) /\ Endpoints(design) # {}) => ChannelsNamed(design) /\ QueuesPlaced(design)
=============================================================================
