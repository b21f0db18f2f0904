--------------------------- MODULE TimingProfile ---------------------------
(***************************************************************************)
(* The timing graphs of tools/erl_hls_tools/hls_profile.py: validation,    *)
(* the longest chain of declared work, the latest recorded prerequisites,  *)
(* windows, overlays and the order of the Perfetto export.                 *)
(*                                                                         *)
(* A profile is [events, edges, resources, counters].  Event ids are       *)
(* numbers, sorted as the code sorts its strings; an event is              *)
(* [track, ts, dur, shown] with "shown" its display duration; an edge is   *)
(* [source, target, delay]; a counter sample is [series, ts, value].       *)
(***************************************************************************)
EXTENDS Integers, Sequences, FiniteSets, SequencesExt, FiniteSetsExt

LOCAL Ids(p) == DOMAIN p.events
End(e) == e.ts + e.dur
ShownEnd(e) == e.ts + e.shown
Incoming(edges, i) == {e \in Range(edges) : e.target = i}

(* Events of a track by start time; sort() keeps equal starts in order. *)
Lane(p, t) ==
    SetToSortSeq({i \in Ids(p) : p.events[i].track = t},
        LAMBDA a, b : \/ p.events[a].ts < p.events[b].ts
                      \/ p.events[a].ts = p.events[b].ts /\ a < b)

(* validate(): neighbours of a lane neither overlap nor start together. *)
LanesApart(p) ==
    \A t \in {p.events[i].track : i \in Ids(p)} :
        LET lane == Lane(p, t) IN
        \A n \in 1..(Len(lane) - 1) :
            LET a == p.events[lane[n]]  b == p.events[lane[n + 1]] IN
            ShownEnd(a) <= b.ts /\ a.ts # b.ts

(* validate(): an instant may be shown wider, work may not. *)
DisplayKept(p) ==
    \A i \in Ids(p) : LET e == p.events[i] IN
        e.shown >= e.dur /\ (e.shown # e.dur => e.dur = 0)

(* validate(): known endpoints, one edge a pair, finish before start. *)
EdgesOrdered(p) ==
    LET all == p.edges \o p.resources IN
    /\ \A n \in DOMAIN all :
          /\ {all[n].source, all[n].target} \subseteq Ids(p)
          /\ End(p.events[all[n].source]) + all[n].delay <= p.events[all[n].target].ts
    /\ \A m, n \in DOMAIN all :
          all[m].source = all[n].source /\ all[m].target = all[n].target => m = n

(* validate(): Kahn's queue, first the sorted sources, then whatever each  *)
(* removed event frees, in the order of the edges.                         *)
RECURSIVE Drain(_, _, _, _)
Drain(all, ready, waiting, order) ==
    IF ready = << >> THEN order
    ELSE LET source  == Head(ready)
             outgoing == SelectSeq(all, LAMBDA e : e.source = source)
             targets == [n \in DOMAIN outgoing |-> outgoing[n].target]
             left    == [i \in DOMAIN waiting |->
                           IF i \in Range(targets) THEN waiting[i] - 1 ELSE waiting[i]]
             freed   == SelectSeq(targets, LAMBDA t : left[t] = 0)
         IN Drain(all, Tail(ready) \o freed, left, Append(order, source))

Order(p) ==
    LET all == p.edges \o p.resources
        waiting == [i \in Ids(p) |-> Cardinality({n \in DOMAIN all : all[n].target = i})]
        sources == SetToSortSeq({i \in Ids(p) : waiting[i] = 0}, <)
    IN Drain(all, sources, waiting, << >>)

Valid(p) ==
    /\ LanesApart(p) /\ DisplayKept(p) /\ EdgesOrdered(p)
    /\ Len(Order(p)) = Cardinality(Ids(p))

-----------------------------------------------------------------------------
NoEdge == [source |-> 0, target |-> 0, delay |-> 0]

(* longest_path(): scores in topological order; max() prefers the later id *)
(* among equally long chains.                                              *)
Scores(p) ==
    LET Best(s, i) ==
            LET through == Incoming(p.edges, i)
                value(e) == s[e.source].score + e.delay
            IN IF through = {} THEN NoEdge
               ELSE CHOOSE e \in through : \A f \in through :
                      value(f) < value(e) \/ (value(f) = value(e) /\ f.source <= e.source)
        Score(s, i) ==
            LET e == Best(s, i)
                carried == IF e = NoEdge THEN 0 ELSE s[e.source].score + e.delay
            IN [s EXCEPT ![i] = [score |-> p.events[i].dur + carried, via |-> e]]
    IN FoldLeft(Score, [i \in Ids(p) |-> [score |-> 0, via |-> NoEdge]], Order(p))

RECURSIVE TraceBack(_, _)
TraceBack(scores, i) ==
    IF scores[i].via = NoEdge THEN <<i>>
    ELSE Append(TraceBack(scores, scores[i].via.source), i)

LongestPath(p, target) ==
    LET scores == Scores(p)
        path == TraceBack(scores, target)
        elapsed == End(p.events[target]) - p.events[path[1]].ts
    IN [events |-> path, accounted |-> scores[target].score,
        unassigned |-> elapsed - scores[target].score]

(* observed_predecessors(): walk back over the prerequisites that became   *)
(* ready last; whatever remains before the start is an unexplained gap.    *)
Candidates(p, i, resources) ==
    Incoming(p.edges, i) \cup IF resources THEN Incoming(p.resources, i) ELSE {}

ReadyAt(p, e) == End(p.events[e.source]) + e.delay

(* The delay of a dependency forgotten. *)
LatestFinished(p, i, resources) ==
    {e \in Candidates(p, i, resources) :
        \A f \in Candidates(p, i, resources) :
            End(p.events[f.source]) <= End(p.events[e.source])}

Latest(p, i, resources) ==
    {e \in Candidates(p, i, resources) :
        \A f \in Candidates(p, i, resources) : ReadyAt(p, f) <= ReadyAt(p, e)}

RECURSIVE Walk(_, _, _, _)
Walk(p, pending, seen, resources) ==
    IF pending \subseteq seen THEN seen
    ELSE LET i == CHOOSE j \in pending \ seen : TRUE IN
         Walk(p, pending \cup {e.source : e \in Latest(p, i, resources)},
              seen \cup {i}, resources)

Predecessors(p, target, resources) ==
    LET selected == Walk(p, {target}, {}, resources) IN
    [events    |-> selected,
     relations |-> UNION {Latest(p, i, resources) : i \in selected},
     roots     |-> {i \in selected : Candidates(p, i, resources) = {}},
     gaps      |-> [i \in {j \in selected : \E e \in Latest(p, j, resources) :
                                              ReadyAt(p, e) < p.events[j].ts} |->
                     p.events[i].ts - ReadyAt(p, CHOOSE e \in Latest(p, i, resources) : TRUE)]]

(* observed_overlay(): copies of the selected events on tracks of their    *)
(* own; dependencies are not copied.                                       *)
Overlay(p, target, resources, shift) ==
    LET selected == Predecessors(p, target, resources).events
        copies == {i + shift : i \in selected}
    IN [p EXCEPT !.events =
          [i \in Ids(p) \cup copies |->
             IF i \in Ids(p) THEN p.events[i]
             ELSE [p.events[i - shift] EXCEPT !.track = @ + shift]]]

-----------------------------------------------------------------------------
(* window(): of the earlier samples of a counter the latest, and of those  *)
(* at one time the first, is carried to the start.                         *)
Earlier(p, start) == {n \in DOMAIN p.counters : p.counters[n].ts < start}

(* The first sample of all is carried. *)
CarriedOldest(p, start) ==
    {n \in Earlier(p, start) : \A m \in Earlier(p, start) :
        p.counters[m].series = p.counters[n].series => n <= m}

Carried(p, start) ==
    {n \in Earlier(p, start) : \A m \in Earlier(p, start) :
        p.counters[m].series = p.counters[n].series =>
            \/ p.counters[m].ts < p.counters[n].ts
            \/ p.counters[m].ts = p.counters[n].ts /\ n <= m}

(* window(): complete events, the dependencies between them, and for every *)
(* counter the samples inside plus the carried one.                        *)
Window(p, start, end) ==
    LET kept == {i \in Ids(p) : start <= p.events[i].ts /\ ShownEnd(p.events[i]) < end}
        Inside(edges) == SelectSeq(edges, LAMBDA e : {e.source, e.target} \subseteq kept)
        samples == SelectSeq(p.counters, LAMBDA c : start <= c.ts /\ c.ts < end)
        carried == {n \in Carried(p, start) : ~ \E c \in Range(samples) :
                      c.series = p.counters[n].series /\ c.ts = start}
    IN [events |-> [i \in kept |-> p.events[i]],
        edges |-> Inside(p.edges), resources |-> Inside(p.resources),
        counters |-> samples \o [n \in 1..Cardinality(carried) |->
                       [p.counters[SetToSortSeq(carried, <)[n]] EXCEPT !.ts = start]],
        omitted |-> Len(SelectSeq(p.edges, LAMBDA e : (e.source \in kept) # (e.target \in kept)))]

(* perfetto(): slices, flow starts, flow ends and counter samples, sorted  *)
(* by time and then by that order of phases; sorted() is stable.           *)
Phase == [X |-> 0, s |-> 1, f |-> 2, C |-> 3]

Perfetto(p) ==
    LET slices == {[ph |-> "X", ts |-> p.events[i].ts, of |-> i] : i \in Ids(p)}
        starts == {[ph |-> "s", ts |-> p.events[p.edges[n].source].ts, of |-> n] : n \in DOMAIN p.edges}
        ends   == {[ph |-> "f", ts |-> p.events[p.edges[n].target].ts, of |-> n] : n \in DOMAIN p.edges}
        values == {[ph |-> "C", ts |-> p.counters[n].ts, of |-> n] : n \in DOMAIN p.counters}
    IN SetToSortSeq(slices \cup starts \cup ends \cup values,
         LAMBDA a, b : \/ a.ts < b.ts
                       \/ a.ts = b.ts /\ Phase[a.ph] < Phase[b.ph]
                       \/ a.ts = b.ts /\ a.ph = b.ph /\ a.of < b.of)

-----------------------------------------------------------------------------
(* What the results have to be, stated without the algorithms.             *)

(* Chains of dependencies that end at an event. *)
RECURSIVE Chains(_, _)
Chains(edges, i) ==
    {<< >>} \cup UNION {{Append(c, e) : c \in Chains(edges, e.source)} : e \in Incoming(edges, i)}

Work(p, chain, i) ==
    FoldLeft(LAMBDA n, e : n + p.events[e.source].dur + e.delay, p.events[i].dur, chain)

Acyclic(p) ==
    ~ \E S \in SUBSET Ids(p) : S # {} /\
        \A i \in S : \E e \in Incoming(p.edges \o p.resources, i) : e.source \in S

NoOverlap(p) ==
    \A i, j \in Ids(p) : i # j /\ p.events[i].track = p.events[j].track =>
        /\ p.events[i].ts # p.events[j].ts
        /\ ShownEnd(p.events[i]) <= p.events[j].ts \/ ShownEnd(p.events[j]) <= p.events[i].ts

(* A valid profile is a schedule; the order validate() returns follows     *)
(* every dependency.                                                       *)
Scheduled(p) ==
    /\ LanesApart(p) <=> NoOverlap(p)
    /\ EdgesOrdered(p) =>
         /\ Len(Order(p)) = Cardinality(Ids(p)) <=> Acyclic(p)
         /\ \A e \in Range(p.edges \o p.resources) : \A m, n \in DOMAIN Order(p) :
               Order(p)[m] = e.source /\ Order(p)[n] = e.target => m < n

(* The path is a chain of recorded edges with the most work of all, and    *)
(* never accounts for more than the time that passed.                      *)
PathLongest(p, i) ==
    LET path == LongestPath(p, i) IN
    /\ path.unassigned >= 0
    /\ path.accounted = CHOOSE n \in {Work(p, c, i) : c \in Chains(p.edges, i)} :
                          \A c \in Chains(p.edges, i) : Work(p, c, i) <= n
    /\ path.events[Len(path.events)] = i
    /\ \A n \in 1..(Len(path.events) - 1) : \E e \in Range(p.edges) :
          e.source = path.events[n] /\ e.target = path.events[n + 1]

(* Along every chain of the recorded prerequisites, from an event nobody   *)
(* explains to the target, work, delays and gaps add up to the time.       *)
TimeExplained(p, i, resources) ==
    LET found == Predecessors(p, i, resources)
        Gap(j) == IF j \in DOMAIN found.gaps THEN found.gaps[j] ELSE 0
    IN \A c \in Chains(SetToSeq(found.relations), i) :
         LET root == IF c = << >> THEN i ELSE c[1].source IN
         root \in found.roots =>
            Work(p, c, i) + FoldLeft(LAMBDA n, e : n + Gap(e.target), 0, c)
              = End(p.events[i]) - p.events[root].ts

(* What a counter shows at a time: the value of its last sample, where     *)
(* samples at one time count in the order of the profile.  svg() and the   *)
(* sort of perfetto() agree on it.                                         *)
Shows(p, series, t) ==
    LET past == {n \in DOMAIN p.counters : p.counters[n].series = series /\ p.counters[n].ts <= t}
    IN {p.counters[n].value : n \in {k \in past : \A m \in past :
          \/ p.counters[m].ts < p.counters[k].ts
          \/ p.counters[m].ts = p.counters[k].ts /\ m <= k}}

CountersKept(p, start, end) ==
    \A c \in Range(p.counters) : \A t \in start..(end - 1) :
        Shows(Window(p, start, end), c.series, t) = Shows(p, c.series, t)

(* No counter was sampled twice at one time before the window. *)
SampledOnce(p, start) ==
    \A m, n \in Earlier(p, start) :
        p.counters[m].series = p.counters[n].series /\ p.counters[m].ts = p.counters[n].ts => m = n

(* A window is a profile again, and its counters show what they showed.    *)
WindowKept(p, start, end) ==
    /\ Valid(Window(p, start, end))
    /\ SampledOnce(p, start) => CountersKept(p, start, end)

(* An importer sees both slices before the flow that joins them. *)
FlowsAnchored(p) ==
    LET rows == Perfetto(p)
        At(ph, x) == CHOOSE n \in DOMAIN rows : rows[n].ph = ph /\ rows[n].of = x
    IN \A n \in DOMAIN p.edges :
         /\ At("X", p.edges[n].source) < At("s", n)
         /\ At("s", n) < At("f", n)
         /\ At("X", p.edges[n].target) < At("f", n)

ProfileSound(p, starts, end, shift) ==
    /\ Scheduled(p)
    /\ Valid(p) =>
         /\ \A start \in starts : WindowKept(p, start, end)
         /\ FlowsAnchored(p)
         /\ \A i \in Ids(p) :
              /\ PathLongest(p, i)
              /\ \A resources \in BOOLEAN :
                   /\ TimeExplained(p, i, resources)
                   /\ Valid(Overlay(p, i, resources, shift))
=============================================================================
