----------------------------- MODULE MCParts -------------------------------
(***************************************************************************)
(* The smaller parts around the broker and the actors, one at a time: the  *)
(* two servers that retain calls, the hardware driver with three call IDs  *)
(* and the cast ID and the CPU server of hls_gs; the circuits that carry   *)
(* packets between servers, with three ports whose endpoints are 1, 2 and  *)
(* 3 and nobody at address 0; and the reservations, where two brokers      *)
(* compete for one endpoint.                                               *)
(***************************************************************************)
EXTENDS HardwareServer, FabricLink, FabricLease

CONSTANTS t1, t2, t3, t255, l1, l2, e1, c1,
          PendingCalls, HandleLimit, MaxMessages  \* of the CPU server

VARIABLES part,    \* which one runs
          running, queue, nextId, continue, book, served, answers
cpu == <<running, queue, nextId, continue, book, served, answers>>

Cpu == INSTANCE DeferredServer WITH issued <- served

MCTxid == {t1, t2, t3, t255}
MCAddress == 0 .. 3
MCWanted == {0, 3}
MCEndpoints == [p \in Port |-> p + 1]

TwoLeases == {l1, l2}
OneEndpoint == {e1}
OneCaller == {c1}

OnHardware(A) == part = "hardware" /\ A /\ UNCHANGED <<part, cpu, link, lease>>
OnCpu(A) == part = "cpu" /\ A /\ UNCHANGED <<part, vars, link, lease>>
OnLink(A) == part = "link" /\ A /\ UNCHANGED <<part, vars, cpu, lease>>
OnLease(A) == part = "lease" /\ A /\ UNCHANGED <<part, vars, cpu, link>>

all == <<part, vars, cpu, link, lease>>

PartsInit ==
  /\ part \in {"hardware", "cpu", "link", "lease"}
  /\ Init /\ Cpu!Init /\ LinkInit /\ LeaseInit

PartsNext ==
  OnHardware(Next) \/ OnCpu(Cpu!Next) \/ OnLink(LinkNext) \/ OnLease(LeaseNext)

\* The fairness of the parts.  Where the reservations do not run, they are in
\* their initial state, in which none of their fair steps is enabled.
PartsSpec ==
  /\ PartsInit /\ [][PartsNext]_all
  /\ WF_all(OnHardware(Driver)) /\ WF_all(OnHardware(Worker)) /\ WF_all(OnHardware(HostReceives))
  /\ WF_all(OnLink(Clock(Port)))
  /\ \A p \in Port : WF_all(OnLink(given[p] > 0 /\ Offers(p)))
  /\ LeaseFairness

\* hls_gs and hls_gs_deferred: DeferredServer!KeepsOwnership, one answer to
\* each call in order and busy only when the book is full.
KeepsOwnership == Cpu!KeepsOwnership
=============================================================================
