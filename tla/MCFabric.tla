---------------------------- MODULE MCFabric ----------------------------
(* Instances of the device broker.  The two directions meet in the drains, *)
(* the retirements and the broker's end, not in the windows: a behaviour   *)
(* is heavy in one direction at a time, and that keeps the instances small. *)
EXTENDS Fabric, FiniteSetsExt, TLC

CONSTANTS o1, o2, s1, r1, r2

OneOwner == {o1}
Owners == {o1, o2}
OneSession == {s1}
OneRoute == {r1}
TwoRoutes == {r1, r2}

OwnersAndRoutesAlike == Permutations(Owners) \cup Permutations(TwoRoutes)

\* The transmissions admitted or still to be admitted.
Sends ==
  Len(broker.admitted)
    + Cardinality({s \in Session : channel[s] # <<>> /\ Head(channel[s]).kind = "send"})

Quiet == broker.delivered = <<>> /\ broker.buffered = None /\ reader.state # "received"

RoutesInUse ==
  {r \in Route : broker.routes[r] # Free}
    \cup {tx.route : tx \in Elements(broker.admitted)}
    \cup {Head(channel[s]).route :
            s \in {s \in Session : channel[s] # <<>> /\ Head(channel[s]).kind # "drain"}}

\* Safety: writes on one route, or frames on both.
OneDirection == Sends = 0 \/ (Quiet /\ Cardinality(RoutesInUse) <= 1)

\* Nobody has registered a route or is about to.
NoRoutes ==
  /\ \A r \in Route : broker.routes[r] = Free
  /\ \A s \in Session : channel[s] # <<>> => Head(channel[s]).kind # "register"

\* Liveness: a write while frames arrive, or two writes.  The steps that are
\* left out are the environment's, for which there is no fairness.
Light == Sends <= 1 \/ (Quiet /\ NoRoutes)

LightSpec == Init /\ [][Next /\ Light']_vars /\ Fairness
=============================================================================
