-------------------------- MODULE MCFabricClient --------------------------
(* Instances of the proxy's transactions: two callers share two slots.     *)
EXTENDS FabricClient, TLC

CONSTANTS c1, c2

Callers == {c1, c2}

\* A frame that the decoder refuses comes among two submissions.
Light == stray = 0 \/ Len(submitted) <= 2

LightSpec == Init /\ [][Next /\ Light']_vars /\ Fairness
=============================================================================
