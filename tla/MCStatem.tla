----------------------------- MODULE MCStatem ------------------------------
(***************************************************************************)
(* An instance of Statem: casts and calls, one retained call, two handles, *)
(* every kind of entry, and contributions that match, repeat, come to the  *)
(* wrong collection or make the reducer raise.                             *)
(***************************************************************************)
EXTENDS Statem

CONSTANTS k1, k2

MCPhase == {"gathering", "serving"}
MCKey == {k1, k2}
MCInputKind == {"cast", "call"}

MCEntry ==
  {Nothing, Raise, OpensGather(k1, {}), OpensGather(k1, {0, 1}), OpensGather(k2, {1}),
   OpensReduction(k1, Count(2)), OpensReduction(k1, Members({0, 1}))}

MCOffers ==
  [kind : {"gather", "member"}, key : {k1}, member : Member, raises : {FALSE}]
    \cup [kind : {"gather"}, key : {k2}, member : {1}, raises : {FALSE}]
    \cup [kind : {"count"}, key : {k1}, member : {0}, raises : BOOLEAN]
    \cup [kind : {"member"}, key : {k1}, member : {1}, raises : {TRUE}]
=============================================================================
