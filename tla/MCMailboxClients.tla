-------------------------- MODULE MCMailboxClients --------------------------
(* Two ingresses, two slots: small enough to exhaust, and enough for every *)
(* slot to be reused by another owner while old tokens are still around.   *)
EXTENDS MailboxRefinement, TLC

CONSTANTS o1, o2, castMsg, callMsg

MCOwner == {o1, o2}
MCMessage == {castMsg, callMsg}
MCClauseLists == {<<MCMessage>>, <<{callMsg}>>, <<{callMsg}, {castMsg}>>}

Symmetry == Permutations(MCOwner)
=============================================================================
