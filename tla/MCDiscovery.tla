----------------------------- MODULE MCDiscovery -----------------------------
(***************************************************************************)
(* One peer and two others, of which one is on no topic of the            *)
(* application at first.                                                   *)
(***************************************************************************)
EXTENDS PeerPresence

CONSTANTS a, b, x

WithHub == [p \in Others \cup {me} |-> IF p = b THEN {} ELSE Topics]

ASSUME DiscoveryAssumption == Presence!ConstantsFit

DiscoverySpec == Presence!Spec

\* Once peers and links stay as they are, whoever runs is in the cache for good.
PeersMeet == Presence!PeersMeet

\* A peer that stopped for good is not heard of after all.
GoneUnheard == Presence!GoneUnheard
=============================================================================
