------------------------- MODULE MCOfferCoordination -------------------------
EXTENDS OfferCoordination

\* Two offers of the Outbound Peer and one of the coordinator, which each user
\* may send at any time.
TwoAndOne == <<"out", "out", "in">>
\* Two of each.
TwoAndTwo == <<"out", "out", "in", "in">>
==============================================================================
