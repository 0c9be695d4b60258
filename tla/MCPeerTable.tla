----------------------------- MODULE MCPeerTable -----------------------------
EXTENDS PeerTable

\* The first Peer has a name before and one after that of the second.
TwoNames == [i \in Ids |-> IF i = 1 THEN {1, 3} ELSE {2}]
=============================================================================
