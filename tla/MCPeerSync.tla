----------------------------- MODULE MCPeerSync -----------------------------
\* Small clusters for PeerSync.
EXTENDS PeerSync, TLC

CONSTANTS n1, n2

\* n1 mirrors n2.
PairPeers == (n1 :> {n2}) @@ (n2 :> {})

\* n1 and n2 mirror each other.
MutualPeers == (n1 :> {n2}) @@ (n2 :> {n1})

OneCluster == [n \in Node |-> n1]
=============================================================================
