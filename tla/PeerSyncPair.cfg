CONSTANTS
    n1 = n1  n2 = n2
    Node = {n1, n2}
    Key = {k1}
    Addr = {a1, a2}
    NoAddr = NoAddr
    Absent = Absent
    NodePeerMapping <- PairPeers
    ClusterName <- OneCluster
    ClusterSecret <- OneCluster
    MaxRetry = 1
    FullMin = 1
    FullJitter = 2
    Publisher = {n2}
    MaxStray = 2
SPECIFICATION FairSpec
INVARIANTS TypeOK SyncNeverOrphaned QueueMatchesWaiting NoPhantomService PendingAgrees MirrorChain
PROPERTIES Convergence
