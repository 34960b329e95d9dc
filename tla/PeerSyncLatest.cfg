CONSTANTS
    n1 = n1  n2 = n2
    Node = {n1, n2}
    Key = {k1}
    Addr = {a1, a2}
    NoAddr = NoAddr
    Absent = Absent
    NodePeerMapping <- MutualPeers
    ClusterName <- OneCluster
    ClusterSecret <- OneCluster
    MaxRetry = 1
    FullMin = 1
    FullJitter = 2
    Publisher = {n1, n2}
    MaxStray = 0
SPECIFICATION Spec
PROPERTIES LatestRegistrationStays
