CONSTANTS
    n1 = n1  n2 = n2  n3 = n3  c1 = c1  c2 = c2  s1 = s1  password = password
    Node = {n1, n2, n3}
    Service = {s1}
    Client = {c1}
    Key <- Items
    Addr = {a1}
    NoAddr = NoAddr
    Absent = Absent
    NodePeerMapping <- OutsiderPeers
    ClusterName <- OneName
    ClusterSecret <- OtherSecret
    MaxRetry = 0
    FullMin = 1
    FullJitter = 1
    Publisher = {n2}
    MaxStray = 0
    Home = n2
    Req = {r1}
    EnableAuth = TRUE
    AccessPassword = password
    PasswordOf <- AllKnow
SPECIFICATION RegistrySpec
INVARIANTS OnlySameCluster
PROPERTIES SilentClientForgotten
