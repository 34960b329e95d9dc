CONSTANTS
    Service = {s1}
    NodeId = {n1, n2}
    Addr = {a1, a2}
    NoAddr = NoAddr
    Absent = Absent
    Source = {p1, p2}
    Watcher = {w1}
    Mirrored = {n1}
    MaxPending = 2
    MaxSync = 1
SYMMETRY StoreSymmetry
SPECIFICATION Spec
INVARIANTS TypeOK PendingDisjoint
PROPERTIES ImplementsRegistry
