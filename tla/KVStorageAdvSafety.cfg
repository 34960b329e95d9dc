CONSTANTS
    e1 = e1  e2 = e2  e3 = e3  e4 = e4  k1 = k1  bad = bad  vk = vk
    Entry = {e1, e2, e3, e4}
    PagesOf <- ShortAndLong
    MaxPages = 2
    NoEntry = NoEntry
    Putter = {p1, p2}
    Key = {k1, bad, vk}
    KeyOf <- AllKinds
    ValidKey = {k1}
    VersionKey = vk
    PositionIn <- Beyond
    NoVersion = NoVersion
    Torn = Torn
SYMMETRY PutterSymmetry
SPECIFICATION Spec
INVARIANTS TypeOK WritePointIsLogEnd FilesBounded ReplayNeverRefused RecordsContiguous AckedNeverReverts AckedNotTorn
