CONSTANTS
    Client = {c1, c2}
    Service = {s1, s2}
    Addr = {a1}
    NoAddr = NoAddr
    Absent = Absent
    Req = {r1, r2}
    EnableAuth = TRUE
    AccessPassword = password
    password = password
    PasswordOf <- AllKnow
SPECIFICATION FairSpec
INVARIANTS NoImmortalService
PROPERTIES OnlyTimedOutRemoved SilentClientExpires
