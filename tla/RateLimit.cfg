SPECIFICATION Spec
CONSTANTS
    Proc = {p1, p2}
    Ip = {i1,i2}
    Email = {e1,e2}
    Null = Null
    MaxHits = 4
    Limit = 2
    IpLimit = 2
    ReservedSlots = 1
    Window = 1
    Retention = 1
    Latency = 1
    MaxClock = 2
SYMMETRY Symmetry
INVARIANTS TypeOK EmailBounded IpBounded ReserveKept
