SPECIFICATION FairSpec
CONSTANTS
    Proc = {p1, p2}
    ResetProc = {p2}
    User = {u1}
    Jti = {j1, j2}
    Null = Null
    TTL = 1
    Latency = 1
    MaxClock = 0
    MaxResets = 1
PROPERTIES LockWaitsEnd
