SPECIFICATION Spec
CONSTANTS
    Proc = {p1, p2}
    ResetProc = {}
    User = {u1}
    Jti = {j1, j2, j3}
    Null = Null
    TTL = 1
    Latency = 1
    MaxClock = 0
    MaxResets = 0
SYMMETRY Symmetry
INVARIANTS ReuseKillsFamily
