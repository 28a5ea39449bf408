SPECIFICATION Spec
CONSTANTS
    Proc = {p1, p2, p3}
    ResetProc = {p3}
    User = {u1}
    Jti = {j1, j2, j3}
    Null = Null
    TTL = 1
    Latency = 1
    MaxClock = 0
    MaxResets = 1
SYMMETRY Symmetry
INVARIANTS TypeOK OneActivePerFamily ExchangedOnce ChainKeepsClaims NoTokenOutlivesReset
PROPERTIES DeadFamilyStaysDead
