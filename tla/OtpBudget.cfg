SPECIFICATION Spec
CONSTANTS
    Proc = {p1, p2}
    Email = {e1}
    Id = {r1}
    Null = Null
    ResetTTL = 1
    VerifyTTL = 1
    Cooldown = 1
    MaxAttempts = 2
    MaxClock = 0
SYMMETRY Symmetry
INVARIANTS BudgetHolds
