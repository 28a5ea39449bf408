SPECIFICATION FairSpec
CONSTANTS
    Proc = {p1, p2}
    Email = {e1}
    Id = {r1, r2}
    Null = Null
    ResetTTL = 1
    VerifyTTL = 1
    Cooldown = 1
    MaxAttempts = 2
    MaxClock = 1
PROPERTIES RegistrationsMoveOn DeadCodeStaysDead ImplementsCodes
INVARIANTS TypeOK ExhaustedIsDead OneRowPerRequest VerifiedByOwnCode AccountsGotTheirCode UnverifiedHasRow
