SPECIFICATION Spec
CONSTANTS
    A1 = A1
    A2 = A2
    E1 = E1
    E2 = E2
    Address = {A1, A2}
    Unknown = Unknown
    Email = {E1, E2}
    Environment <- MCEnvironment
    Arrival <- MCArrival
    Limit = 2
    MaxHits = 2
INVARIANTS TypeOK KeyIsObserved OnlyServableCounted OriginsHonoured SecuredUnlessCrashed ProductionShowsNothing
PROPERTIES UnseenIsServed
