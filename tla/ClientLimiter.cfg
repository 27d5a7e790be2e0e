SPECIFICATION Spec
CONSTANTS
    Client = {c1, c2}
    Watched = c1
    Cost = 3
    Burst = 1
    Idle = 3
    PerSecond = 2
    Horizon = 10
CHECK_DEADLOCK FALSE
INVARIANTS
    TypeOK
    WindowBound
    RetryHonoured
    MapIsBounded
PROPERTY PruningIsInvisible
