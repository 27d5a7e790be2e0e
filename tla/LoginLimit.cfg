SPECIFICATION LoginSpec
CONSTANTS
    Client = {c1, c2, c3}
    Watched = c1
    Cost = 2
    Burst = 1
    Idle = 2
    PerSecond = 1
    Horizon = 4
    GlobalRate = 2
    GlobalBurst = 3
    MaxWaiting = 1
SYMMETRY Symmetry
CHECK_DEADLOCK FALSE
INVARIANTS
    NoSelfDoS
    GlobalWindowBound
