SPECIFICATION Spec
CONSTANTS
    Tab = {t1, t2}
    Token = {k1, k2}
    Old = k1
    None = None
    Same = Same
    MaxActs = 3
    MaxTroubles = 1
CHECK_DEADLOCK FALSE
INVARIANTS
    TypeOK
    ChangesAreAuthorised
    RefreshNeverResends
    OutcomeShownOncePerTab
PROPERTY NavigationEnds
