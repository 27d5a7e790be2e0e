SPECIFICATION Spec
CHECK_DEADLOCK FALSE
CONSTANTS
    Words <- ConstWords
    Lower <- ConstLower
    Digits = {"942100", "920"}
    Names = {"sqli", "q"}
    None = None
    W4 = 1
    W6 = 2
    Mapped <- ConstMapped
    Domains <- ConstDomains
    ModeInputs <- ConstModeInputs
    ExclusionLists <- ConstExclusionLists
    ExclusionInputs <- ConstExclusionInputs
    IPRuleSets <- ConstIPRuleSets
    IPInputs <- ConstIPInputs
    IPActions = {"DENY", "ALLOW", "deny"}
    Found <- ConstFound
    Absent = Absent
    Scopes <- ConstScopes
INVARIANTS
    DomainsAreDiscovered
