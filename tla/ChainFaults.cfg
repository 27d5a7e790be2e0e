SPECIFICATION FairSpec
CONSTANTS
    Proc = {p1, p2}
    NoProc = NoProc
    r1 = r1
    r2 = r2
    waf = waf
    excl = excl
    File = {waf, excl}
    Rules = {r1, r2}
    Requests <- MixedRequests
    NoReq = NoReq
    Absent = Absent
    Keep = 1
    Horizon = 1
    Faults = {"io", "reject", "timeout", "readback", "restore", "crash", "late"}
CHECK_DEADLOCK FALSE
INVARIANTS
    TypeOK
    DriftIsFlagged
    AbsentHasNoArchive
PROPERTIES
    ImplementsStore
    EveryRequestAnswered
