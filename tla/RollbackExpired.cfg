SPECIFICATION Spec
CONSTANTS
    Proc = {p1, p2, p3}
    NoProc = NoProc
    r1 = r1
    r2 = r2
    waf = waf
    excl = excl
    File = {excl}
    Rules = {r1, r2}
    Requests <- ApiRequests
    NoReq = NoReq
    Absent = Absent
    Keep = 2
    Horizon = 2
    Faults = {}
SYMMETRY Symmetry
CHECK_DEADLOCK FALSE
INVARIANT ListedSnapshotIsRestorable
