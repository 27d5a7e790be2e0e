SPECIFICATION Spec
CONSTANTS
    DefaultPageSize = 2
    Window = 3
    Sizes = {2}
    Transactions <- OneTransaction
    Formats = {"stream"}
    Filter = ""
    MaxRecords = 3
    Faults = {}
CHECK_DEADLOCK FALSE
INVARIANT NewestRecordListed
