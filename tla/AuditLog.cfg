SPECIFICATION Spec
CONSTANTS
    DefaultPageSize = 1
    Window = 5
    Sizes = {1, 2}
    Transactions <- TwoTransactions
    Formats = {"jsonl", "stream"}
    Filter = "BLOCKED"
    MaxRecords = 4
    Faults = {"torn", "truncate", "error"}
CHECK_DEADLOCK FALSE
INVARIANTS
    TypeOK
    NewestFirst
    RecentLinesListed
    NoEntrySkipped
