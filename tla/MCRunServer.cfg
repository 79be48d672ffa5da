SPECIFICATION FairSpec
CONSTANTS
    Runs = {run1, run2}
    Clients = {c1, c2}
    MaxLogs = 1
    MaxFaults = 1
CHECK_DEADLOCK FALSE
INVARIANTS
    EndIsLast
    VerdictIsRight
PROPERTIES
    StreamedRunsEnd
