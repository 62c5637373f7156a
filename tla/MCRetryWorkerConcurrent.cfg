\* Two workers poll one due row.
SPECIFICATION Spec
CONSTANTS
    Rows = {n1}
    Workers = {w1, w2}
    MaxAttempts = 2
    BatchSize = 1
    MaxFaults = 0
    NoRow = NoRow
INVARIANTS
    NoRowTwiceInCare
CHECK_DEADLOCK FALSE
