\* Two processors, three rows in batches of up to two: one always rejected, one unreadable.
SPECIFICATION FairSpec
CONSTANTS
    p1 = p1
    p2 = p2
    Processors <- TwoProcessors
    RowCount = 3
    BatchSize = 2
    MaxRetries = 1
    Rejected <- First
    Unreadable <- Second
INVARIANTS
    TypeOK
    ThresholdKept
PROPERTIES
    Promises
    Drains
