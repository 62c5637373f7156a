\* Two workers on a table of two rows with two attempts each, polled in batches of two; one fault.
SPECIFICATION FairSpec
CONSTANTS
    Rows = {n1, n2}
    Workers = {w1, w2}
    MaxAttempts = 2
    BatchSize = 2
    MaxFaults = 1
    NoRow = NoRow
INVARIANTS
    TypeOK
    OutcomesBacked
    RepeatedForCause
PROPERTIES
    ComesToRest
\* The table comes to rest.
CHECK_DEADLOCK FALSE
