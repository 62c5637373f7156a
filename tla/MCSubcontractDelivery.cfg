\* One member with an idempotency store; a plain subscriber next to the wired one makes the bus rewind.
SPECIFICATION WSpec
CONSTANTS
    m1 = m1
    NoMember = NoMember
    Members <- OneMember
    SubCount = 2
    LogEnd = 2
    Logs <- SpentThenFresh
    AutoCommit = TRUE
    Wired <- SubOne
    BadEnvelopes <- Second
    Dedupe = TRUE
    MaxAttempts = 2
    OnContentError = "dlq_and_commit"
    OnInfraExhausted = "dlq_and_commit"
INVARIANTS
    WTypeOK
    AppliedAtMostOnce
    ReturnedForAReason
PROPERTIES
    BudgetStaysSpent
CHECK_DEADLOCK FALSE
