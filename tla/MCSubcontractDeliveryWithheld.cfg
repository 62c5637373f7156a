\* One member, no disruption needed.
SPECIFICATION WSpec
CONSTANTS
    m1 = m1
    NoMember = NoMember
    Members <- OneMember
    SubCount = 1
    LogEnd = 1
    Logs <- OneFresh
    AutoCommit = TRUE
    Wired <- SubOne
    BadEnvelopes <- None
    Dedupe = FALSE
    MaxAttempts = 2
    OnContentError = "dlq_and_commit"
    OnInfraExhausted = "fail_fast"
INVARIANTS
    WithheldIsRedelivered
CHECK_DEADLOCK FALSE
