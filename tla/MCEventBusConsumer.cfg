\* Two members, two subscribers, two logs of two records that hold every kind between them.
SPECIFICATION FairSpec
CONSTANTS
    m1 = m1
    m2 = m2
    NoMember = NoMember
    Members <- TwoMembers
    SubCount = 2
    LogEnd = 2
    Logs <- TwoLogs
    AutoCommit = TRUE
INVARIANTS
    TypeOK
    OwnerSkipsNothing
    CommitRunsAheadOnlyInHand
PROPERTIES
    DeliversInOrder
    PartitionDrains
\* Every member may be down or its loop dead.
CHECK_DEADLOCK FALSE
