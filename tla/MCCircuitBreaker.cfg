\* Three overlapping calls: two late outcomes and a probe at the same time.  No symmetry, for the liveness property.
SPECIFICATION FairSpec
CONSTANTS
    c1 = c1
    c2 = c2
    c3 = c3
    Calls <- MCCalls
    Threshold = 2
    HalfOpenSuccesses = 2
    ActiveRecovery = TRUE
INVARIANTS
    TypeOK
    CountersMatchState
    TimerServesOpening
    OpenAdmitsNobody
PROPERTIES
    LeavesOpenForCause
    RecoversUnattended
\* A closed component with no call left has nothing more to do.
CHECK_DEADLOCK FALSE
