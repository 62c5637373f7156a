\* One message at a time, or three at a time on two pooled instances, one of which is found unhealthy.
SPECIFICATION FairSpec
CONSTANTS
    LogEnd = 4
    Concurrencies = {1, 3}
    Clients <- MCClients
    PoolSize = 2
    MaxRecycles = 1
    NoInstance = NoInstance
INVARIANTS
    TypeOK
    Quiesced
    PermitsKept
    TasksCutOnlyByTimeout
    Exclusive
    Conserved
    NoLostWakeup
    ShutdownReachesAll
PROPERTIES
    StopCompletes
\* A handler may hang while nobody stops the host.
CHECK_DEADLOCK FALSE
