\* Two subscriptions and start_consuming() with one retry; two consumers are made at most.
SPECIFICATION FairSpec
CONSTANTS
    Subs = {s1, s2}
    Runner = Runner
    Nobody = Nobody
    MaxConsumers = 2
    MaxRetries = 1
INVARIANTS
    TypeOK
    NoStrayConsumer
    Served
    ClosedForGood
PROPERTIES
    StopsEnd
\* The bus may stay closed.
CHECK_DEADLOCK FALSE
