\* One subscription, made before start(), another while start_consuming() tries again.
SPECIFICATION Spec
CONSTANTS
    Subs = {s1, s2}
    Runner = Runner
    Nobody = Nobody
    MaxConsumers = 3
    MaxRetries = 1
INVARIANTS
    NoDuplicate
CHECK_DEADLOCK FALSE
