------------------------- MODULE MCEventBusConsumer -------------------------
(* Model values and logs for model-checking EventBusConsumer.              *)
EXTENDS EventBusConsumer, TLC

CONSTANTS m1, m2

TwoMembers == {m1, m2}

\* One record to dead-letter and one that cannot be converted; or one that cannot
\* be converted before one that has retries left.
TwoLogs == {0 :> "spent" @@ 1 :> "malformed", 0 :> "malformed" @@ 1 :> "fresh"}

=============================================================================
