------------------------ MODULE NotificationDelivery ------------------------
(***************************************************************************)
(* What the transition-notification outbox promises: a notification stored *)
(* with its projection is published at least once, or dead-lettered,       *)
(* before the outbox is done with it; nothing that was not stored is ever  *)
(* published; and nothing is published again once the outbox is done.      *)
(***************************************************************************)
CONSTANT Rows   \* notifications

VARIABLES
    promised,      \* stored, in the transaction of their projection
    delivered,     \* published at least once
    deadLettered,  \* published to the dead-letter topic at least once
    settled        \* what the outbox is done with

dvars == <<promised, delivered, deadLettered, settled>>

Init ==
    /\ promised = {}
    /\ delivered = {}
    /\ deadLettered = {}
    /\ settled = {}

Promise(n) ==
    /\ n \notin promised
    /\ promised' = promised \cup {n}
    /\ UNCHANGED <<delivered, deadLettered, settled>>

Deliver(n) ==
    /\ n \in promised \ settled
    /\ delivered' = delivered \cup {n}
    /\ UNCHANGED <<promised, deadLettered, settled>>

DeadLetter(n) ==
    /\ n \in promised \ settled
    /\ deadLettered' = deadLettered \cup {n}
    /\ UNCHANGED <<promised, delivered, settled>>

Settle(S) ==
    /\ S \subseteq promised \cap (delivered \cup deadLettered)
    /\ settled' = settled \cup S
    /\ UNCHANGED <<promised, delivered, deadLettered>>

Next ==
    \/ \E n \in Rows : Promise(n) \/ Deliver(n) \/ DeadLetter(n)
    \/ \E S \in SUBSET Rows : Settle(S)

Spec == Init /\ [][Next]_dvars

=============================================================================
