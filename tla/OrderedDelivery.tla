--------------------------- MODULE OrderedDelivery ---------------------------
(***************************************************************************)
(* What the consuming side of the bus promises the subscribers of a        *)
(* partition: the records come to an end in the order of the log, each at  *)
(* every subscriber, in a way its kind allows; and what a disruption       *)
(* loses, it loses at the head of what is still to come.                   *)
(***************************************************************************)
EXTENDS Integers

CONSTANTS
    Records,    \* the partition's records, numbered in its order
    Receivers   \* the subscribers

VARIABLES
    log,      \* the kind of each record
    handled,  \* <<r, s>>: s has processed r
    raised,   \* <<r, s>>: s refused r, which has retries left
    dlq,      \* <<r, s>>: r is dead-lettered on account of s
    lost      \* records that a disruption lost

dvars == <<log, handled, raised, dlq, lost>>

Accounted(r) ==
    r \in lost \/ \A s \in Receivers : <<r, s>> \in handled \cup dlq \cup raised

\* Every record in front of r has come to its end.
Due(r) == \A p \in Records : p < r => Accounted(p)

Init ==
    /\ handled = {}
    /\ raised = {}
    /\ dlq = {}
    /\ lost = {}

Handle(r, s) ==
    /\ log[r] # "malformed"
    /\ Due(r)
    /\ handled' = handled \cup {<<r, s>>}
    /\ UNCHANGED <<log, raised, dlq, lost>>

LetGo(r, s) ==
    /\ log[r] = "fresh"
    /\ Due(r)
    /\ raised' = raised \cup {<<r, s>>}
    /\ UNCHANGED <<log, handled, dlq, lost>>

DeadLetter(r, S) ==
    /\ log[r] = "spent" \/ (log[r] = "malformed" /\ S = Receivers)
    /\ Due(r)
    /\ dlq' = dlq \cup ({r} \X S)
    /\ UNCHANGED <<log, handled, raised, lost>>

Lose(R) ==
    /\ \A r \in R : \A p \in Records : p < r => p \in R \/ Accounted(p)
    /\ lost' = lost \cup R
    /\ UNCHANGED <<log, handled, raised, dlq>>

Next ==
    \/ \E r \in Records, s \in Receivers : Handle(r, s) \/ LetGo(r, s)
    \/ \E r \in Records, S \in SUBSET Receivers : DeadLetter(r, S)
    \/ \E R \in SUBSET Records : Lose(R)

Spec == Init /\ [][Next]_dvars

=============================================================================
