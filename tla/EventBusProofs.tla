---------------------------- MODULE EventBusProofs ----------------------------
(***************************************************************************)
(* Theorems of the bus's consuming side, EventBusConsumer, for any group,  *)
(* any partition and any number of subscribers; and of the wiring's        *)
(* callback on it, SubcontractDelivery.  The callback does to the bus only *)
(* what some callback may do, so everything proved of the first holds of   *)
(* the second; and with an idempotency store it applies a record at most   *)
(* once.  The first part says nothing of the wiring.                       *)
(***************************************************************************)
EXTENDS SubcontractDelivery, TLAPS

(* A member at work has a record of the log in hand and a subscriber's     *)
(* turn to serve; the outcomes it records depend on it.                    *)
AtWorkOK ==
    \A m \in Members : phase[m] \in Working => current[m] \in Offsets /\ next[m] \in Subs

Typed == TypeOK /\ AtWorkOK

(* Typed holds initially.                                                  *)
LEMMA TypedInit == Init => Typed
  BY LogAssumption, SubAssumption
  DEF Init, Typed, TypeOK, AtWorkOK, Phases, Working, Offsets, Subs

(* The type of what Served leaves behind.                                  *)
LEMMA ServedTyped ==
    ASSUME Typed, NEW m \in Members, NEW bad \in SUBSET Subs,
           phase[m] \in {"dispatch", "dlq"}, Served(m, bad)
    PROVE  /\ log' = log /\ owner' = owner /\ committed' = committed
           /\ current' = current
           /\ phase' \in [Members -> Phases]
           /\ position' \in [Members -> 0 .. LogEnd]
           /\ next' \in [Members -> 1 .. SubCount + 1]
           /\ unsafe' \in [Members -> SUBSET Subs]
           /\ AtWorkOK'
<1> USE LogAssumption, SubAssumption DEF Typed, TypeOK
<1>1. current[m] \in Offsets /\ next[m] \in Subs
  BY DEF AtWorkOK, Working
<1>2. /\ log' = log /\ owner' = owner /\ committed' = committed
      /\ current' = current
  BY DEF Served, broker
<1>3. phase' \in [Members -> Phases]
  BY DEF Served, Phases
<1>4. position' \in [Members -> 0 .. LogEnd]
  BY DEF Served, Rewind
<1>5. next' \in [Members -> 1 .. SubCount + 1]
  BY <1>1 DEF Served, Subs
<1>6. unsafe' \in [Members -> SUBSET Subs]
  BY DEF Served
<1>7. ASSUME NEW n \in Members, phase'[n] \in Working
      PROVE  current'[n] \in Offsets /\ next'[n] \in Subs
  <2>1. CASE n = m
    BY <1>1, <1>2, <1>7, <2>1 DEF Served, Working, Subs
  <2>2. CASE n # m
    BY <1>2, <1>7, <2>2 DEF Served, AtWorkOK
  <2> QED
    BY <2>1, <2>2
<1> QED
  BY <1>2, <1>3, <1>4, <1>5, <1>6, <1>7 DEF AtWorkOK

(* The type of what a close or a crash leaves of a member.                 *)
LEMMA GoDownTyped ==
    ASSUME Typed, NEW m \in Members, GoDown(m)
    PROVE  /\ phase' \in [Members -> Phases]
           /\ position' \in [Members -> 0 .. LogEnd]
           /\ current' \in [Members -> 0 .. LogEnd]
           /\ next' \in [Members -> 1 .. SubCount + 1]
           /\ unsafe' \in [Members -> SUBSET Subs]
           /\ AtWorkOK'
<1> USE LogAssumption, SubAssumption DEF GoDown, Typed, TypeOK
<1>1. /\ phase' \in [Members -> Phases]
      /\ unsafe' \in [Members -> SUBSET Subs]
  BY DEF Phases
<1>2. /\ position' \in [Members -> 0 .. LogEnd]
      /\ current' \in [Members -> 0 .. LogEnd]
      /\ next' \in [Members -> 1 .. SubCount + 1]
  OBVIOUS
<1>3. AtWorkOK'
  BY DEF AtWorkOK, Working
<1> QED
  BY <1>1, <1>2, <1>3

(* Every step of the bus, the broker and the process keeps Typed.          *)
LEMMA TypedStep == Typed /\ [Next]_vars => Typed'
<1> SUFFICES ASSUME Typed, [Next]_vars
             PROVE  Typed'
  OBVIOUS
<1> USE LogAssumption, SubAssumption
    DEF Typed, TypeOK, Phases, Working, Offsets, Subs, broker, member, fate
<1>1. ASSUME NEW m \in Members, Fetch(m)
      PROVE  Typed'
  BY <1>1 DEF Fetch, AtWorkOK
<1>2. ASSUME NEW m \in Members, CallbackReturns(m)
      PROVE  Typed'
  <2>1. Served(m, {}) /\ phase[m] = "dispatch"
    BY <1>2 DEF CallbackReturns
  <2>2. <<current[m], next[m]>> \in Offsets \X Subs
    BY <2>1 DEF AtWorkOK
  <2> QED
    BY <1>2, <2>1, <2>2, ServedTyped DEF CallbackReturns
<1>3. ASSUME NEW m \in Members, CallbackRaises(m)
      PROVE  Typed'
  <2>1. Served(m, {}) /\ phase[m] = "dispatch"
    BY <1>3 DEF CallbackRaises
  <2>2. <<current[m], next[m]>> \in Offsets \X Subs
    BY <2>1 DEF AtWorkOK
  <2> QED
    BY <1>3, <2>1, <2>2, ServedTyped DEF CallbackRaises
<1>4. ASSUME NEW m \in Members, CallbackExhausts(m)
      PROVE  Typed'
  BY <1>4 DEF CallbackExhausts, AtWorkOK
<1>5. ASSUME NEW m \in Members, DlqConfirmed(m)
      PROVE  Typed'
  <2>1. Served(m, {}) /\ phase[m] = "dlq"
    BY <1>5 DEF DlqConfirmed
  <2>2. <<current[m], next[m]>> \in Offsets \X Subs
    BY <2>1 DEF AtWorkOK
  <2> QED
    BY <1>5, <2>1, <2>2, ServedTyped DEF DlqConfirmed
<1>6. ASSUME NEW m \in Members, DlqUnconfirmed(m)
      PROVE  Typed'
  <2>1. Served(m, {next[m]}) /\ phase[m] = "dlq"
    BY <1>6 DEF DlqUnconfirmed
  <2>2. <<current[m], next[m]>> \in Offsets \X Subs /\ {next[m]} \in SUBSET Subs
    BY <2>1 DEF AtWorkOK
  <2> QED
    BY <1>6, <2>1, <2>2, ServedTyped DEF DlqUnconfirmed
<1>7. ASSUME NEW m \in Members, RawDlqConfirmed(m)
      PROVE  Typed'
  BY <1>7 DEF RawDlqConfirmed, AtWorkOK
<1>8. ASSUME NEW m \in Members, RawDlqUnconfirmed(m)
      PROVE  Typed'
  BY <1>8 DEF RawDlqUnconfirmed, Rewind, AtWorkOK
<1>9. ASSUME NEW m \in Members, LoopFails(m)
      PROVE  Typed'
  BY <1>9 DEF LoopFails, AtWorkOK
<1>10. ASSUME NEW m \in Members, Assign(m)
       PROVE  Typed'
  BY <1>10 DEF Assign, AtWorkOK
<1>11. ASSUME NEW m \in Members, AutoCommitTick(m)
       PROVE  Typed'
  BY <1>11 DEF AutoCommitTick, AtWorkOK
<1>12. ASSUME NEW m \in Members, Evict(m)
       PROVE  Typed'
  BY <1>12 DEF Evict, Passed, AtWorkOK
<1>13. ASSUME NEW m \in Members, Revoke(m)
       PROVE  Typed'
  BY <1>13 DEF Revoke, Passed, LastCommit, AtWorkOK
<1>14. ASSUME NEW m \in Members, Close(m)
       PROVE  Typed'
  <2>1. /\ GoDown(m) /\ UNCHANGED <<log, handled, raised, dlq>>
        /\ owner' \in {owner, NoMember} /\ committed' \in {committed, position[m]}
        /\ exposed' \subseteq exposed \cup Offsets
    BY <1>14 DEF Close, Passed, LastCommit
  <2>2. committed' \in 0 .. LogEnd /\ exposed' \subseteq Offsets
    BY <2>1
  <2> QED
    BY <2>1, <2>2, GoDownTyped
<1>15. ASSUME NEW m \in Members, Crash(m)
       PROVE  Typed'
  <2>1. /\ GoDown(m) /\ UNCHANGED <<log, committed, handled, raised, dlq>>
        /\ owner' \in {owner, NoMember}
        /\ exposed' \subseteq exposed \cup Offsets
    BY <1>15 DEF Crash, Passed
  <2> QED
    BY <2>1, GoDownTyped
<1>16. ASSUME NEW m \in Members, Restart(m)
       PROVE  Typed'
  BY <1>16 DEF Restart, AtWorkOK
<1>17. CASE UNCHANGED vars
  BY <1>17 DEF vars, AtWorkOK
<1> QED
  BY <1>1, <1>2, <1>3, <1>4, <1>5, <1>6, <1>7, <1>8, <1>9, <1>10, <1>11,
     <1>12, <1>13, <1>14, <1>15, <1>16, <1>17
  DEF Next, Progress, Disruption

(* Every variable of the consumer keeps its type: offsets stay within the  *)
(* log, a member at work has a record and a subscriber in hand.            *)
THEOREM TypeCorrect == Spec => []TypeOK
<1>1. Typed => TypeOK
  BY DEF Typed
<1> QED
  BY <1>1, TypedInit, TypedStep, PTL DEF Spec

-----------------------------------------------------------------------------
(* What a member has done with the record in hand, so that the end of the  *)
(* record decides rightly about the offset.                                *)
ServedSoFar ==
    \A m \in Members : phase[m] \in {"dispatch", "dlq"} =>
        \A s \in Subs : s < next[m] => Settled(current[m], s) \/ s \in unsafe[m]

(* The inductive invariant.  The owner's position relies on records being  *)
(* finished in order; the committed offset, which trails or runs ahead of  *)
(* the position, relies on the position; and a member that was evicted and *)
(* given the partition back may seek to the stale record it still has in   *)
(* hand, which is why InOrder speaks of every member.                      *)
SafeInv ==
    ServedSoFar /\ OwnerSkipsNothing /\ CommitRunsAheadOnlyInHand /\ InOrder

FateKept == /\ handled \subseteq handled' /\ raised \subseteq raised'
            /\ dlq \subseteq dlq' /\ exposed \subseteq exposed'

(* The inductive invariant holds initially.                                *)
LEMMA SafeInit == Init => SafeInv
  BY NoMemberAssumption
  DEF Init, SafeInv, ServedSoFar, OwnerSkipsNothing, CommitRunsAheadOnlyInHand,
      InOrder, Working, Offsets

(* Nothing that was settled becomes unsettled.                             *)
LEMMA AccountedGrows ==
    ASSUME FateKept
    PROVE  /\ \A o \in Offsets, s \in Subs : Settled(o, s) => Settled(o, s)'
           /\ \A o \in Offsets : Accounted(o) => Accounted(o)'
  BY DEF FateKept, Settled, Accounted

(* A served subscriber, and the decision on the offset after the last one. *)
LEMMA ServedSafe ==
    ASSUME Typed, SafeInv, NEW m \in Members, NEW bad \in SUBSET Subs,
           phase[m] \in {"dispatch", "dlq"}, Served(m, bad), FateKept,
           next[m] \in bad \/ <<current[m], next[m]>> \in (handled \cup dlq \cup raised)'
    PROVE  SafeInv'
<1> USE LogAssumption, SubAssumption DEF Typed, TypeOK, SafeInv
<1>1. current[m] \in Offsets /\ next[m] \in Subs
  BY DEF AtWorkOK, Working
<1>2. owner' = owner /\ committed' = committed /\ current' = current
  BY DEF Served, broker
<1>3. /\ \A o \in Offsets, s \in Subs : Settled(o, s) => Settled(o, s)'
      /\ \A o \in Offsets : Accounted(o) => Accounted(o)'
  BY AccountedGrows
<1>4. \A n \in Members \ {m} : /\ phase'[n] = phase[n] /\ position'[n] = position[n]
                                /\ next'[n] = next[n] /\ unsafe'[n] = unsafe[n]
  BY DEF Served, Rewind
<1>5. unsafe'[m] = unsafe[m] \cup bad /\ next'[m] = next[m] + 1
  BY DEF Served
<1>6. \A o \in Offsets : o < current[m] => Accounted(o)'
  BY <1>3 DEF InOrder, Working
<1>7. \A s \in Subs : s <= next[m] =>
          Settled(current[m], s)' \/ s \in unsafe[m] \cup bad
  <2> SUFFICES ASSUME NEW s \in Subs, s <= next[m], ~ (s \in unsafe[m] \cup bad)
               PROVE  Settled(current[m], s)'
    OBVIOUS
  <2>1. CASE s = next[m]
    BY <1>2, <2>1 DEF Settled
  <2>2. CASE s < next[m]
    BY <1>1, <1>2, <1>3, <2>2 DEF ServedSoFar
  <2> QED
    BY <1>1, <2>1, <2>2 DEF Subs
<1>8. CASE next[m] = SubCount /\ unsafe[m] \cup bad = {}
  <2>1. phase'[m] = "idle" /\ position' = position
    BY <1>8 DEF Served
  <2>2. Accounted(current[m])'
    BY <1>1, <1>2, <1>7, <1>8 DEF Accounted, Subs
  <2>3. ServedSoFar'
    BY <1>2, <1>3, <1>4, <2>1 DEF ServedSoFar, AtWorkOK, Working
  <2>4. OwnerSkipsNothing'
    BY <1>2, <1>3, <1>4, <2>1, <2>2 DEF OwnerSkipsNothing
  <2>5. CommitRunsAheadOnlyInHand'
    BY <1>2, <1>3, <1>4, <2>1, <2>2 DEF CommitRunsAheadOnlyInHand, Passed
  <2>6. InOrder'
    BY <1>2, <1>3, <1>4, <2>1 DEF InOrder, Working
  <2> QED
    BY <2>3, <2>4, <2>5, <2>6
<1>9. CASE next[m] = SubCount /\ unsafe[m] \cup bad # {}
  <2>1. /\ phase'[m] = "idle"
        /\ position'[m] = IF owner = m THEN current[m] ELSE position[m]
    BY <1>9 DEF Served, Rewind
  <2>2. ServedSoFar'
    BY <1>2, <1>3, <1>4, <2>1 DEF ServedSoFar, AtWorkOK, Working
  <2>3. OwnerSkipsNothing'
    BY <1>2, <1>3, <1>4, <1>6, <2>1 DEF OwnerSkipsNothing
  <2>4. CommitRunsAheadOnlyInHand'
    <3> SUFFICES ASSUME NEW o \in Offsets, o < committed, ~Accounted(o)'
                 PROVE  \E n \in Members : owner = n /\ o \in Passed(n, committed)'
      BY <1>2 DEF CommitRunsAheadOnlyInHand
    <3>1. PICK n \in Members : owner = n /\ o \in Passed(n, committed)
      BY <1>3 DEF CommitRunsAheadOnlyInHand
    <3>2. CASE n = m
      BY <1>1, <1>2, <1>6, <2>1, <3>1, <3>2 DEF Passed, Offsets
    <3>3. CASE n # m
      BY <1>2, <1>4, <3>1, <3>3 DEF Passed
    <3> QED
      BY <3>2, <3>3
  <2>5. InOrder'
    BY <1>2, <1>3, <1>4, <2>1 DEF InOrder, Working
  <2> QED
    BY <2>2, <2>3, <2>4, <2>5
<1>10. CASE next[m] # SubCount
  <2>1. phase'[m] = "dispatch" /\ position' = position
    BY <1>10 DEF Served
  <2>2. ASSUME NEW n \in Members, phase'[n] \in {"dispatch", "dlq"},
               NEW s \in Subs, s < next'[n]
        PROVE  Settled(current[n], s)' \/ s \in unsafe'[n]
    <3>1. CASE n = m
      BY <1>1, <1>5, <1>7, <2>2, <3>1 DEF Subs
    <3>2. CASE n # m
      BY <1>2, <1>3, <1>4, <2>2, <3>2 DEF ServedSoFar, AtWorkOK, Working
    <3> QED
      BY <3>1, <3>2
  <2>3. ServedSoFar'
    BY <1>2, <2>2 DEF ServedSoFar
  <2>4. OwnerSkipsNothing'
    BY <1>2, <1>3, <1>4, <2>1 DEF OwnerSkipsNothing, Working
  <2>5. CommitRunsAheadOnlyInHand'
    BY <1>2, <1>3, <1>4, <2>1 DEF CommitRunsAheadOnlyInHand, Passed, Working
  <2>6. InOrder'
    BY <1>2, <1>3, <1>4, <2>1 DEF InOrder, Working
  <2> QED
    BY <2>3, <2>4, <2>5, <2>6
<1> QED
  BY <1>8, <1>9, <1>10

(* The owner lets the partition go at committed offset c: what it had not  *)
(* delivered below c becomes exposed, so nothing below c stays unaccounted.*)
LEMMA LetGoAccounts ==
    ASSUME Typed, SafeInv, NEW m \in Members, owner = m,
           NEW c \in {committed, position[m]},
           exposed' = exposed \cup Passed(m, c),
           NEW o \in Offsets, o < c
    PROVE  Accounted(o) \/ o \in exposed'
<1> USE LogAssumption DEF Typed, TypeOK, SafeInv, Offsets
<1>1. CASE c = committed
  BY <1>1 DEF CommitRunsAheadOnlyInHand
<1>2. CASE c = position[m]
  BY <1>2 DEF OwnerSkipsNothing, Passed
<1> QED
  BY <1>1, <1>2

(* Letting go keeps what the position and the committed offset promise.    *)
LEMMA LetGoSafe ==
    ASSUME Typed, SafeInv, NEW m \in Members, owner = m, owner' = NoMember,
           NEW c \in {committed, position[m]}, committed' = c,
           exposed' = exposed \cup Passed(m, c),
           UNCHANGED <<handled, raised, dlq>>
    PROVE  /\ FateKept
           /\ OwnerSkipsNothing'
           /\ CommitRunsAheadOnlyInHand'
<1>1. FateKept
  BY DEF FateKept
<1>2. OwnerSkipsNothing'
  BY NoMemberAssumption DEF OwnerSkipsNothing
<1>3. CommitRunsAheadOnlyInHand'
  <2> SUFFICES ASSUME NEW o \in Offsets, o < c
               PROVE  Accounted(o)'
    BY DEF CommitRunsAheadOnlyInHand
  <2>1. Accounted(o) \/ o \in exposed'
    BY LetGoAccounts
  <2> QED
    BY <2>1, <1>1, AccountedGrows DEF Accounted
<1> QED
  BY <1>1, <1>2, <1>3

(* A member whose process is gone has nothing in hand.                     *)
LEMMA GoDownSafe ==
    ASSUME Typed, SafeInv, NEW m \in Members, GoDown(m), FateKept
    PROVE  ServedSoFar' /\ InOrder'
<1> USE DEF Typed, TypeOK, SafeInv
<1>1. /\ \A o \in Offsets, s \in Subs : Settled(o, s) => Settled(o, s)'
      /\ \A o \in Offsets : Accounted(o) => Accounted(o)'
  BY AccountedGrows
<1>2. phase'[m] = "down"
  BY DEF GoDown
<1>3. \A n \in Members \ {m} : /\ phase'[n] = phase[n] /\ current'[n] = current[n]
                                /\ next'[n] = next[n] /\ unsafe'[n] = unsafe[n]
  BY DEF GoDown
<1>4. ServedSoFar'
  BY <1>1, <1>2, <1>3 DEF ServedSoFar, AtWorkOK, Working
<1>5. InOrder'
  BY <1>1, <1>2, <1>3 DEF InOrder, Working
<1> QED
  BY <1>4, <1>5

(* Fetching the next record (getone in _consume_loop).                     *)
LEMMA FetchSafe ==
    ASSUME Typed, SafeInv, NEW m \in Members, Fetch(m)
    PROVE  SafeInv'
<1> USE LogAssumption DEF Typed, TypeOK, SafeInv, Offsets
<1>1. UNCHANGED <<broker, fate>>
  BY DEF Fetch
<1>2. /\ \A o \in Offsets, s \in Subs : Settled(o, s)' = Settled(o, s)
      /\ \A o \in Offsets : Accounted(o)' = Accounted(o)
  BY <1>1 DEF fate, Settled, Accounted
<1>3. /\ owner = m /\ phase[m] = "idle" /\ phase'[m] \in {"dispatch", "raw_dlq"}
      /\ current'[m] = position[m] /\ position'[m] = position[m] + 1
      /\ next'[m] = 1
  BY DEF Fetch
<1>4. \A n \in Members \ {m} : /\ phase'[n] = phase[n] /\ current'[n] = current[n]
                                /\ position'[n] = position[n]
                                /\ next'[n] = next[n] /\ unsafe'[n] = unsafe[n]
  BY DEF Fetch
<1>5. ServedSoFar'
  BY <1>2, <1>3, <1>4 DEF ServedSoFar, AtWorkOK, Working, Subs
<1>6. OwnerSkipsNothing'
  BY <1>1, <1>2, <1>3, <1>4 DEF OwnerSkipsNothing, Working, broker
<1>7. CommitRunsAheadOnlyInHand'
  BY <1>1, <1>2, <1>3, <1>4 DEF CommitRunsAheadOnlyInHand, Passed, Working, broker
<1>8. InOrder'
  BY <1>2, <1>3, <1>4 DEF InOrder, OwnerSkipsNothing, Working
<1> QED
  BY <1>5, <1>6, <1>7, <1>8

(* The end of a record that could not be converted, written to the dead-   *)
(* letter topic or sought back to.                                         *)
LEMMA RawDlqSafe ==
    ASSUME Typed, SafeInv, NEW m \in Members,
           RawDlqConfirmed(m) \/ RawDlqUnconfirmed(m)
    PROVE  SafeInv'
<1> USE LogAssumption DEF Typed, TypeOK, SafeInv
<1>1. current[m] \in Offsets /\ phase[m] = "raw_dlq"
  BY DEF RawDlqConfirmed, RawDlqUnconfirmed, AtWorkOK, Working
<1>2. UNCHANGED <<broker, current, next, unsafe>> /\ FateKept
  BY DEF RawDlqConfirmed, RawDlqUnconfirmed, FateKept
<1>3. /\ \A o \in Offsets, s \in Subs : Settled(o, s) => Settled(o, s)'
      /\ \A o \in Offsets : Accounted(o) => Accounted(o)'
  BY <1>2, AccountedGrows
<1>4. /\ phase'[m] = "idle"
      /\ \A n \in Members \ {m} : phase'[n] = phase[n] /\ position'[n] = position[n]
  BY DEF RawDlqConfirmed, RawDlqUnconfirmed, Rewind
<1>5. ServedSoFar'
  BY <1>2, <1>3, <1>4 DEF ServedSoFar, AtWorkOK, Working
<1>6. InOrder'
  BY <1>2, <1>3, <1>4 DEF InOrder, Working
<1>7. \A o \in Offsets : o < current[m] => Accounted(o)'
  BY <1>1, <1>3 DEF InOrder, Working
<1>8. CASE RawDlqConfirmed(m)
  <2>1. position' = position /\ Accounted(current[m])'
    BY <1>1, <1>8 DEF RawDlqConfirmed, Accounted, Settled, Subs
  <2>2. OwnerSkipsNothing'
    BY <1>2, <1>3, <1>4, <2>1 DEF OwnerSkipsNothing, broker
  <2>3. CommitRunsAheadOnlyInHand'
    BY <1>2, <1>3, <1>4, <2>1 DEF CommitRunsAheadOnlyInHand, Passed, broker
  <2> QED
    BY <1>5, <1>6, <2>2, <2>3
<1>9. CASE RawDlqUnconfirmed(m)
  <2>1. position'[m] = IF owner = m THEN current[m] ELSE position[m]
    BY <1>9 DEF RawDlqUnconfirmed, Rewind
  <2>2. OwnerSkipsNothing'
    BY <1>2, <1>3, <1>4, <1>7, <2>1 DEF OwnerSkipsNothing, broker
  <2>3. CommitRunsAheadOnlyInHand'
    <3> SUFFICES ASSUME NEW o \in Offsets, o < committed, ~Accounted(o)'
                 PROVE  \E n \in Members : owner = n /\ o \in Passed(n, committed)'
      BY <1>2 DEF CommitRunsAheadOnlyInHand, broker
    <3>1. PICK n \in Members : owner = n /\ o \in Passed(n, committed)
      BY <1>3 DEF CommitRunsAheadOnlyInHand
    <3>2. CASE n = m
      BY <1>1, <1>2, <1>7, <2>1, <3>1, <3>2 DEF Passed, Offsets, broker
    <3>3. CASE n # m
      BY <1>2, <1>4, <3>1, <3>3 DEF Passed, broker
    <3> QED
      BY <3>2, <3>3
  <2> QED
    BY <1>5, <1>6, <2>2, <2>3
<1> QED
  BY <1>8, <1>9

(* Taking the partition over at the committed offset.                      *)
LEMMA AssignSafe ==
    ASSUME Typed, SafeInv, NEW m \in Members, Assign(m)
    PROVE  SafeInv'
<1> USE DEF Typed, TypeOK, SafeInv
<1>1. /\ UNCHANGED <<committed, phase, current, next, unsafe, fate>>
      /\ owner = NoMember /\ owner' = m /\ position'[m] = committed
  BY DEF Assign
<1>2. /\ \A o \in Offsets, s \in Subs : Settled(o, s)' = Settled(o, s)
      /\ \A o \in Offsets : Accounted(o)' = Accounted(o)
  BY <1>1 DEF fate, Settled, Accounted
<1>3. \A o \in Offsets : o < committed => Accounted(o)
  BY <1>1, NoMemberAssumption DEF CommitRunsAheadOnlyInHand
<1>4. ServedSoFar' /\ InOrder'
  BY <1>1, <1>2 DEF ServedSoFar, InOrder, AtWorkOK, Working
<1>5. OwnerSkipsNothing'
  BY <1>1, <1>2, <1>3 DEF OwnerSkipsNothing
<1>6. CommitRunsAheadOnlyInHand'
  BY <1>1, <1>2, <1>3 DEF CommitRunsAheadOnlyInHand
<1> QED
  BY <1>4, <1>5, <1>6

(* The auto-commit of the position, whatever the loop is doing.            *)
LEMMA AutoCommitTickSafe ==
    ASSUME Typed, SafeInv, NEW m \in Members, AutoCommitTick(m)
    PROVE  SafeInv'
<1> USE DEF Typed, TypeOK, SafeInv
<1>1. /\ UNCHANGED <<owner, member, fate>>
      /\ owner = m /\ committed' = position[m]
  BY DEF AutoCommitTick
<1>2. /\ \A o \in Offsets, s \in Subs : Settled(o, s)' = Settled(o, s)
      /\ \A o \in Offsets : Accounted(o)' = Accounted(o)
  BY <1>1 DEF fate, Settled, Accounted
<1>3. ServedSoFar' /\ InOrder' /\ OwnerSkipsNothing'
  BY <1>1, <1>2 DEF ServedSoFar, InOrder, OwnerSkipsNothing, member, AtWorkOK, Working
<1>4. CommitRunsAheadOnlyInHand'
  BY <1>1, <1>2 DEF CommitRunsAheadOnlyInHand, OwnerSkipsNothing, Passed, member
<1> QED
  BY <1>3, <1>4

(* Steps that change no record, offset or assignment: only where a loop is.*)
LEMMA PhaseOnlySafe ==
    ASSUME Typed, SafeInv, NEW m \in Members,
           CallbackExhausts(m) \/ LoopFails(m) \/ Restart(m)
    PROVE  SafeInv'
<1> USE DEF Typed, TypeOK, SafeInv
<1>1. /\ UNCHANGED <<broker, position, current, next, unsafe, fate>>
      /\ \A n \in Members \ {m} : phase'[n] = phase[n]
      /\ \/ phase[m] = "dispatch" /\ phase'[m] = "dlq"
         \/ phase[m] \notin Working /\ phase'[m] \notin Working
  BY DEF CallbackExhausts, LoopFails, Restart, Working
<1>2. /\ \A o \in Offsets, s \in Subs : Settled(o, s)' = Settled(o, s)
      /\ \A o \in Offsets : Accounted(o)' = Accounted(o)
  BY <1>1 DEF fate, Settled, Accounted
<1>3. \A n \in Members : phase'[n] \in Working <=> phase[n] \in Working
  BY <1>1 DEF Working
<1>4. ServedSoFar'
  BY <1>1, <1>2 DEF ServedSoFar, AtWorkOK, Working
<1>5. InOrder' /\ OwnerSkipsNothing'
  BY <1>1, <1>2, <1>3 DEF InOrder, OwnerSkipsNothing, broker
<1>6. CommitRunsAheadOnlyInHand'
  BY <1>1, <1>2, <1>3 DEF CommitRunsAheadOnlyInHand, Passed, broker
<1> QED
  BY <1>4, <1>5, <1>6

(* Losing the partition, with or without a last commit.                    *)
LEMMA EvictRevokeSafe ==
    ASSUME Typed, SafeInv, NEW m \in Members, Evict(m) \/ Revoke(m)
    PROVE  SafeInv'
<1> USE DEF Typed, TypeOK, SafeInv
<1>1. /\ owner = m /\ owner' = NoMember
      /\ UNCHANGED <<member, handled, raised, dlq>>
  BY DEF Evict, Revoke
<1>2. PICK d \in {committed, position[m]} :
          committed' = d /\ exposed' = exposed \cup Passed(m, d)
  BY DEF Evict, Revoke, LastCommit
<1>3. FateKept /\ OwnerSkipsNothing' /\ CommitRunsAheadOnlyInHand'
  BY <1>1, <1>2, LetGoSafe
<1>4. /\ \A o \in Offsets, s \in Subs : Settled(o, s) => Settled(o, s)'
      /\ \A o \in Offsets : Accounted(o) => Accounted(o)'
  BY <1>3, AccountedGrows
<1>5. ServedSoFar' /\ InOrder'
  BY <1>1, <1>4 DEF ServedSoFar, InOrder, member, AtWorkOK, Working
<1> QED
  BY <1>3, <1>5

(* Losing the process, with or without a last commit.                      *)
LEMMA CloseCrashSafe ==
    ASSUME Typed, SafeInv, NEW m \in Members, Close(m) \/ Crash(m)
    PROVE  SafeInv'
<1> USE DEF Typed, TypeOK, SafeInv
<1>1. GoDown(m) /\ UNCHANGED <<handled, raised, dlq>>
  BY DEF Close, Crash
<1>2. CASE owner = m
  <2>1. PICK d \in {committed, position[m]} :
            committed' = d /\ exposed' = exposed \cup Passed(m, d)
    BY <1>2 DEF Close, Crash, LastCommit
  <2>2. owner' = NoMember
    BY <1>2 DEF Close, Crash
  <2>3. FateKept /\ OwnerSkipsNothing' /\ CommitRunsAheadOnlyInHand'
    BY <1>1, <1>2, <2>1, <2>2, LetGoSafe
  <2> QED
    BY <1>1, <2>3, GoDownSafe
<1>3. CASE owner # m
  <2>1. UNCHANGED <<broker, fate>>
    BY <1>1, <1>3 DEF Close, Crash, broker, fate
  <2>2. FateKept
    BY <2>1 DEF FateKept, fate
  <2>3. /\ \A o \in Offsets : Accounted(o)' = Accounted(o)
        /\ \A n \in Members \ {m} : /\ phase'[n] = phase[n]
                                      /\ current'[n] = current[n]
                                      /\ position'[n] = position[n]
    BY <1>1, <2>1 DEF fate, Settled, Accounted, GoDown
  <2>4. OwnerSkipsNothing'
    BY <1>3, <2>1, <2>3 DEF OwnerSkipsNothing, broker
  <2>5. CommitRunsAheadOnlyInHand'
    BY <1>3, <2>1, <2>3 DEF CommitRunsAheadOnlyInHand, Passed, broker
  <2> QED
    BY <1>1, <2>2, <2>4, <2>5, GoDownSafe
<1> QED
  BY <1>2, <1>3

(* The end of one subscriber: its callback returned or raised, or its dead *)
(* letter was tried.                                                       *)
LEMMA CallbackSafe ==
    ASSUME Typed, SafeInv, NEW m \in Members,
           \/ CallbackReturns(m) \/ CallbackRaises(m)
           \/ DlqConfirmed(m) \/ DlqUnconfirmed(m)
    PROVE  SafeInv'
<1>1. /\ phase[m] \in {"dispatch", "dlq"} /\ FateKept
      /\ next[m] \in Subs
  BY DEF CallbackReturns, CallbackRaises, DlqConfirmed, DlqUnconfirmed, FateKept,
         Typed, AtWorkOK, Working
<1>2. CASE DlqUnconfirmed(m)
  BY <1>1, <1>2, ServedSafe DEF DlqUnconfirmed
<1>3. CASE CallbackReturns(m) \/ CallbackRaises(m) \/ DlqConfirmed(m)
  <2>1. /\ Served(m, {})
        /\ <<current[m], next[m]>> \in (handled \cup dlq \cup raised)'
    BY <1>3 DEF CallbackReturns, CallbackRaises, DlqConfirmed
  <2> QED
    BY <1>1, <2>1, ServedSafe
<1> QED
  BY <1>2, <1>3

(* Every step keeps the inductive invariant.                               *)
LEMMA SafeStep == Typed /\ SafeInv /\ [Next]_vars => SafeInv'
<1> SUFFICES ASSUME Typed, SafeInv, [Next]_vars
             PROVE  SafeInv'
  OBVIOUS
<1>1. ASSUME NEW m \in Members, Progress(m)
      PROVE  SafeInv'
  BY <1>1, FetchSafe, CallbackSafe, PhaseOnlySafe, RawDlqSafe DEF Progress
<1>2. ASSUME NEW m \in Members, Disruption(m)
      PROVE  SafeInv'
  BY <1>2, PhaseOnlySafe, EvictRevokeSafe, CloseCrashSafe DEF Disruption
<1>3. ASSUME NEW m \in Members, Assign(m) \/ AutoCommitTick(m) \/ Restart(m)
      PROVE  SafeInv'
  BY <1>3, AssignSafe, AutoCommitTickSafe, PhaseOnlySafe
<1>4. CASE UNCHANGED vars
  BY <1>4 DEF vars, SafeInv, ServedSoFar, OwnerSkipsNothing,
              CommitRunsAheadOnlyInHand, InOrder, Passed, Accounted, Settled
<1> QED
  BY <1>1, <1>2, <1>3, <1>4 DEF Next

(* For any number of members, subscribers and records, whatever crashes,   *)
(* rebalances and dead-letter failures happen: _consume_loop and           *)
(* _rewind_after_unpersisted_dlq leave no record behind (the owner's       *)
(* position), and the group's committed offset is ahead of the work only   *)
(* by what the owner holds.                                                *)
THEOREM DeliveryCorrect ==
    Spec => [](OwnerSkipsNothing /\ CommitRunsAheadOnlyInHand /\ InOrder)
<1>1. SafeInv => OwnerSkipsNothing /\ CommitRunsAheadOnlyInHand /\ InOrder
  BY DEF SafeInv
<1> QED
  BY <1>1, TypedInit, TypedStep, SafeInit, SafeStep, PTL DEF Spec

(* _consume_loop() under auto-commit: the committed offset is ahead of an  *)
(* unaccounted record only while the owner holds it.                       *)
THEOREM CommitCorrect == Spec => []CommitRunsAheadOnlyInHand
  BY DeliveryCorrect, PTL

(* Whoever has a record in hand, each one before it in the log has been    *)
(* accounted for, so the seek back to it skips nothing.                    *)
THEOREM OrderCorrect == Spec => []InOrder
  BY DeliveryCorrect, PTL

-----------------------------------------------------------------------------
(* The refinement.  Which outcomes a record can have depends on what it is,*)
(* so the phase of the loop has to agree with the record in hand.          *)
KindInHand ==
    \A m \in Members :
        /\ phase[m] = "dispatch" => log[current[m]] # "malformed"
        /\ phase[m] = "dlq" => log[current[m]] = "spent"
        /\ phase[m] = "raw_dlq" => log[current[m]] = "malformed"

(* No member starts with a record in hand.                                 *)
LEMMA KindInit == Init => KindInHand
  BY DEF Init, KindInHand

(* Served stays with the record, and with the subscribers only while some  *)
(* are left.                                                               *)
LEMMA ServedKeepsKind ==
    ASSUME Typed, KindInHand, NEW m \in Members, NEW bad, Served(m, bad),
           phase[m] \in {"dispatch", "dlq"}
    PROVE  KindInHand'
<1>1. /\ UNCHANGED <<log, current>> /\ phase'[m] \in {"idle", "dispatch"}
      /\ \A n \in Members \ {m} : phase'[n] = phase[n]
  BY DEF Served, broker, Typed, TypeOK
<1>2. log[current[m]] # "malformed"
  BY DEF KindInHand
<1> QED
  BY <1>1, <1>2 DEF KindInHand

(* Every step keeps the loop's phase and the record in agreement.          *)
LEMMA KindStep == Typed /\ KindInHand /\ [Next]_vars => KindInHand'
<1> SUFFICES ASSUME Typed, KindInHand, [Next]_vars
             PROVE  KindInHand'
  OBVIOUS
<1> USE DEF Typed, TypeOK
<1>1. ASSUME NEW m \in Members, Fetch(m)
      PROVE  KindInHand'
  <2>1. /\ log' = log /\ current'[m] = position[m]
        /\ phase'[m] = IF log[position[m]] = "malformed" THEN "raw_dlq" ELSE "dispatch"
        /\ \A n \in Members \ {m} : phase'[n] = phase[n] /\ current'[n] = current[n]
    BY <1>1 DEF Fetch, broker
  <2> QED
    BY <2>1 DEF KindInHand
<1>2. ASSUME NEW m \in Members,
             CallbackReturns(m) \/ CallbackRaises(m) \/ DlqConfirmed(m) \/ DlqUnconfirmed(m)
      PROVE  KindInHand'
  BY <1>2, ServedKeepsKind DEF CallbackReturns, CallbackRaises, DlqConfirmed, DlqUnconfirmed
<1>3. ASSUME NEW m \in Members, CallbackExhausts(m)
      PROVE  KindInHand'
  BY <1>3 DEF CallbackExhausts, KindInHand, broker
<1>4. ASSUME NEW m \in Members,
             RawDlqConfirmed(m) \/ RawDlqUnconfirmed(m) \/ LoopFails(m) \/ Restart(m)
      PROVE  KindInHand'
  BY <1>4 DEF RawDlqConfirmed, RawDlqUnconfirmed, LoopFails, Restart, KindInHand, broker
<1>5. ASSUME NEW m \in Members, Close(m) \/ Crash(m)
      PROVE  KindInHand'
  BY <1>5 DEF Close, Crash, GoDown, KindInHand
<1>6. ASSUME NEW m \in Members,
             Evict(m) \/ Revoke(m) \/ Assign(m) \/ AutoCommitTick(m)
      PROVE  KindInHand'
  BY <1>6 DEF Evict, Revoke, Assign, AutoCommitTick, KindInHand, member
<1>7. CASE UNCHANGED vars
  BY <1>7 DEF vars, KindInHand
<1> QED
  BY <1>1, <1>2, <1>3, <1>4, <1>5, <1>6, <1>7 DEF Next, Progress, Disruption

(* A record comes to be in hand when it is due.                            *)
LEMMA InHandIsDue ==
    ASSUME Typed, SafeInv, NEW m \in Members, phase[m] \in Working
    PROVE  Delivery!Due(current[m])
  BY DEF SafeInv, InOrder, Accounted, Settled, Delivery!Due, Delivery!Accounted

(* The outcome of one subscriber is Handle, LetGo or DeadLetter.           *)
LEMMA CallbackDelivers ==
    ASSUME Typed, SafeInv, KindInHand, NEW m \in Members,
           \/ CallbackReturns(m) \/ CallbackRaises(m)
           \/ DlqConfirmed(m) \/ DlqUnconfirmed(m)
    PROVE  [Delivery!Next]_(Delivery!dvars)
<1> DEFINE o == current[m]
           s == next[m]
<1>1. /\ phase[m] \in {"dispatch", "dlq"} /\ UNCHANGED <<log, exposed>>
      /\ phase[m] \in Working
  BY DEF CallbackReturns, CallbackRaises, DlqConfirmed, DlqUnconfirmed, Served, broker, Working
<1>2. o \in Offsets /\ s \in Subs /\ Delivery!Due(o)
  BY <1>1, InHandIsDue DEF Typed, AtWorkOK
<1>3. CASE CallbackReturns(m)
  <2>1. Delivery!Handle(o, s)
    BY <1>1, <1>2, <1>3 DEF CallbackReturns, KindInHand, Delivery!Handle
  <2> QED
    BY <1>2, <2>1 DEF Delivery!Next
<1>4. CASE CallbackRaises(m)
  <2>1. Delivery!LetGo(o, s)
    BY <1>1, <1>2, <1>4 DEF CallbackRaises, Delivery!LetGo
  <2> QED
    BY <1>2, <2>1 DEF Delivery!Next
<1>5. CASE DlqConfirmed(m) \/ DlqUnconfirmed(m)
  <2>1. /\ log[o] = "spent" /\ UNCHANGED <<handled, raised>>
        /\ dlq' = dlq \/ dlq' = dlq \cup ({o} \X {s})
    BY <1>5 DEF DlqConfirmed, DlqUnconfirmed, KindInHand
  <2>2. CASE dlq' = dlq
    BY <1>1, <2>1, <2>2 DEF Delivery!dvars
  <2>3. CASE dlq' = dlq \cup ({o} \X {s})
    <3>1. Delivery!DeadLetter(o, {s}) /\ {s} \in SUBSET Subs
      BY <1>1, <1>2, <2>1, <2>3 DEF Delivery!DeadLetter
    <3> QED
      BY <1>2, <3>1 DEF Delivery!Next
  <2> QED
    BY <2>1, <2>2, <2>3
<1> QED
  BY <1>3, <1>4, <1>5

(* A record that cannot be converted is dead-lettered for all at once.     *)
LEMMA RawDlqDelivers ==
    ASSUME Typed, SafeInv, KindInHand, NEW m \in Members,
           RawDlqConfirmed(m) \/ RawDlqUnconfirmed(m)
    PROVE  [Delivery!Next]_(Delivery!dvars)
<1> DEFINE o == current[m]
<1>1. /\ phase[m] = "raw_dlq" /\ UNCHANGED <<log, handled, raised, exposed>>
      /\ dlq' = dlq \/ dlq' = dlq \cup ({o} \X Subs)
  BY DEF RawDlqConfirmed, RawDlqUnconfirmed, broker
<1>2. o \in Offsets /\ log[o] = "malformed" /\ Delivery!Due(o)
  BY <1>1, InHandIsDue DEF Typed, AtWorkOK, Working, KindInHand
<1>3. CASE dlq' = dlq
  BY <1>1, <1>3 DEF Delivery!dvars
<1>4. CASE dlq' = dlq \cup ({o} \X Subs)
  <2>1. Delivery!DeadLetter(o, Subs)
    BY <1>1, <1>2, <1>4 DEF Delivery!DeadLetter
  <2> QED
    BY <1>2, <2>1 DEF Delivery!Next
<1> QED
  BY <1>1, <1>3, <1>4

(* What is lost with the partition is the head of what was to come: up to  *)
(* the committed offset, everything is accounted for or lost with it.      *)
LEMMA LetGoLoses ==
    ASSUME Typed, SafeInv, NEW m \in Members, owner = m,
           NEW c \in {committed, position[m]},
           exposed' = exposed \cup Passed(m, c),
           UNCHANGED <<log, handled, raised, dlq>>
    PROVE  [Delivery!Next]_(Delivery!dvars)
<1> DEFINE R == Passed(m, c)
<1>1. R \in SUBSET Offsets /\ \A r \in R : r < c
  BY DEF Passed
<1>2. ASSUME NEW r \in R, NEW p \in Offsets, p < r
      PROVE  p \in R \/ Delivery!Accounted(p)
  <2>1. p < c
    BY <1>1, <1>2, LogAssumption DEF Typed, TypeOK, Offsets
  <2>2. Accounted(p) \/ p \in exposed'
    BY <2>1, LetGoAccounts
  <2> QED
    BY <2>2 DEF Accounted, Settled, Delivery!Accounted
<1>3. Delivery!Lose(R)
  BY <1>2 DEF Delivery!Lose
<1> QED
  BY <1>1, <1>3 DEF Delivery!Next

(* Losing the partition, or the process with it.                           *)
LEMMA DisruptionLoses ==
    ASSUME Typed, SafeInv, NEW m \in Members,
           Evict(m) \/ Revoke(m) \/ Close(m) \/ Crash(m)
    PROVE  [Delivery!Next]_(Delivery!dvars)
<1>1. UNCHANGED <<log, handled, raised, dlq>>
  BY DEF Evict, Revoke, Close, Crash
<1>2. CASE owner = m
  <2>1. PICK c \in {committed, position[m]} : exposed' = exposed \cup Passed(m, c)
    BY <1>2 DEF Evict, Revoke, Close, Crash, LastCommit
  <2> QED
    BY <1>1, <1>2, <2>1, LetGoLoses
<1>3. CASE owner # m
  BY <1>1, <1>3 DEF Evict, Revoke, Close, Crash, Delivery!dvars
<1> QED
  BY <1>2, <1>3

(* Every step of the group is a step of ordered delivery, or a stutter.    *)
LEMMA StepDelivers ==
    Typed /\ SafeInv /\ KindInHand /\ [Next]_vars => [Delivery!Next]_(Delivery!dvars)
<1> SUFFICES ASSUME Typed, SafeInv, KindInHand, [Next]_vars
             PROVE  [Delivery!Next]_(Delivery!dvars)
  OBVIOUS
<1>1. ASSUME NEW m \in Members,
             \/ Fetch(m) \/ CallbackExhausts(m) \/ LoopFails(m)
             \/ Assign(m) \/ AutoCommitTick(m) \/ Restart(m)
      PROVE  UNCHANGED Delivery!dvars
  BY <1>1 DEF Fetch, CallbackExhausts, LoopFails, Assign, AutoCommitTick, Restart,
              broker, fate, Delivery!dvars
<1>2. CASE UNCHANGED vars
  BY <1>2 DEF vars, Delivery!dvars
<1> QED
  BY <1>1, <1>2, CallbackDelivers, RawDlqDelivers, DisruptionLoses
  DEF Next, Progress, Disruption

(* Whatever crashes, closes, rebalances, seeks back and commits, the group *)
(* delivers the log in order: no subscriber is given a record, and none is *)
(* dead-lettered, while an earlier one has not come to its end at every    *)
(* subscriber; a record ends in a way its kind allows; and a disruption    *)
(* loses no record while it leaves an earlier one to be delivered          *)
(* (_consume_loop, _rewind_after_unpersisted_dlq, auto-commit).            *)
THEOREM BusDeliversInOrder == Spec => DeliversInOrder
<1>1. Init => Delivery!Init
  BY DEF Init, Delivery!Init
<1> QED
  BY <1>1, TypedInit, TypedStep, SafeInit, SafeStep, KindInit, KindStep, StepDelivers, PTL
  DEF Spec, DeliversInOrder, Delivery!Spec

(* What a reader of the topics can see of the order: once anything at all  *)
(* has become of a record, everything has of the ones before it.           *)
Touched(o) == o \in exposed \/ \E s \in Subs : Settled(o, s)
NoHoles == \A o \in Offsets : Touched(o) => Delivery!Due(o)

(* It is enough that the group implements OrderedDelivery.                 *)
LEMMA NoHolesStep == NoHoles /\ [Delivery!Next]_(Delivery!dvars) => NoHoles'
<1> SUFFICES ASSUME NoHoles, [Delivery!Next]_(Delivery!dvars)
             PROVE  NoHoles'
  OBVIOUS
<1>1. \A p \in Offsets : Delivery!Accounted(p) => Delivery!Accounted(p)'
  BY DEF Delivery!Next, Delivery!Handle, Delivery!LetGo, Delivery!DeadLetter,
         Delivery!Lose, Delivery!dvars, Delivery!Accounted
<1>2. \A o \in Offsets : Delivery!Due(o) => Delivery!Due(o)'
  BY <1>1 DEF Delivery!Due
<1>3. ASSUME NEW o \in Offsets, Touched(o)', ~ Touched(o)
      PROVE  Delivery!Due(o)'
  <2>1. CASE \E r \in Offsets, s \in Subs : Delivery!Handle(r, s) \/ Delivery!LetGo(r, s)
    <3>1. Delivery!Due(o)
      BY <1>3, <2>1 DEF Touched, Settled, Delivery!Handle, Delivery!LetGo
    <3> QED
      BY <1>2, <3>1
  <2>2. CASE \E r \in Offsets, S \in SUBSET Subs : Delivery!DeadLetter(r, S)
    <3>1. Delivery!Due(o)
      BY <1>3, <2>2 DEF Touched, Settled, Delivery!DeadLetter
    <3> QED
      BY <1>2, <3>1
  <2>3. CASE \E R \in SUBSET Offsets : Delivery!Lose(R)
    <3>1. PICK R \in SUBSET Offsets : Delivery!Lose(R)
      BY <2>3
    <3>2. o \in R /\ exposed' = exposed \cup R
      BY <1>3, <3>1 DEF Touched, Settled, Delivery!Lose
    <3>3. \A p \in Offsets : p < o => p \in exposed' \/ Delivery!Accounted(p)
      BY <3>1, <3>2 DEF Delivery!Lose
    <3> QED
      BY <1>1, <3>3 DEF Delivery!Due, Delivery!Accounted
  <2>4. CASE UNCHANGED Delivery!dvars
    BY <1>3, <2>4 DEF Touched, Settled, Delivery!dvars
  <2> QED
    BY <2>1, <2>2, <2>3, <2>4 DEF Delivery!Next
<1>4. ASSUME NEW o \in Offsets, Touched(o)'
      PROVE  Delivery!Due(o)'
  BY <1>2, <1>3, <1>4 DEF NoHoles
<1> QED
  BY <1>4 DEF NoHoles

(* In the log of a partition there is a front: before it every record has  *)
(* come to its end, behind it nothing has happened to any, and at most one *)
(* record is halfway.                                                      *)
THEOREM NoHolesCorrect == Spec => []NoHoles
<1>1. Init => NoHoles
  BY DEF Init, NoHoles, Touched, Settled
<1> QED
  BY <1>1, NoHolesStep, TypedInit, TypedStep, SafeInit, SafeStep, KindInit, KindStep,
     StepDelivers, PTL
  DEF Spec

-----------------------------------------------------------------------------
(* SubcontractDelivery.                                                    *)

\* Every step of the composition is a step of the bus, or leaves it alone.
LEMMA WiringStepIsBusStep == [WNext]_allVars => [Next]_vars
<1> SUFFICES ASSUME [WNext]_allVars
             PROVE  [Next]_vars
  OBVIOUS
<1>1. ASSUME NEW m \in Members, WiringStep(m)
      PROVE  Progress(m) \/ UNCHANGED vars
  BY <1>1
  DEF WiringStep, Deserialize, Record, SkipDuplicate, StoreFails, DispatchSucceeds,
      DispatchFails, NoDispatcher, WiringDlqConfirmed, WiringDlqUnconfirmed,
      ContentError, InfraError, Raise, Return, Progress
<1>2. ASSUME NEW m \in Members, OtherCallback(m)
      PROVE  Progress(m)
  BY <1>2 DEF OtherCallback, Progress
<1>3. ASSUME NEW m \in Members, BusStep(m) \/ Stops(m)
      PROVE  Next
  BY <1>3 DEF BusStep, Stops, Next, Progress, Disruption
<1>4. CASE UNCHANGED allVars
  BY <1>4 DEF allVars
<1> QED
  BY <1>1, <1>2, <1>3, <1>4 DEF WNext, Next

\* EventBusSubcontractWiring on EventBusKafka is a use of EventBusKafka: the
\* callback's awaits, retries and dead letters are callbacks that return or raise.
THEOREM WiringImplementsBus == WSpec => Spec
<1>1. WInit => Init
  BY DEF WInit
<1> QED
  BY <1>1, WiringStepIsBusStep, PTL DEF WSpec, Spec

-----------------------------------------------------------------------------
(* What the wiring adds to the type invariant.                             *)
WiringTyped ==
    /\ step \in [Members -> Steps]
    /\ retries \in [Members -> [Offsets -> 0 .. MaxAttempts]]
    /\ seen \subseteq Offsets /\ parked \subseteq Offsets
    /\ withheld \subseteq Offsets /\ skipped \subseteq Offsets
    /\ applied \in [Offsets -> 0 .. 2]

(* The wiring's variables have their types initially.                      *)
LEMMA WiringTypedInit == WInit => WiringTyped
  BY AttemptsAssumption DEF WInit, WiringTyped, Steps, DeadLettering, Offsets

(* The callback under way, at a record of the log.                         *)
LEMMA WiringStepTyped ==
    ASSUME Typed, WiringTyped, NEW m \in Members, WiringStep(m)
    PROVE  WiringTyped'
<1> USE AttemptsAssumption DEF WiringTyped
<1>1. current[m] \in Offsets
  BY DEF WiringStep, Deserialize, Record, SkipDuplicate, StoreFails, DispatchSucceeds,
         DispatchFails, NoDispatcher, WiringDlqConfirmed, WiringDlqUnconfirmed,
         At, Typed, AtWorkOK, Working
<1>2. ASSUME NEW st \in Steps, Goto(m, st)
      PROVE  step' \in [Members -> Steps]
  BY <1>2 DEF Goto
<1>3. {"none", "dispatching", "dlq_content", "dlq_drop", "dlq_infra"} = Steps
  BY DEF Steps, DeadLettering
<1>4. ASSUME ContentError(m)
      PROVE  step' \in [Members -> Steps] /\ retries' = retries
  BY <1>2, <1>3, <1>4 DEF ContentError, Raise
<1>5. ASSUME InfraError(m)
      PROVE  step' \in [Members -> Steps]
             /\ retries' \in [Members -> [Offsets -> 0 .. MaxAttempts]]
  <2>1. step' \in [Members -> Steps]
    BY <1>2, <1>3, <1>5 DEF InfraError, Raise
  <2>2. PICK k \in 0 .. MaxAttempts :
            retries' = [retries EXCEPT ![m][current[m]] = k]
    <3> DEFINE o == current[m]
               spent == retries[m][o] + 1 >= MaxAttempts
               k == IF spent THEN MaxAttempts ELSE retries[m][o] + 1
    <3>1. retries' = [retries EXCEPT ![m][o] = k]
      BY <1>5 DEF InfraError
    <3>2. k \in 0 .. MaxAttempts
      BY <1>1
    <3> QED
      BY <3>1, <3>2
  <2> QED
    BY <1>1, <2>1, <2>2
<1>6. ASSUME ClearRetries(m)
      PROVE  retries' \in [Members -> [Offsets -> 0 .. MaxAttempts]]
  BY <1>1, <1>6 DEF ClearRetries
<1>7. CASE Deserialize(m) \/ DispatchFails(m)
  <2>1. UNCHANGED <<seen, applied, parked, withheld, skipped>>
        /\ (ContentError(m) \/ InfraError(m))
    BY <1>7 DEF Deserialize, DispatchFails
  <2> QED
    BY <1>4, <1>5, <2>1
<1>8. CASE Record(m) \/ NoDispatcher(m)
  BY <1>1, <1>2, <1>3, <1>8 DEF Record, NoDispatcher
<1>9. CASE SkipDuplicate(m)
  BY <1>1, <1>2, <1>3, <1>9 DEF SkipDuplicate, Return
<1>10. CASE StoreFails(m)
  BY <1>5, <1>10 DEF StoreFails
<1>11. CASE DispatchSucceeds(m)
  <2>1. applied' \in [Offsets -> 0 .. 2]
    BY <1>1, <1>11 DEF DispatchSucceeds
  <2> QED
    BY <1>2, <1>3, <1>6, <1>11, <2>1 DEF DispatchSucceeds, Return
<1>12. CASE WiringDlqConfirmed(m) \/ WiringDlqUnconfirmed(m)
  BY <1>1, <1>2, <1>3, <1>6, <1>12 DEF WiringDlqConfirmed, WiringDlqUnconfirmed, Return
<1> QED
  BY <1>7, <1>8, <1>9, <1>10, <1>11, <1>12 DEF WiringStep

(* Every step keeps the types of the wiring's variables.                   *)
LEMMA WiringTypedStep == Typed /\ WiringTyped /\ [WNext]_allVars => WiringTyped'
<1> SUFFICES ASSUME Typed, WiringTyped, [WNext]_allVars
             PROVE  WiringTyped'
  OBVIOUS
<1>1. ASSUME NEW m \in Members, OtherCallback(m) \/ BusStep(m)
      PROVE  WiringTyped'
  BY <1>1 DEF OtherCallback, BusStep, wiring, WiringTyped
<1>2. ASSUME NEW m \in Members, Stops(m)
      PROVE  WiringTyped'
  BY <1>2, AttemptsAssumption DEF Stops, Goto, WiringTyped, Steps
<1>3. CASE UNCHANGED allVars
  BY <1>3 DEF allVars, wiring, WiringTyped
<1> QED
  BY <1>1, <1>2, <1>3, WiringStepTyped DEF WNext

(* Every variable of the composition keeps its type; in particular a retry *)
(* count never passes the budget.                                          *)
THEOREM WiringTypeCorrect == WSpec => []WTypeOK
<1>1. Typed /\ WiringTyped => WTypeOK
  BY DEF Typed, WiringTyped, WTypeOK
<1>2. WInit => Typed /\ WiringTyped
  BY TypedInit, WiringTypedInit DEF WInit
<1>3. Typed /\ WiringTyped /\ [WNext]_allVars => (Typed /\ WiringTyped)'
  BY TypedStep, WiringTypedStep, WiringStepIsBusStep
<1> QED
  BY <1>1, <1>2, <1>3, PTL DEF WSpec

-----------------------------------------------------------------------------
(* Why a record is applied at most once: check_and_record lets a single    *)
(* dispatch of a record begin, and a callback keeps its record until it    *)
(* returns, raises or dies with the process, even when the partition has   *)
(* long gone to another member.                                            *)
HoldsItsTurn ==
    \A m \in Members : step[m] # "none" => phase[m] = "dispatch" /\ next[m] \in Wired

Claimed ==
    \A m \in Members : step[m] = "dispatching" =>
        current[m] \in seen /\ applied[current[m]] = 0

OneDispatchEach ==
    \A m, n \in Members :
        step[m] = "dispatching" /\ step[n] = "dispatching" /\ current[m] = current[n] =>
            m = n

AppliedOnlySeen == \A o \in Offsets : applied[o] <= 1 /\ (applied[o] # 0 => o \in seen)

OnceInv == HoldsItsTurn /\ Claimed /\ OneDispatchEach /\ AppliedOnlySeen

(* Nobody is dispatching, and nothing is applied, initially.               *)
LEMMA OnceInit == WInit => OnceInv
  BY DEF WInit, OnceInv, HoldsItsTurn, Claimed, OneDispatchEach, AppliedOnlySeen

(* What a step of member m leaves of the members' places in the loop.      *)
LEMMA OthersStay ==
    ASSUME Typed, NEW m \in Members,
           \/ CallbackReturns(m) \/ CallbackRaises(m) \/ CallbackExhausts(m)
           \/ UNCHANGED vars \/ BusStep(m) \/ Close(m) \/ Crash(m)
    PROVE  \A n \in Members \ {m} :
               phase'[n] = phase[n] /\ current'[n] = current[n] /\ next'[n] = next[n]
<1> USE DEF Typed, TypeOK
<1>1. CASE CallbackReturns(m) \/ CallbackRaises(m) \/ CallbackExhausts(m) \/ UNCHANGED vars
  BY <1>1 DEF CallbackReturns, CallbackRaises, CallbackExhausts, Served, vars
<1>2. CASE Fetch(m) \/ DlqConfirmed(m) \/ DlqUnconfirmed(m)
           \/ RawDlqConfirmed(m) \/ RawDlqUnconfirmed(m)
  BY <1>2 DEF Fetch, DlqConfirmed, DlqUnconfirmed, RawDlqConfirmed, RawDlqUnconfirmed, Served
<1>3. CASE LoopFails(m) \/ Evict(m) \/ Revoke(m) \/ Assign(m)
           \/ AutoCommitTick(m) \/ Restart(m)
  BY <1>3 DEF LoopFails, Evict, Revoke, Assign, AutoCommitTick, Restart, member
<1>4. CASE Close(m) \/ Crash(m)
  BY <1>4 DEF Close, Crash, GoDown
<1> QED
  BY <1>1, <1>2, <1>3, <1>4 DEF BusStep

(* A callback of the wiring that ends, or goes on without dispatching.     *)
LEMMA EndsSafe ==
    ASSUME Typed, WiringTyped, OnceInv, NEW m \in Members,
           NEW st \in Steps \ {"dispatching"}, Goto(m, st),
           \/ st = "none"
           \/ phase'[m] = "dispatch" /\ next'[m] \in Wired,
           \A n \in Members \ {m} :
               phase'[n] = phase[n] /\ current'[n] = current[n] /\ next'[n] = next[n],
           UNCHANGED <<seen, applied>>
    PROVE  OnceInv'
<1> USE DEF WiringTyped
<1>1. step'[m] = st /\ \A n \in Members \ {m} : step'[n] = step[n]
  BY DEF Goto
<1>2. HoldsItsTurn'
  BY <1>1 DEF OnceInv, HoldsItsTurn
<1>3. Claimed'
  BY <1>1 DEF OnceInv, Claimed
<1>4. OneDispatchEach'
  BY <1>1 DEF OnceInv, OneDispatchEach
<1>5. AppliedOnlySeen'
  BY DEF OnceInv, AppliedOnlySeen
<1> QED
  BY <1>2, <1>3, <1>4, <1>5 DEF OnceInv

(* check_and_record records the record before its dispatch begins.         *)
LEMMA RecordSafe ==
    ASSUME Dedupe, Typed, WiringTyped, OnceInv, NEW m \in Members, Record(m)
    PROVE  OnceInv'
<1> USE DEF WiringTyped
<1>1. /\ current[m] \in Offsets /\ current[m] \notin seen
      /\ phase[m] = "dispatch" /\ next[m] \in Wired
      /\ seen' = seen \cup {current[m]}
      /\ UNCHANGED <<phase, current, next, applied>>
  BY DEF Record, At, vars, Typed, AtWorkOK, Working
<1>2. step'[m] = "dispatching" /\ \A n \in Members \ {m} : step'[n] = step[n]
  BY DEF Record, Goto
<1>3. applied[current[m]] = 0
  BY <1>1 DEF OnceInv, AppliedOnlySeen
<1>4. HoldsItsTurn'
  BY <1>1, <1>2 DEF OnceInv, HoldsItsTurn
<1>5. Claimed'
  BY <1>1, <1>2, <1>3 DEF OnceInv, Claimed
<1>6. OneDispatchEach'
  BY <1>1, <1>2 DEF OnceInv, OneDispatchEach, Claimed
<1>7. AppliedOnlySeen'
  BY <1>1 DEF OnceInv, AppliedOnlySeen
<1> QED
  BY <1>4, <1>5, <1>6, <1>7 DEF OnceInv

(* The dispatch that succeeds is the only one of its record.               *)
LEMMA DispatchSucceedsSafe ==
    ASSUME Typed, WiringTyped, OnceInv, NEW m \in Members, DispatchSucceeds(m)
    PROVE  OnceInv'
<1> USE DEF WiringTyped
<1>1. /\ current[m] \in Offsets /\ step[m] = "dispatching"
      /\ current[m] \in seen /\ applied[current[m]] = 0
  BY DEF DispatchSucceeds, At, OnceInv, Claimed, Typed, AtWorkOK, Working
<1>2. \A n \in Members \ {m} :
          phase'[n] = phase[n] /\ current'[n] = current[n] /\ next'[n] = next[n]
  BY OthersStay DEF DispatchSucceeds, Return
<1>3. step'[m] = "none" /\ \A n \in Members \ {m} : step'[n] = step[n]
  BY DEF DispatchSucceeds, Return, Goto
<1>4. /\ seen' = seen /\ applied'[current[m]] = 1
      /\ \A o \in Offsets \ {current[m]} : applied'[o] = applied[o]
  BY <1>1 DEF DispatchSucceeds
<1>5. HoldsItsTurn'
  BY <1>2, <1>3 DEF OnceInv, HoldsItsTurn
<1>6. OneDispatchEach'
  BY <1>2, <1>3 DEF OnceInv, OneDispatchEach
<1>7. AppliedOnlySeen'
  BY <1>1, <1>4 DEF OnceInv, AppliedOnlySeen
<1>8. Claimed'
  <2> SUFFICES ASSUME NEW n \in Members, step'[n] = "dispatching"
               PROVE  current'[n] \in seen' /\ applied'[current'[n]] = 0
    BY DEF Claimed
  <2>1. n # m /\ step[n] = "dispatching" /\ current'[n] = current[n]
    BY <1>2, <1>3
  <2>2. current[n] # current[m]
    BY <1>1, <2>1 DEF OnceInv, OneDispatchEach
  <2>3. current[n] \in Offsets
    BY <2>1 DEF OnceInv, HoldsItsTurn, Typed, AtWorkOK, Working
  <2> QED
    BY <1>4, <2>1, <2>2, <2>3 DEF OnceInv, Claimed
<1> QED
  BY <1>5, <1>6, <1>7, <1>8 DEF OnceInv

(* Steps in which no callback of the wiring takes part.                    *)
LEMMA NotItsTurnSafe ==
    ASSUME Typed, WiringTyped, OnceInv, NEW m \in Members,
           OtherCallback(m) \/ BusStep(m)
    PROVE  OnceInv'
<1> USE DEF WiringTyped
<1>1. UNCHANGED wiring /\ UNCHANGED <<step, seen, applied>>
  BY DEF OtherCallback, BusStep, wiring
<1>2. \A n \in Members \ {m} :
          phase'[n] = phase[n] /\ current'[n] = current[n] /\ next'[n] = next[n]
  BY OthersStay DEF OtherCallback
<1>3. CASE step[m] = "none"
  <2>1. HoldsItsTurn'
    BY <1>1, <1>2, <1>3 DEF OnceInv, HoldsItsTurn
  <2>2. Claimed'
    BY <1>1, <1>2, <1>3 DEF OnceInv, Claimed
  <2>3. OneDispatchEach'
    BY <1>1, <1>2, <1>3 DEF OnceInv, OneDispatchEach
  <2>4. AppliedOnlySeen'
    BY <1>1 DEF OnceInv, AppliedOnlySeen
  <2> QED
    BY <2>1, <2>2, <2>3, <2>4 DEF OnceInv
<1>4. CASE step[m] # "none"
  <2>1. phase[m] = "dispatch" /\ next[m] \in Wired
    BY <1>4 DEF OnceInv, HoldsItsTurn
  <2>2. BusStep(m)
    BY <2>1 DEF OtherCallback
  <2>3. Evict(m) \/ Revoke(m) \/ Assign(m) \/ AutoCommitTick(m)
    BY <2>1, <2>2 DEF BusStep, Fetch, DlqConfirmed, DlqUnconfirmed, RawDlqConfirmed,
                      RawDlqUnconfirmed, LoopFails, Restart
  <2>4. UNCHANGED <<phase, current, next>>
    BY <2>3 DEF Evict, Revoke, Assign, AutoCommitTick, member
  <2> QED
    BY <1>1, <2>4
    DEF OnceInv, HoldsItsTurn, Claimed, OneDispatchEach, AppliedOnlySeen
<1> QED
  BY <1>3, <1>4

(* Every step keeps the inductive invariant.                               *)
LEMMA OnceStep ==
    ASSUME Dedupe
    PROVE  Typed /\ WiringTyped /\ OnceInv /\ [WNext]_allVars => OnceInv'
<1> SUFFICES ASSUME Typed, WiringTyped, OnceInv, [WNext]_allVars
             PROVE  OnceInv'
  OBVIOUS
<1>1. ASSUME NEW m \in Members, WiringStep(m)
      PROVE  OnceInv'
  <2>1. CASE Record(m)
    BY <2>1, RecordSafe
  <2>2. CASE DispatchSucceeds(m)
    BY <2>2, DispatchSucceedsSafe
  <2>3. CASE Deserialize(m) \/ SkipDuplicate(m) \/ StoreFails(m) \/ DispatchFails(m)
             \/ NoDispatcher(m) \/ WiringDlqConfirmed(m) \/ WiringDlqUnconfirmed(m)
    <3>1. phase[m] = "dispatch" /\ next[m] \in Wired /\ UNCHANGED <<seen, applied>>
      BY <2>3 DEF Deserialize, SkipDuplicate, StoreFails, DispatchFails, NoDispatcher,
                  WiringDlqConfirmed, WiringDlqUnconfirmed, At
    <3>2. \/ Goto(m, "none") /\ (\/ CallbackReturns(m) \/ CallbackRaises(m)
                                \/ CallbackExhausts(m))
          \/ \E st \in DeadLettering : Goto(m, st) /\ UNCHANGED vars
      BY <2>3 DEF Deserialize, SkipDuplicate, StoreFails, DispatchFails, NoDispatcher,
                  WiringDlqConfirmed, WiringDlqUnconfirmed, ContentError, InfraError,
                  Raise, Return, DeadLettering
    <3>3. \A n \in Members \ {m} :
              phase'[n] = phase[n] /\ current'[n] = current[n] /\ next'[n] = next[n]
      BY <3>2, OthersStay
    <3>4. CASE Goto(m, "none")
      BY <3>1, <3>3, <3>4, EndsSafe DEF Steps
    <3>5. CASE \E st \in DeadLettering : Goto(m, st) /\ UNCHANGED vars
      <4>1. PICK st \in DeadLettering : Goto(m, st) /\ UNCHANGED vars
        BY <3>5
      <4>2. st \in Steps \ {"dispatching"} /\ phase'[m] = "dispatch" /\ next'[m] \in Wired
        BY <3>1, <4>1 DEF Steps, DeadLettering, vars
      <4> QED
        BY <3>1, <3>3, <4>1, <4>2, EndsSafe
    <3> QED
      BY <3>2, <3>4, <3>5
  <2> QED
    BY <1>1, <2>1, <2>2, <2>3 DEF WiringStep
<1>2. ASSUME NEW m \in Members, OtherCallback(m) \/ BusStep(m)
      PROVE  OnceInv'
  BY <1>2, NotItsTurnSafe
<1>3. ASSUME NEW m \in Members, Stops(m)
      PROVE  OnceInv'
  <2>1. Goto(m, "none") /\ UNCHANGED <<seen, applied>> /\ (Close(m) \/ Crash(m))
    BY <1>3 DEF Stops
  <2>2. \A n \in Members \ {m} :
            phase'[n] = phase[n] /\ current'[n] = current[n] /\ next'[n] = next[n]
    BY <2>1, OthersStay
  <2> QED
    BY <2>1, <2>2, EndsSafe DEF Steps
<1>4. CASE UNCHANGED allVars
  BY <1>4 DEF allVars, vars, wiring, OnceInv, HoldsItsTurn, Claimed, OneDispatchEach,
              AppliedOnlySeen
<1> QED
  BY <1>1, <1>2, <1>3, <1>4 DEF WNext

(* For any number of members, wired callbacks, records and policies, with  *)
(* an idempotency store no record is dispatched to completion twice.       *)
THEOREM AppliedOnce == WSpec => []AppliedAtMostOnce
<1>1. CASE Dedupe
  <2>1. Typed /\ WiringTyped /\ OnceInv => AppliedAtMostOnce
    BY DEF OnceInv, AppliedOnlySeen, AppliedAtMostOnce
  <2>2. WInit => Typed /\ WiringTyped /\ OnceInv
    BY TypedInit, WiringTypedInit, OnceInit DEF WInit
  <2>3. Typed /\ WiringTyped /\ OnceInv /\ [WNext]_allVars
            => (Typed /\ WiringTyped /\ OnceInv)'
    BY <1>1, TypedStep, WiringTypedStep, WiringStepIsBusStep, OnceStep
  <2> QED
    BY <2>1, <2>2, <2>3, PTL DEF WSpec
<1>2. CASE ~Dedupe
  <2>1. AppliedAtMostOnce
    BY <1>2 DEF AppliedAtMostOnce
  <2> QED
    BY <2>1, PTL
<1> QED
  BY <1>1, <1>2

-----------------------------------------------------------------------------
(* What a wired callback did with a record, and what the others leave      *)
(* alone.                                                                  *)

(* A step of a wired callback returns on its record for a reason or not at *)
(* all, and forgets nothing it did before.                                 *)
LEMMA ReturnsForAReason ==
    ASSUME Typed, WiringTyped, NEW m \in Members, WiringStep(m)
    PROVE  /\ \/ handled' = handled
              \/ /\ handled' = handled \cup {<<current[m], next[m]>>}
                 /\ applied'[current[m]] > 0 \/ current[m] \in parked' \cup withheld' \cup skipped'
           /\ parked \subseteq parked' /\ withheld \subseteq withheld' /\ skipped \subseteq skipped'
           /\ \A o \in Offsets : applied[o] > 0 => applied'[o] > 0
<1> USE DEF WiringTyped
<1>1. current[m] \in Offsets
  BY DEF WiringStep, Deserialize, Record, SkipDuplicate, StoreFails, DispatchSucceeds,
         DispatchFails, NoDispatcher, WiringDlqConfirmed, WiringDlqUnconfirmed,
         At, Typed, AtWorkOK, Working
<1>2. ASSUME ContentError(m) \/ InfraError(m)
      PROVE  handled' = handled
  <2>1. UNCHANGED vars \/ CallbackRaises(m) \/ CallbackExhausts(m)
    BY <1>2 DEF ContentError, InfraError, Raise
  <2> QED
    BY <2>1 DEF CallbackRaises, CallbackExhausts, vars, fate
<1>3. CASE Deserialize(m) \/ StoreFails(m) \/ DispatchFails(m)
  BY <1>2, <1>3 DEF Deserialize, StoreFails, DispatchFails
<1>4. CASE Record(m) \/ NoDispatcher(m)
  BY <1>4 DEF Record, NoDispatcher, vars
<1>5. CASE SkipDuplicate(m)
  BY <1>5 DEF SkipDuplicate, Return, CallbackReturns
<1>6. CASE DispatchSucceeds(m)
  BY <1>1, <1>6 DEF DispatchSucceeds, Return, CallbackReturns
<1>7. CASE WiringDlqConfirmed(m) \/ WiringDlqUnconfirmed(m)
  BY <1>7 DEF WiringDlqConfirmed, WiringDlqUnconfirmed, Return, CallbackReturns
<1> QED
  BY <1>3, <1>4, <1>5, <1>6, <1>7 DEF WiringStep

(* A callback returns for a reason, and no later step takes one back.      *)
LEMMA ReasonStep ==
    Typed /\ WiringTyped /\ ReturnedForAReason /\ [WNext]_allVars => ReturnedForAReason'
<1> SUFFICES ASSUME Typed, WiringTyped, ReturnedForAReason, [WNext]_allVars
             PROVE  ReturnedForAReason'
  OBVIOUS
<1> USE DEF ReturnedForAReason
<1>1. ASSUME NEW m \in Members, WiringStep(m)
      PROVE  ReturnedForAReason'
  BY <1>1, ReturnsForAReason
<1>2. ASSUME NEW m \in Members, OtherCallback(m)
      PROVE  ReturnedForAReason'
  <2>1. next[m] \notin Wired /\ UNCHANGED <<applied, parked, withheld, skipped>>
    BY <1>2 DEF OtherCallback, wiring
  <2>2. handled' \subseteq handled \cup {<<current[m], next[m]>>}
    BY <1>2 DEF OtherCallback, CallbackReturns, CallbackRaises, CallbackExhausts, fate
  <2>3. \A o \in Offsets, s \in Wired : <<o, s>> \in handled' => <<o, s>> \in handled
    BY <2>1, <2>2
  <2> QED
    BY <2>1, <2>3
<1>3. ASSUME NEW m \in Members, BusStep(m) \/ Stops(m)
      PROVE  ReturnedForAReason'
  <2>1. handled' = handled
    BY <1>3 DEF BusStep, Stops, Fetch, DlqConfirmed, DlqUnconfirmed, RawDlqConfirmed,
                RawDlqUnconfirmed, LoopFails, Evict, Revoke, Assign, AutoCommitTick,
                Restart, Close, Crash, fate
  <2>2. UNCHANGED <<applied, parked, withheld, skipped>>
    BY <1>3 DEF BusStep, Stops, wiring
  <2> QED
    BY <2>1, <2>2
<1>4. CASE UNCHANGED allVars
  BY <1>4 DEF allVars, vars, wiring
<1> QED
  BY <1>1, <1>2, <1>3, <1>4 DEF WNext

(* No record passes a wired callback for nothing: applied, dead-lettered,  *)
(* let go with its dead letter, or taken for a duplicate.                  *)
THEOREM ReturnedCorrect == WSpec => []ReturnedForAReason
<1>1. WInit => Typed /\ WiringTyped /\ ReturnedForAReason
  BY TypedInit, WiringTypedInit DEF WInit, Init, ReturnedForAReason
<1>2. Typed /\ WiringTyped /\ ReturnedForAReason /\ [WNext]_allVars
         => (Typed /\ WiringTyped /\ ReturnedForAReason)'
  BY TypedStep, WiringTypedStep, WiringStepIsBusStep, ReasonStep
<1> QED
  BY <1>1, <1>2, PTL DEF WSpec

(* A spent budget is given back by a dispatch that succeeds, a dead letter *)
(* that is confirmed, or the end of the process only.                      *)
THEOREM BudgetCorrect == WSpec => BudgetStaysSpent
<1> DEFINE Kept == \A m \in Members, o \in Offsets :
        retries[m][o] = MaxAttempts /\ retries'[m][o] # MaxAttempts =>
            phase'[m] = "down" \/ o \in parked' \/ applied'[o] > 0
<1>1. ASSUME Typed, WiringTyped, [WNext]_allVars
      PROVE  [Kept]_allVars
  <2>a. retries \in [Members -> [Offsets -> 0 .. MaxAttempts]] /\ phase \in [Members -> Phases]
        /\ applied \in [Offsets -> 0 .. 2] /\ MaxAttempts \in Nat
    BY <1>1, AttemptsAssumption DEF WiringTyped, Typed, TypeOK
  <2>b. ASSUME retries' = retries
        PROVE  Kept
    BY <2>b
  <2>c. ASSUME NEW m \in Members, NEW k \in 0 .. MaxAttempts, current[m] \in Offsets,
               retries' = [retries EXCEPT ![m][current[m]] = k],
               \/ retries[m][current[m]] = MaxAttempts => k = MaxAttempts
               \/ current[m] \in parked' \/ applied'[current[m]] > 0
        PROVE  Kept
    BY <2>a, <2>c
  <2>1. ASSUME NEW m \in Members, WiringStep(m)
        PROVE  Kept
    <3>1. current[m] \in Offsets
      BY <1>1, <2>1 DEF WiringStep, Deserialize, Record, SkipDuplicate, StoreFails,
             DispatchSucceeds, DispatchFails, NoDispatcher, WiringDlqConfirmed,
             WiringDlqUnconfirmed, At, Typed, AtWorkOK, Working
    <3>2. CASE InfraError(m)
      <4>1. retries' = [retries EXCEPT ![m][current[m]] =
                           IF retries[m][current[m]] + 1 >= MaxAttempts
                           THEN MaxAttempts ELSE retries[m][current[m]] + 1]
        BY <3>2 DEF InfraError
      <4>2. PICK k \in 0 .. MaxAttempts :
               /\ retries' = [retries EXCEPT ![m][current[m]] = k]
               /\ retries[m][current[m]] = MaxAttempts => k = MaxAttempts
        <5> DEFINE r == retries[m][current[m]]
                   k == IF r + 1 >= MaxAttempts THEN MaxAttempts ELSE r + 1
        <5>1. r \in 0 .. MaxAttempts
          BY <2>a, <3>1
        <5>2. k \in 0 .. MaxAttempts /\ (r = MaxAttempts => k = MaxAttempts)
          BY <2>a, <5>1
        <5>3. retries' = [retries EXCEPT ![m][current[m]] = k]
          BY <4>1
        <5> QED
          BY <5>2, <5>3
      <4> QED
        BY <2>c, <3>1, <4>2
    <3>3. CASE Deserialize(m) \/ DispatchFails(m) \/ StoreFails(m)
      BY <2>b, <3>2, <3>3 DEF Deserialize, DispatchFails, StoreFails, ContentError
    <3>4. CASE Record(m) \/ NoDispatcher(m) \/ SkipDuplicate(m) \/ WiringDlqUnconfirmed(m)
      BY <2>b, <3>4 DEF Record, NoDispatcher, SkipDuplicate, WiringDlqUnconfirmed
    <3>5. CASE DispatchSucceeds(m)
      <4>1. applied'[current[m]] > 0
        BY <2>a, <3>1, <3>5 DEF DispatchSucceeds
      <4>2. retries' = [retries EXCEPT ![m][current[m]] = 0] /\ 0 \in 0 .. MaxAttempts
        BY <2>a, <3>5 DEF DispatchSucceeds, ClearRetries
      <4> QED
        BY <2>c, <3>1, <4>1, <4>2
    <3>6. CASE WiringDlqConfirmed(m)
      <4>1. current[m] \in parked'
        BY <3>6 DEF WiringDlqConfirmed
      <4>2. CASE ClearRetries(m)
        <5>1. retries' = [retries EXCEPT ![m][current[m]] = 0] /\ 0 \in 0 .. MaxAttempts
          BY <2>a, <4>2 DEF ClearRetries
        <5> QED
          BY <2>c, <3>1, <4>1, <5>1
      <4>3. CASE UNCHANGED retries
        BY <2>b, <4>3
      <4> QED
        BY <3>6, <4>2, <4>3 DEF WiringDlqConfirmed
    <3> QED
      BY <2>1, <3>3, <3>4, <3>5, <3>6 DEF WiringStep
  <2>2. ASSUME NEW m \in Members, OtherCallback(m) \/ BusStep(m)
        PROVE  Kept
    BY <2>b, <2>2 DEF OtherCallback, BusStep, wiring
  <2>3. ASSUME NEW m \in Members, Stops(m)
        PROVE  Kept
    <3>1. phase'[m] = "down" /\ \A n \in Members \ {m} : retries'[n] = retries[n]
      BY <2>3, <2>a DEF Stops, Close, Crash, GoDown
    <3> QED
      BY <3>1
  <2>4. CASE UNCHANGED allVars
    BY <2>4
  <2> HIDE DEF Kept
  <2> QED
    BY <1>1, <2>1, <2>2, <2>3, <2>4 DEF WNext
<1>2. WInit => Typed /\ WiringTyped
  BY TypedInit, WiringTypedInit DEF WInit
<1>3. Typed /\ WiringTyped /\ [WNext]_allVars => (Typed /\ WiringTyped)'
  BY TypedStep, WiringTypedStep, WiringStepIsBusStep
<1> QED
  BY <1>1, <1>2, <1>3, PTL DEF WSpec, BudgetStaysSpent

=============================================================================
