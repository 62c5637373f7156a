----------------------- MODULE GatewayDeliveryProofs -----------------------
(***************************************************************************)
(* Theorems of GatewayDelivery for any directions, any records and any     *)
(* sharing of envelopes among them.                                        *)
(***************************************************************************)
EXTENDS GatewayDelivery, TLAPS

(* Leaving the lock takes it from nobody who holds it.                     *)
LEMMA WithoutKeepsOwner ==
    ASSUME TypeOK, NEW d \in Directions
    PROVE  /\ Without(d) \in Seq(Directions)
           /\ \A e \in Directions \ {d} :
                 Owner(e) => Without(d) # <<>> /\ Head(Without(d)) = e
<1>1. CASE \A i \in DOMAIN lock : lock[i] # d
  BY <1>1 DEF Without, Owner, TypeOK
<1>2. CASE ~ \A i \in DOMAIN lock : lock[i] # d
  <2> DEFINE Place == CHOOSE i \in DOMAIN lock : lock[i] = d
             Rest == [i \in 1 .. Len(lock) - 1 |-> lock[IF i < Place THEN i ELSE i + 1]]
  <2>1. Place \in 1 .. Len(lock) /\ lock[Place] = d
    BY <1>2 DEF TypeOK
  <2>2. Without(d) = Rest
    BY <1>2 DEF Without
  <2> HIDE DEF Place
  <2>3. Rest \in Seq(Directions) /\ Len(Rest) = Len(lock) - 1
    <3>1. lock \in Seq(Directions)
      BY DEF TypeOK
    <3>2. Len(lock) \in Nat /\ Len(lock) > 0 /\ Len(lock) - 1 \in Nat
      BY <2>1, <3>1
    <3>3. \A i \in 1 .. Len(lock) - 1 : Rest[i] \in Directions
      BY <2>1, <3>1, <3>2
    <3> QED
      BY <3>2, <3>3
  <2>4. ASSUME NEW e \in Directions \ {d}, Owner(e)
        PROVE  Rest # <<>> /\ Head(Rest) = e
    <3>1. lock[1] = e /\ Len(lock) > 0
      BY <2>4 DEF Owner, TypeOK
    <3>2. Place > 1
      BY <2>1, <2>4, <3>1
    <3>3. Len(Rest) > 0 /\ Rest[1] = e
      BY <2>1, <2>3, <3>1, <3>2
    <3> HIDE DEF Rest
    <3> QED
      BY <2>3, <3>3
  <2> QED
    BY <2>2, <2>3, <2>4
<1> QED
  BY <1>1, <1>2

(* A record in hand is a record.                                           *)
LEMMA RecordInHand ==
    ASSUME TypeOK, NEW d \in Directions, hand[d] # Nothing
    PROVE  hand[d] \in Offsets(d) /\ Record(d) \in Records /\ InHand(d) \in Envelopes
<1>1. hand[d] \in Offsets(d)
  BY DEF TypeOK
<1>2. Record(d) \in Records
  BY <1>1 DEF Record, Records
<1> QED
  BY <1>1, <1>2, EnvelopeAssumption DEF InHand

(* A loop has no record to leave behind but the one in its hand.           *)
LEMMA UnsettledRecords ==
    ASSUME TypeOK, NEW D \in SUBSET Directions, \A d \in D : hand[d] # Nothing
    PROVE  Unsettled(D) \subseteq Records
  BY RecordInHand DEF Unsettled

(* Another publish of an envelope.                                         *)
LEMMA BumpTyped ==
    ASSUME TypeOK, NEW e \in Envelopes
    PROVE  /\ Bump(e) \in [Envelopes -> 0 .. 2]
           /\ Bump(e)[e] > 0
           /\ \A f \in Envelopes \ {e} : Bump(e)[f] = published[f]
<1>1. published \in [Envelopes -> 0 .. 2]
  BY DEF TypeOK
<1>2. Bump(e)[e] = (IF published[e] = 2 THEN 2 ELSE published[e] + 1)
  BY <1>1 DEF Bump
<1>3. Bump(e)[e] \in 1 .. 2
  BY <1>1, <1>2
<1>4. \A f \in Envelopes \ {e} : Bump(e)[f] = published[f]
  BY <1>1 DEF Bump
<1>5. Bump(e) = [published EXCEPT ![e] = Bump(e)[e]]
  BY <1>1, <1>2 DEF Bump
<1> QED
  BY <1>1, <1>3, <1>4, <1>5

(* What an interrupted await leaves behind has its types.                  *)
LEMMA AftermathTyped ==
    ASSUME TypeOK, NEW d \in Directions, Aftermath(d)
    PROVE  /\ committed' \in [Directions -> Nat]
           /\ \A e \in Directions : committed'[e] <= LogEnd[e]
           /\ marked' \subseteq Envelopes
           /\ published' \in [Envelopes -> 0 .. 2]
           /\ window' \subseteq Envelopes
<1>1. CASE step[d] = "publish"
  <2>1. InHand(d) \in Envelopes
    BY <1>1, RecordInHand DEF TypeOK, Handling
  <2> QED
    BY <1>1, <2>1, BumpTyped DEF Aftermath, durable, TypeOK
<1>2. CASE step[d] = "mark"
  <2>1. InHand(d) \in Envelopes
    BY <1>2, RecordInHand DEF TypeOK, Handling
  <2> QED
    BY <1>2, <2>1 DEF Aftermath, TypeOK
<1>3. CASE step[d] \in {"commit", "discard"}
  <2>1. hand[d] \in Offsets(d)
    BY <1>3, RecordInHand DEF TypeOK, Handling
  <2>2. hand[d] + 1 \in Nat /\ hand[d] + 1 <= LogEnd[d]
    BY <2>1, LogAssumption DEF Offsets
  <2>3. UNCHANGED <<marked, published, window>>
    BY <1>3 DEF Aftermath, durable
  <2>4. committed' \in {committed, [committed EXCEPT ![d] = hand[d] + 1]}
    BY <1>3 DEF Aftermath, durable
  <2> QED
    BY <2>2, <2>3, <2>4 DEF TypeOK
<1>4. CASE step[d] \notin {"publish", "mark", "commit", "discard"}
  BY <1>4 DEF Aftermath, durable, TypeOK
<1> QED
  BY <1>1, <1>2, <1>3, <1>4

(* The loop that leaves, whichever step it goes to.                        *)
LEMMA LeaveTyped ==
    ASSUME TypeOK, NEW d \in Directions, NEW s \in {"poll", "failed", "cancelled"},
           Leave(d, s)
    PROVE  /\ step' \in [Directions -> Steps]
           /\ hand' \in [Directions -> Int]
           /\ lock' \in Seq(Directions)
           /\ \A e \in Directions :
                 /\ hand'[e] \in Offsets(e) \cup {Nothing}
                 /\ hand'[e] # Nothing <=> step'[e] \in Handling \cup {"lock"}
                 /\ step'[e] \in Handling => lock' # <<>> /\ Head(lock') = e
<1>1. ASSUME NEW e \in Directions, step'[e] \in Handling
      PROVE  lock' # <<>> /\ Head(lock') = e
  <2>1. e # d /\ Owner(e)
    BY <1>1 DEF Leave, Goto, Handling, TypeOK
  <2> QED
    BY <2>1, WithoutKeepsOwner DEF Leave
<1>2. lock' \in Seq(Directions)
  BY WithoutKeepsOwner DEF Leave
<1> QED
  BY <1>1, <1>2 DEF Leave, Goto, Handling, Steps, Nothing, TypeOK

(* A fetch into the buffer.                                                *)
LEMMA PrimeTyped ==
    ASSUME TypeOK, NEW d \in Directions, NEW p \in 0 .. LogEnd[d], Prime(d, p)
    PROVE  /\ position' \in [Directions -> Nat]
           /\ buffer' \in [Directions -> SUBSET Nat]
           /\ \A e \in Directions :
                 position'[e] <= LogEnd[e] /\ buffer'[e] \subseteq Offsets(e)
<1>1. PICK k \in p .. LogEnd[d] :
            /\ buffer' = [buffer EXCEPT ![d] = p .. k - 1]
            /\ position' = [position EXCEPT ![d] = k]
  BY DEF Prime
<1>2. LogEnd[d] \in Nat /\ k \in Nat /\ p \in Nat
  BY LogAssumption
<1>3. p .. k - 1 \in SUBSET Nat /\ p .. k - 1 \subseteq Offsets(d)
  BY <1>2 DEF Offsets
<1> QED
  BY <1>1, <1>2, <1>3 DEF TypeOK

(* The next step of the record in hand.                                    *)
LEMMA MoveTyped ==
    ASSUME TypeOK, NEW d \in Directions, NEW s \in Handling, Goto(d, s),
           step[d] \in Handling \/ (step[d] = "lock" /\ Owner(d)),
           UNCHANGED <<hand, lock>>
    PROVE  /\ step' \in [Directions -> Steps]
           /\ \A e \in Directions :
                 /\ hand'[e] # Nothing <=> step'[e] \in Handling \cup {"lock"}
                 /\ step'[e] \in Handling => lock' # <<>> /\ Head(lock') = e
  BY DEF Goto, Owner, TypeOK, Steps, Handling

(* Typed initially.                                                        *)
LEMMA TypedInit == Init => TypeOK
  BY LogAssumption DEF Init, TypeOK, Steps, Handling, Nothing

(* A loop takes a record.                                                  *)
LEMMA PollTyped ==
    ASSUME TypeOK, NEW d \in Directions, Poll(d)
    PROVE  TypeOK'
<1>1. ASSUME NEW n \in Offsets(d), Take(d, n)
      PROVE  /\ step' \in [Directions -> Steps]
             /\ hand' \in [Directions -> Int]
             /\ lock' \in Seq(Directions)
             /\ \A e \in Directions :
                   /\ hand'[e] \in Offsets(e) \cup {Nothing}
                   /\ hand'[e] # Nothing <=> step'[e] \in Handling \cup {"lock"}
                   /\ step'[e] \in Handling => lock' # <<>> /\ Head(lock') = e
  <2>1. n \in Int /\ n # Nothing
    BY LogAssumption DEF Offsets, Nothing
  <2>2. ASSUME NEW e \in Directions, step'[e] \in Handling
        PROVE  lock' # <<>> /\ Head(lock') = e
    <3>1. Owner(e)
      BY <1>1, <2>2 DEF Take, Goto, Handling, TypeOK
    <3> QED
      BY <1>1, <3>1 DEF Take, Owner, TypeOK
  <2>3. lock' \in Seq(Directions)
    BY <1>1 DEF Take, TypeOK
  <2> QED
    BY <1>1, <2>1, <2>2, <2>3 DEF Take, Goto, Steps, Handling, TypeOK
<1>2. CASE buffer[d] # {}
  <2>1. PICK n \in buffer[d] : buffer' = [buffer EXCEPT ![d] = @ \ {n}] /\ Take(d, n)
    BY <1>2 DEF Poll
  <2>2. n \in Offsets(d)
    BY DEF TypeOK
  <2>3. buffer' \in [Directions -> SUBSET Nat]
        /\ \A e \in Directions : buffer'[e] \subseteq Offsets(e)
    BY <2>1 DEF TypeOK
  <2>4. UNCHANGED <<position, durable, consumer, supervisor, history>>
    BY <1>2 DEF Poll
  <2> QED
    BY <1>1, <2>1, <2>2, <2>3, <2>4 DEF durable, history, Owner, TypeOK
<1>3. CASE buffer[d] = {}
  <2>1. position[d] < LogEnd[d] /\ position' = [position EXCEPT ![d] = @ + 1]
        /\ Take(d, position[d])
    BY <1>3 DEF Poll
  <2>2. position[d] \in Nat /\ LogEnd[d] \in Nat
    BY LogAssumption DEF TypeOK
  <2>3. position[d] \in Offsets(d)
    BY <2>1, <2>2 DEF Offsets
  <2>4. position' \in [Directions -> Nat]
        /\ \A e \in Directions : position'[e] <= LogEnd[e]
    BY <2>1, <2>2 DEF TypeOK
  <2>5. UNCHANGED <<buffer, durable, consumer, supervisor, history>>
    BY <1>3 DEF Poll
  <2> QED
    BY <1>1, <2>1, <2>3, <2>4, <2>5 DEF durable, history, Owner, TypeOK
<1> QED
  BY <1>2, <1>3

(* The steps of a record that is in hand.                                  *)
LEMMA HandleTyped ==
    ASSUME TypeOK, NEW d \in Directions,
           Enter(d) \/ Check(d) \/ Publish(d) \/ PublishUnconfirmed(d) \/ Mark(d)
           \/ Quarantine(d)
    PROVE  TypeOK'
<1>1. CASE Enter(d) \/ Check(d) \/ Quarantine(d)
  <2>1. PICK s \in Handling : Goto(d, s)
    BY <1>1 DEF Enter, Check, Quarantine, Handling
  <2>2. step[d] \in Handling \/ (step[d] = "lock" /\ Owner(d))
    BY <1>1 DEF Enter, Check, Quarantine, Handling
  <2>3. UNCHANGED <<durable, hand, lock, transport, supervisor, history>>
    BY <1>1 DEF Enter, Check, Quarantine
  <2> QED
    BY <2>1, <2>2, <2>3, MoveTyped DEF durable, transport, history, Owner, TypeOK
<1>2. CASE Publish(d) \/ PublishUnconfirmed(d)
  <2>1. step[d] = "publish"
    BY <1>2 DEF Publish, PublishUnconfirmed
  <2>2. InHand(d) \in Envelopes
    BY <2>1, RecordInHand DEF Handling, TypeOK
  <2>3. published' \in [Envelopes -> 0 .. 2]
    BY <1>2, <2>2, BumpTyped DEF Publish, PublishUnconfirmed
  <2>4. CASE Publish(d)
    BY <2>1, <2>3, <2>4, MoveTyped
    DEF Publish, durable, transport, Owner, Handling, TypeOK
  <2>5. CASE PublishUnconfirmed(d)
    BY <2>2, <2>3, <2>5
    DEF PublishUnconfirmed, durable, loops, transport, Owner, TypeOK
  <2> QED
    BY <1>2, <2>4, <2>5
<1>3. CASE Mark(d)
  <2>1. InHand(d) \in Envelopes
    BY <1>3, RecordInHand DEF Mark, Handling, TypeOK
  <2> QED
    BY <1>3, <2>1, MoveTyped DEF Mark, transport, history, Owner, Handling, TypeOK
<1> QED
  BY <1>1, <1>2, <1>3

(* A record leaves a hand: it is committed, an await raises, or the        *)
(* watchdog cancels the loop.                                              *)
LEMMA LeavingTyped ==
    ASSUME TypeOK, NEW d \in Directions, Commit(d) \/ Raises(d) \/ WatchdogCancels(d)
    PROVE  TypeOK'
<1>1. CASE Commit(d)
  <2>1. hand[d] + 1 \in Nat /\ hand[d] + 1 <= LogEnd[d]
    <3>1. hand[d] # Nothing
      BY <1>1 DEF Commit, Handling, TypeOK
    <3>2. hand[d] \in Offsets(d)
      BY <3>1, RecordInHand
    <3> QED
      BY <3>2, LogAssumption DEF Offsets
  <2>2. committed' \in [Directions -> Nat]
        /\ \A e \in Directions : committed'[e] <= LogEnd[e]
    BY <1>1, <2>1 DEF Commit, TypeOK
  <2>3. Leave(d, "poll") /\ UNCHANGED <<marked, transport, supervisor, history>>
    BY <1>1 DEF Commit
  <2> QED
    BY <2>2, <2>3, LeaveTyped DEF transport, history, Owner, TypeOK
<1>2. CASE Raises(d)
  <2>1. step[d] \in Handling \cup {"lock"}
    BY <1>2 DEF Raises, Handling
  <2>2. hand[d] \in Offsets(d) /\ hand[d] # Nothing
    BY <2>1, RecordInHand DEF TypeOK
  <2>3. hand[d] \in 0 .. LogEnd[d]
    BY <2>2, LogAssumption DEF Offsets
  <2>4. /\ position' \in [Directions -> Nat]
        /\ buffer' \in [Directions -> SUBSET Nat]
        /\ \A e \in Directions : position'[e] <= LogEnd[e] /\ buffer'[e] \subseteq Offsets(e)
        /\ abandoned' \subseteq Records
    <3>1. CASE step[d] # "discard" /\ consumer[d] = "member"
      <4>1. Prime(d, hand[d]) /\ UNCHANGED abandoned
        BY <1>2, <3>1 DEF Raises
      <4> QED
        BY <2>3, <4>1, PrimeTyped DEF TypeOK
    <3>2. CASE ~(step[d] # "discard" /\ consumer[d] = "member")
      <4>1. abandoned' = abandoned \cup Unsettled({d}) /\ UNCHANGED <<position, buffer>>
        BY <1>2, <3>2 DEF Raises
      <4> QED
        BY <2>2, <4>1, UnsettledRecords DEF TypeOK
    <3> QED
      BY <3>1, <3>2
  <2>5. Aftermath(d) /\ Leave(d, "failed") /\ supervisor' = "backoff" /\ UNCHANGED consumer
    BY <1>2 DEF Raises
  <2> QED
    BY <2>4, <2>5, LeaveTyped, AftermathTyped DEF Owner, TypeOK
<1>3. CASE WatchdogCancels(d)
  <2>1. Aftermath(d) /\ Leave(d, "cancelled") /\ UNCHANGED <<position, supervisor, abandoned>>
    BY <1>3 DEF WatchdogCancels
  <2>2. /\ consumer' \in [Directions -> {"member", "evicted", "gone"}]
        /\ buffer' \in [Directions -> SUBSET Nat]
        /\ \A e \in Directions : buffer'[e] \subseteq Offsets(e)
    BY <1>3 DEF WatchdogCancels, TypeOK
  <2> QED
    BY <2>1, <2>2, LeaveTyped, AftermathTyped DEF Owner, TypeOK
<1> QED
  BY <1>1, <1>2, <1>3

(* The loops start again with nothing in hand.                             *)
LEMMA LoopsStartTyped ==
    ASSUME TypeOK, LoopsStart, AllCut
    PROVE  /\ committed' \in [Directions -> Nat]
           /\ marked' \subseteq Envelopes
           /\ published' \in [Envelopes -> 0 .. 2]
           /\ window' \subseteq Envelopes
           /\ step' \in [Directions -> Steps]
           /\ hand' \in [Directions -> Int]
           /\ lock' \in Seq(Directions)
           /\ \A e \in Directions :
                 /\ committed'[e] <= LogEnd[e]
                 /\ hand'[e] = Nothing
                 /\ step'[e] \notin Handling \cup {"lock"}
<1>1. CASE lock = <<>>
  BY <1>1 DEF LoopsStart, AllCut, durable, Steps, Handling, Nothing, TypeOK
<1>2. CASE lock # <<>>
  <2>1. Head(lock) \in Directions
    BY <1>2 DEF TypeOK
  <2>2. Aftermath(Head(lock))
    BY <1>2 DEF AllCut
  <2> QED
    BY <2>1, <2>2, AftermathTyped DEF LoopsStart, Steps, Handling, Nothing
<1> QED
  BY <1>1, <1>2

(* What happens to a consumer, and the watchdog's new one.                 *)
LEMMA ConsumerTyped ==
    ASSUME TypeOK, NEW d \in Directions,
           PollRaises(d) \/ Evict(d) \/ Rejoin(d) \/ WatchdogRestarts(d)
    PROVE  TypeOK'
<1>1. CASE PollRaises(d)
  BY <1>1
  DEF PollRaises, Goto, durable, transport, history, Owner, Steps, Handling, TypeOK
<1>2. CASE Evict(d)
  BY <1>2 DEF Evict, durable, loops, history, Owner, TypeOK
<1>3. CASE Rejoin(d)
  BY <1>3 DEF Rejoin, durable, loops, history, Owner, TypeOK
<1>4. CASE WatchdogRestarts(d)
  <2>1. committed[d] \in 0 .. LogEnd[d]
    BY LogAssumption DEF TypeOK
  <2>2. Prime(d, committed[d])
    BY <1>4 DEF WatchdogRestarts
  <2>3. consumer' \in [Directions -> {"member", "evicted", "gone"}]
    BY <1>4 DEF WatchdogRestarts, TypeOK
  <2>4. Goto(d, "poll") /\ step[d] = "cancelled"
        /\ UNCHANGED <<durable, hand, lock, supervisor, history>>
    BY <1>4 DEF WatchdogRestarts
  <2> QED
    BY <2>1, <2>2, <2>3, <2>4, PrimeTyped
    DEF Goto, durable, history, Owner, Steps, Handling, TypeOK
<1> QED
  BY <1>1, <1>2, <1>3, <1>4

(* All loops start again, on the old consumers or in a new process.        *)
LEMMA RestartTyped ==
    ASSUME TypeOK, SupervisorRestarts \/ Crash
    PROVE  TypeOK'
<1>1. CASE SupervisorRestarts
  <2> DEFINE Cut == {e \in Directions : hand[e] # Nothing}
  <2>1. Unsettled(Cut) \subseteq Records
    BY UnsettledRecords
  <2>2. AllCut /\ LoopsStart /\ supervisor' = "waiting" /\ UNCHANGED transport
        /\ abandoned' = abandoned \cup Unsettled(Cut)
    BY <1>1 DEF SupervisorRestarts
  <2> HIDE DEF Cut
  <2> QED
    BY <2>1, <2>2, LoopsStartTyped DEF transport, Owner, TypeOK
<1>2. CASE Crash
  <2>1. AllCut /\ LoopsStart /\ supervisor' = "waiting" /\ UNCHANGED abandoned
    BY <1>2 DEF Crash
  <2>2. consumer' = [e \in Directions |-> "member"]
        /\ position' \in [Directions -> UNION {0 .. LogEnd[e] : e \in Directions}]
        /\ (\A e \in Directions : position'[e] \in committed'[e] .. LogEnd[e])
        /\ buffer' = [e \in Directions |-> committed'[e] .. position'[e] - 1]
    BY <1>2 DEF Crash
  <2>3. ASSUME NEW e \in Directions
        PROVE  /\ position'[e] \in Nat /\ position'[e] <= LogEnd[e]
               /\ buffer'[e] \subseteq Nat /\ buffer'[e] \subseteq Offsets(e)
    <3>1. committed'[e] \in Nat /\ LogEnd[e] \in Nat
      BY <2>1, LoopsStartTyped, LogAssumption
    <3>2. position'[e] \in committed'[e] .. LogEnd[e]
          /\ buffer'[e] = committed'[e] .. position'[e] - 1
      BY <2>2
    <3> QED
      BY <3>1, <3>2 DEF Offsets
  <2>4. position' \in [Directions -> Nat] /\ buffer' \in [Directions -> SUBSET Nat]
        /\ consumer' \in [Directions -> {"member", "evicted", "gone"}]
    BY <2>2, <2>3
  <2> QED
    BY <2>1, <2>3, <2>4, LoopsStartTyped DEF Owner, TypeOK
<1> QED
  BY <1>1, <1>2

(* Every step keeps the types.                                             *)
LEMMA TypedStep == TypeOK /\ [Next]_vars => TypeOK'
<1> SUFFICES ASSUME TypeOK, [Next]_vars
             PROVE  TypeOK'
  OBVIOUS
<1>1. ASSUME NEW d \in Directions, Deliver(d) \/ PublishUnconfirmed(d)
      PROVE  TypeOK'
  BY <1>1, PollTyped, HandleTyped, LeavingTyped DEF Deliver
<1>2. ASSUME NEW d \in Directions,
             \/ PollRaises(d) \/ Raises(d) \/ Evict(d) \/ Rejoin(d)
             \/ WatchdogCancels(d) \/ WatchdogRestarts(d)
      PROVE  TypeOK'
  BY <1>2, LeavingTyped, ConsumerTyped
<1>3. CASE SupervisorRestarts \/ Crash
  BY <1>3, RestartTyped
<1>4. ASSUME NEW e \in Envelopes, Expire(e)
      PROVE  TypeOK'
  BY <1>4 DEF Expire, loops, transport, Owner, TypeOK
<1>5. CASE UNCHANGED vars
  BY <1>5 DEF vars, Owner, TypeOK
<1> QED
  BY <1>1, <1>2, <1>3, <1>4, <1>5 DEF Next

(* Every variable keeps its type, a loop has a record in hand exactly at   *)
(* the steps that handle one, and only the lock's holder is past it.       *)
THEOREM TypeCorrect == Spec => []TypeOK
  BY TypedInit, TypedStep, PTL DEF Spec

-----------------------------------------------------------------------------
(* The inductive invariant.  Records that no destination has and no hand   *)
(* let go of: the committed offset, the record in hand, the buffer and the *)
(* fetch position are all in front of each of them.                        *)
Missing(d) == {n \in Offsets(d) : ~Settled(<<d, n>>) /\ <<d, n>> \notin abandoned}

Ahead(d, m) ==
    /\ committed[d] <= m
    /\ hand[d] # Nothing => hand[d] <= m
    /\ \A n \in buffer[d] : m <= n => m \in buffer[d] \/ m = hand[d]
    /\ consumer[d] # "gone" /\ m < position[d] => m \in buffer[d] \/ m = hand[d]

Frontier == \A d \in Directions : \A m \in Missing(d) : Ahead(d, m)

(* What is marked, or is about to be, was published; what is about to be   *)
(* committed is settled.                                                   *)
Backed ==
    /\ \A e \in marked : published[e] > 0
    /\ \A d \in Directions :
          /\ step[d] = "mark" => published[InHand(d)] > 0
          /\ step[d] = "commit" => Settled(Record(d))
          /\ step[d] \in {"quarantine", "discard"} => Record(d) \in Undecodable

(* The holder of the lock publishes only what is not marked, and what was  *)
(* published outside a crash window is marked or about to be.              *)
MarkedOrInHand ==
    /\ \A d \in Directions : step[d] = "publish" => InHand(d) \notin marked
    /\ \A e \in Envelopes : published[e] > 0 =>
          \/ e \in window \/ e \in marked
          \/ \E d \in Directions : step[d] = "mark" /\ InHand(d) = e

GatewayInv == Frontier /\ Backed /\ MarkedOrInHand /\ OncePublished

(* A record keeps its settlement, so the missing ones only get fewer.      *)
Grows ==
    /\ \A e \in Envelopes : published[e] > 0 => published'[e] > 0
    /\ abandoned \subseteq abandoned'

(* Records only cease to be missing.                                       *)
LEMMA MissingShrinks ==
    ASSUME TypeOK, Grows, NEW d \in Directions
    PROVE  Missing(d)' \subseteq Missing(d)
<1> SUFFICES ASSUME NEW n \in Offsets(d), ~Settled(<<d, n>>)', <<d, n>> \notin abandoned'
             PROVE  ~Settled(<<d, n>>) /\ <<d, n>> \notin abandoned
  BY DEF Missing
<1>1. Envelope[<<d, n>>] \in Envelopes
  BY EnvelopeAssumption DEF Records
<1> QED
  BY <1>1 DEF Settled, Grows

(* A direction that nothing happened to stays in front.                    *)
LEMMA OthersAhead ==
    ASSUME TypeOK, Frontier, Grows, NEW d \in Directions,
           committed'[d] = committed[d], hand'[d] = hand[d], buffer'[d] = buffer[d],
           consumer'[d] = consumer[d], position'[d] = position[d],
           NEW m \in Missing(d)'
    PROVE  Ahead(d, m)'
  BY MissingShrinks DEF Frontier, Ahead

(* A missing record has not been settled.                                  *)
LEMMA MissingUnsettled ==
    ASSUME NEW d \in Directions, NEW m \in Missing(d)
    PROVE  m \in Int /\ ~Settled(<<d, m>>)
  BY LogAssumption DEF Missing, Offsets

(* What an await that raises or is cancelled leaves behind: nothing is     *)
(* committed that is missing, and a publish left without a marker is in    *)
(* the crash window.                                                       *)
LEMMA AftermathKeeps ==
    ASSUME TypeOK, GatewayInv, NEW d \in Directions, Aftermath(d)
    PROVE  /\ \A e \in Envelopes : published[e] > 0 => published'[e] > 0
           /\ \A e \in marked' : published'[e] > 0
           /\ \A e \in Envelopes : published'[e] > 0 =>
                 \/ e \in window' \/ e \in marked'
                 \/ \E c \in Directions \ {d} : step[c] = "mark" /\ InHand(c) = e
           /\ \A e \in Envelopes : published'[e] > 1 => e \in window'
           /\ \A c \in Directions : \A m \in Missing(c) : committed'[c] <= m
           /\ \A c \in Directions \ {d} : step[c] = "publish" => InHand(c) \notin marked'
<1>1. CASE step[d] = "publish"
  <2>1. InHand(d) \in Envelopes
    BY <1>1, RecordInHand DEF Handling, TypeOK
  <2>2. published' \in {published, Bump(InHand(d))} /\ UNCHANGED <<committed, marked>>
        /\ window' = window \cup {InHand(d)}
    BY <1>1 DEF Aftermath, durable
  <2>3. ASSUME NEW e \in Envelopes, e # InHand(d)
        PROVE  published'[e] = published[e]
    BY <2>1, <2>2, <2>3, BumpTyped
  <2>4. published[InHand(d)] > 0 => published'[InHand(d)] > 0
    BY <2>1, <2>2, BumpTyped
  <2>5. \A c \in Directions : \A m \in Missing(c) : committed'[c] <= m
    BY <2>2 DEF GatewayInv, Frontier, Ahead
  <2>6. \A e \in marked' : published'[e] > 0
    BY <2>2, <2>3, <2>4 DEF GatewayInv, Backed, TypeOK
  <2>7. \A e \in Envelopes : published'[e] > 1 => e \in window'
    BY <2>2, <2>3 DEF GatewayInv, OncePublished
  <2>8. ASSUME NEW e \in Envelopes, published'[e] > 0
        PROVE  \/ e \in window' \/ e \in marked'
               \/ \E c \in Directions \ {d} : step[c] = "mark" /\ InHand(c) = e
    BY <1>1, <2>2, <2>3, <2>8 DEF GatewayInv, MarkedOrInHand
  <2> QED
    BY <2>2, <2>3, <2>4, <2>5, <2>6, <2>7, <2>8 DEF GatewayInv, MarkedOrInHand
<1>2. CASE step[d] = "mark"
  <2>1. InHand(d) \in Envelopes /\ published[InHand(d)] > 0
    BY <1>2, RecordInHand DEF Handling, TypeOK, GatewayInv, Backed
  <2>2. marked' \in {marked, marked \cup {InHand(d)}} /\ UNCHANGED <<committed, published>>
        /\ window' = window \cup {InHand(d)}
    BY <1>2 DEF Aftermath
  <2>3. \A c \in Directions \ {d} : step[c] # "publish"
    BY <1>2 DEF TypeOK, Handling, Owner
  <2> QED
    BY <1>2, <2>1, <2>2, <2>3
    DEF GatewayInv, Frontier, Ahead, Backed, MarkedOrInHand, OncePublished, TypeOK
<1>3. CASE step[d] \notin {"publish", "mark"}
  <2>1. UNCHANGED <<marked, published, window>>
    BY <1>3 DEF Aftermath, durable
  <2>2. ASSUME NEW c \in Directions, NEW m \in Missing(c)
        PROVE  committed'[c] <= m
    <3>1. committed[c] <= m
      BY DEF GatewayInv, Frontier, Ahead
    <3>2. CASE committed'[c] = committed[c]
      BY <3>1, <3>2
    <3>3. CASE committed'[c] # committed[c]
      <4>1. c = d /\ step[d] \in {"commit", "discard"} /\ committed'[d] = hand[d] + 1
        BY <1>3, <3>3 DEF Aftermath, durable, TypeOK
      <4>2. hand[d] # Nothing /\ hand[d] \in Int
        BY <4>1 DEF TypeOK, Handling
      <4>3. Settled(Record(d))
        BY <4>1 DEF GatewayInv, Backed, Settled
      <4>4. m # hand[d] /\ m \in Int
        BY <4>1, <4>3, MissingUnsettled DEF Record
      <4>5. hand[d] <= m
        BY <4>1, <4>2 DEF GatewayInv, Frontier, Ahead
      <4> QED
        BY <4>1, <4>2, <4>4, <4>5
    <3> QED
      BY <3>2, <3>3
  <2> QED
    BY <1>3, <2>1, <2>2
    DEF GatewayInv, Backed, MarkedOrInHand, OncePublished, TypeOK
<1> QED
  BY <1>1, <1>2, <1>3

(* The loop that leaves its record leaves the store as it must be.         *)
LEMMA LeaveKeeps ==
    ASSUME TypeOK, GatewayInv, NEW d \in Directions, Aftermath(d),
           NEW s \in {"poll", "failed", "cancelled"}, Leave(d, s)
    PROVE  Backed' /\ MarkedOrInHand' /\ OncePublished'
<1>1. /\ step'[d] = s
      /\ \A c \in Directions \ {d} : step'[c] = step[c] /\ hand'[c] = hand[c]
  BY DEF Leave, Goto, TypeOK
<1>2. Backed'
  <2>1. ASSUME NEW c \in Directions \ {d}
        PROVE  /\ step[c] = "mark" => published'[InHand(c)] > 0
               /\ step[c] = "commit" => Settled(Record(c))'
               /\ step[c] \in {"quarantine", "discard"} => Record(c) \in Undecodable
    <3>1. InHand(c)' = InHand(c) /\ Record(c)' = Record(c)
      BY <1>1 DEF InHand, Record
    <3>2. step[c] \in {"mark", "commit"} => InHand(c) \in Envelopes
      BY RecordInHand DEF Handling, TypeOK
    <3> QED
      BY <3>1, <3>2, AftermathKeeps DEF GatewayInv, Backed, Settled, InHand
  <2>2. \A e \in marked' : published'[e] > 0
    BY AftermathKeeps
  <2> QED
    BY <1>1, <2>1, <2>2 DEF Backed, InHand, Record
<1>3. MarkedOrInHand'
  <2>1. ASSUME NEW c \in Directions, step'[c] = "publish"
        PROVE  InHand(c)' \notin marked'
    BY <1>1, <2>1, AftermathKeeps DEF InHand, Record
  <2>2. ASSUME NEW e \in Envelopes, published'[e] > 0
        PROVE  \/ e \in window' \/ e \in marked'
               \/ \E c \in Directions : step'[c] = "mark" /\ InHand(c)' = e
    <3>1. CASE e \in window' \/ e \in marked'
      BY <3>1
    <3>2. CASE ~(e \in window' \/ e \in marked')
      <4>1. PICK c \in Directions \ {d} : step[c] = "mark" /\ InHand(c) = e
        BY <2>2, <3>2, AftermathKeeps
      <4>2. step'[c] = "mark" /\ InHand(c)' = e
        BY <1>1, <4>1 DEF InHand, Record
      <4> QED
        BY <4>2
    <3> QED
      BY <3>1, <3>2
  <2> QED
    BY <2>1, <2>2 DEF MarkedOrInHand
<1>4. OncePublished'
  BY AftermathKeeps DEF OncePublished
<1> QED
  BY <1>2, <1>3, <1>4

(* A loop takes the first missing record, or one before it.                *)
LEMMA PollKeeps ==
    ASSUME TypeOK, GatewayInv, NEW d \in Directions, Poll(d)
    PROVE  GatewayInv'
<1>1. PICK n \in Int :
            /\ Take(d, n)
            /\ \/ /\ n \in buffer[d] /\ (\A k \in buffer[d] : n <= k)
                  /\ buffer' = [buffer EXCEPT ![d] = @ \ {n}]
                  /\ UNCHANGED position
               \/ /\ buffer[d] = {} /\ consumer[d] = "member" /\ n = position[d]
                  /\ position' = [position EXCEPT ![d] = n + 1]
                  /\ UNCHANGED buffer
  <2>1. position[d] \in Int /\ buffer[d] \subseteq Int
    BY DEF TypeOK
  <2> QED
    BY <2>1 DEF Poll
<1>2. /\ UNCHANGED <<committed, marked, consumer, published, window, abandoned>>
      /\ step[d] = "poll" /\ hand[d] = Nothing
  BY DEF Poll, durable, history, Handling, TypeOK
<1>3. /\ step'[d] = "lock" /\ hand'[d] = n
      /\ \A c \in Directions \ {d} : step'[c] = step[c] /\ hand'[c] = hand[c]
  BY <1>1 DEF Take, Goto, TypeOK
<1>4. Grows
  BY <1>2 DEF Grows
<1>5. ASSUME NEW m \in Missing(d)'
      PROVE  Ahead(d, m)'
  <2>1. m \in Missing(d) /\ m \in Int /\ Ahead(d, m)
    BY <1>4, MissingShrinks, MissingUnsettled DEF GatewayInv, Frontier
  <2>2. m \notin buffer[d] => \A k \in buffer[d] : ~(m <= k)
    BY <1>2, <2>1 DEF Ahead, Nothing, Missing, Offsets
  <2>3. CASE n \in buffer[d]
    <3>1. (\A k \in buffer[d] : n <= k) /\ buffer'[d] = buffer[d] \ {n}
          /\ position'[d] = position[d]
      BY <1>1, <2>3 DEF TypeOK
    <3>2. n <= m
      BY <2>1, <2>2, <2>3, <3>1
    <3> QED
      BY <1>2, <1>3, <2>1, <2>3, <3>1, <3>2 DEF Ahead, Missing, Offsets, Nothing, TypeOK
  <2>4. CASE n \notin buffer[d]
    <3>1. buffer'[d] = {} /\ n = position[d] /\ position'[d] = n + 1
          /\ buffer[d] = {} /\ consumer[d] = "member"
      BY <1>1, <2>4 DEF TypeOK
    <3>2. n <= m
      BY <1>2, <2>1, <3>1 DEF Ahead, Missing, Offsets, Nothing
    <3> QED
      BY <1>2, <1>3, <2>1, <3>1, <3>2 DEF Ahead
  <2> QED
    BY <2>3, <2>4
<1>6. Frontier'
  <2>1. ASSUME NEW c \in Directions \ {d}, NEW m \in Missing(c)'
        PROVE  Ahead(c, m)'
    <3>1. buffer'[c] = buffer[c] /\ position'[c] = position[c]
      BY <1>1 DEF TypeOK
    <3> QED
      BY <1>2, <1>3, <1>4, <3>1, OthersAhead DEF GatewayInv
  <2> QED
    BY <1>5, <2>1 DEF Frontier
<1>7. \A c \in Directions : step'[c] \notin {"lock"} =>
         step'[c] = step[c] /\ InHand(c)' = InHand(c) /\ Record(c)' = Record(c)
  BY <1>3 DEF InHand, Record
<1>8. Backed'
  BY <1>2, <1>7 DEF GatewayInv, Backed, Settled
<1>9. MarkedOrInHand' /\ OncePublished'
  <2>1. \A c \in Directions : step[c] = "mark" => step'[c] = "mark" /\ InHand(c)' = InHand(c)
    BY <1>2, <1>3 DEF InHand, Record
  <2> QED
    BY <1>2, <1>7, <2>1 DEF GatewayInv, MarkedOrInHand, OncePublished
<1> QED
  BY <1>6, <1>8, <1>9 DEF GatewayInv

(* Nobody but the holder of the lock is past it.                           *)
LEMMA OneHandles ==
    ASSUME TypeOK, NEW d \in Directions, step[d] \in Handling
    PROVE  \A c \in Directions \ {d} : step[c] \notin Handling
  BY DEF TypeOK, Owner

(* Deciding about a record, and marking it.                                *)
LEMMA DecideKeeps ==
    ASSUME TypeOK, GatewayInv, NEW d \in Directions,
           Enter(d) \/ Check(d) \/ Quarantine(d) \/ Mark(d)
    PROVE  GatewayInv'
<1>1. UNCHANGED <<committed, hand, consumer, position, buffer, published, window, abandoned>>
  BY DEF Enter, Check, Quarantine, Mark, durable, transport, history
<1>2. \A c \in Directions \ {d} : step'[c] = step[c]
  BY DEF Enter, Check, Quarantine, Mark, Goto, TypeOK
<1>3. Frontier'
  BY <1>1, OthersAhead DEF GatewayInv, Frontier, Grows
<1>4. \A c \in Directions : InHand(c)' = InHand(c) /\ Record(c)' = Record(c)
                            /\ (Settled(Record(c)) => Settled(Record(c))')
  BY <1>1 DEF InHand, Record, Settled
<1>5. CASE Enter(d)
  <2>1. marked' = marked /\ step[d] = "lock"
        /\ step'[d] = (IF Record(d) \in Undecodable THEN "quarantine" ELSE "check")
    BY <1>5 DEF Enter, Goto, durable, TypeOK
  <2> QED
    BY <1>1, <1>2, <1>3, <1>4, <2>1 DEF GatewayInv, Backed, MarkedOrInHand, OncePublished
<1>6. CASE Check(d)
  <2>1. marked' = marked /\ step[d] = "check"
        /\ step'[d] = (IF InHand(d) \in marked THEN "commit" ELSE "publish")
    BY <1>6 DEF Check, Goto, durable, TypeOK
  <2>2. InHand(d) \in marked => Settled(Record(d))
    BY DEF GatewayInv, Backed, Settled, InHand
  <2> QED
    BY <1>1, <1>2, <1>3, <1>4, <2>1, <2>2
    DEF GatewayInv, Backed, MarkedOrInHand, OncePublished
<1>7. CASE Quarantine(d)
  <2>1. marked' = marked /\ step[d] = "quarantine" /\ step'[d] = "discard"
    BY <1>7 DEF Quarantine, Goto, durable, TypeOK
  <2> QED
    BY <1>1, <1>2, <1>3, <1>4, <2>1 DEF GatewayInv, Backed, MarkedOrInHand, OncePublished
<1>8. CASE Mark(d)
  <2>1. marked' = marked \cup {InHand(d)} /\ step[d] = "mark" /\ step'[d] = "commit"
    BY <1>8 DEF Mark, Goto, TypeOK
  <2>2. published[InHand(d)] > 0 /\ Settled(Record(d))
    BY <2>1 DEF GatewayInv, Backed, Settled, InHand
  <2>3. \A c \in Directions \ {d} : step[c] \notin Handling
    BY <2>1, OneHandles DEF Handling
  <2>4. Backed'
    BY <1>1, <1>2, <1>4, <2>1, <2>2 DEF GatewayInv, Backed
  <2>5. MarkedOrInHand'
    BY <1>1, <1>2, <1>4, <2>1, <2>3 DEF GatewayInv, MarkedOrInHand, Handling
  <2>6. OncePublished'
    BY <1>1 DEF GatewayInv, OncePublished
  <2> QED
    BY <1>3, <2>4, <2>5, <2>6 DEF GatewayInv
<1> QED
  BY <1>5, <1>6, <1>7, <1>8

(* A publish, confirmed or not.  The holder of the lock found no marker,   *)
(* so unless the envelope is in the crash window this is its first.        *)
LEMMA PublishKeeps ==
    ASSUME TypeOK, GatewayInv, NEW d \in Directions,
           Publish(d) \/ PublishUnconfirmed(d)
    PROVE  GatewayInv'
<1> DEFINE e == InHand(d)
<1>1. /\ step[d] = "publish" /\ published' = Bump(e)
      /\ UNCHANGED <<committed, marked, hand, consumer, position, buffer, abandoned>>
  BY DEF Publish, PublishUnconfirmed, durable, loops, transport
<1>2. e \in Envelopes
  BY <1>1, RecordInHand DEF Handling, TypeOK
<1>3. \A c \in Directions \ {d} : step[c] \notin Handling /\ step'[c] = step[c]
  BY <1>1, OneHandles DEF Publish, PublishUnconfirmed, Goto, loops, Handling, TypeOK
<1>4. /\ published'[e] > 0
      /\ \A f \in Envelopes \ {e} : published'[f] = published[f]
  BY <1>1, <1>2, BumpTyped
<1>5. \A c \in Directions : InHand(c)' = InHand(c) /\ Record(c)' = Record(c)
  BY <1>1 DEF InHand, Record
<1>6. Grows
  BY <1>1, <1>4 DEF Grows
<1>7. Frontier'
  BY <1>1, <1>6, OthersAhead DEF GatewayInv, Frontier
<1>8. \A f \in marked' : published'[f] > 0
  BY <1>1, <1>4 DEF GatewayInv, Backed, TypeOK
<1>9. e \notin marked
  BY <1>1 DEF GatewayInv, MarkedOrInHand
<1>10. CASE Publish(d)
  <2>1. step'[d] = "mark" /\ window' = window
    BY <1>10 DEF Publish, Goto, TypeOK
  <2>2. published'[e] = 1 \/ e \in window
    <3>1. published[e] = 0 \/ e \in window
      <4>1. \A c \in Directions : step[c] # "mark"
        BY <1>1, <1>3 DEF Handling
      <4>2. published[e] > 0 => e \in window
        BY <1>2, <1>9, <4>1 DEF GatewayInv, MarkedOrInHand
      <4>3. published[e] \in 0 .. 2
        BY <1>2 DEF TypeOK
      <4> QED
        BY <4>2, <4>3
    <3>2. published[e] = 0 => Bump(e)[e] = 1
      BY <1>2 DEF Bump, TypeOK
    <3> QED
      BY <1>1, <3>1, <3>2
  <2>3. Backed'
    BY <1>3, <1>4, <1>5, <1>8, <2>1 DEF Backed, Handling
  <2>4. MarkedOrInHand'
    BY <1>1, <1>2, <1>3, <1>4, <1>5, <2>1 DEF GatewayInv, MarkedOrInHand, Handling
  <2>5. OncePublished'
    BY <1>4, <2>1, <2>2 DEF GatewayInv, OncePublished
  <2> QED
    BY <1>7, <2>3, <2>4, <2>5 DEF GatewayInv
<1>11. CASE PublishUnconfirmed(d)
  <2>1. step' = step /\ window' = window \cup {e}
    BY <1>11 DEF PublishUnconfirmed, loops
  <2>2. Backed'
    BY <1>1, <1>3, <1>5, <1>8, <2>1 DEF Backed, Handling
  <2>3. MarkedOrInHand'
    BY <1>1, <1>2, <1>3, <1>4, <1>5, <2>1 DEF GatewayInv, MarkedOrInHand, Handling
  <2>4. OncePublished'
    BY <1>4, <2>1 DEF GatewayInv, OncePublished
  <2> QED
    BY <1>7, <2>2, <2>3, <2>4 DEF GatewayInv
<1> QED
  BY <1>10, <1>11

(* After a fetch from some offset on, whatever is missing from there on is *)
(* buffered or still to be fetched.                                        *)
LEMMA PrimeAhead ==
    ASSUME TypeOK, NEW d \in Directions, NEW p \in Nat, Prime(d, p),
           NEW m \in Int, p <= m
    PROVE  /\ \A n \in buffer'[d] : m <= n => m \in buffer'[d]
           /\ m < position'[d] => m \in buffer'[d]
<1>1. PICK k \in p .. LogEnd[d] : buffer'[d] = p .. k - 1 /\ position'[d] = k
  BY DEF Prime, TypeOK
<1>2. k \in Int
  BY LogAssumption
<1> QED
  BY <1>1, <1>2

(* A record that leaves a hand is committed, fetched again, or let go of.  *)
LEMMA LeavingKeeps ==
    ASSUME TypeOK, GatewayInv, NEW d \in Directions,
           Commit(d) \/ Raises(d) \/ WatchdogCancels(d)
    PROVE  GatewayInv'
<1>1. Aftermath(d) /\ \E s \in {"poll", "failed", "cancelled"} : Leave(d, s)
  BY DEF Commit, Raises, WatchdogCancels, Aftermath, history
<1>2. hand'[d] = Nothing /\ \A c \in Directions \ {d} : hand'[c] = hand[c]
  BY <1>1 DEF Leave, TypeOK
<1>3. abandoned \subseteq abandoned'
  BY DEF Commit, Raises, WatchdogCancels, history
<1>4. Grows
  BY <1>1, <1>3, AftermathKeeps DEF Grows
<1>5. ASSUME NEW c \in Directions, NEW m \in Missing(c)'
      PROVE  m \in Missing(c) /\ m \in Int /\ Ahead(c, m) /\ committed'[c] <= m
  BY <1>1, <1>4, MissingShrinks, MissingUnsettled, AftermathKeeps DEF GatewayInv, Frontier
<1>6. \A c \in Directions \ {d} : buffer'[c] = buffer[c] /\ position'[c] = position[c]
                                  /\ consumer'[c] = consumer[c]
  BY DEF Commit, Raises, WatchdogCancels, transport, Prime, TypeOK
<1>7. ASSUME NEW c \in Directions \ {d}, NEW m \in Missing(c)'
      PROVE  Ahead(c, m)'
  BY <1>2, <1>5, <1>6 DEF Ahead
<1>8. ASSUME NEW m \in Missing(d)'
      PROVE  Ahead(d, m)'
  <2>1. CASE Commit(d)
    <3>1. Settled(Record(d)) /\ UNCHANGED transport
      BY <2>1 DEF Commit, GatewayInv, Backed, Settled
    <3>2. m # hand[d]
      BY <1>5, <3>1, MissingUnsettled DEF Record
    <3> QED
      BY <1>2, <1>5, <3>1, <3>2 DEF Ahead, transport
  <2>2. CASE Raises(d) /\ step[d] # "discard" /\ consumer[d] = "member"
    <3>1. hand[d] # Nothing
      BY <2>2 DEF Raises, Handling, TypeOK
    <3>2. hand[d] \in Nat /\ hand[d] <= m
      BY <1>5, <3>1, RecordInHand DEF Ahead, Offsets
    <3>3. Prime(d, hand[d])
      BY <2>2 DEF Raises
    <3> QED
      BY <1>2, <1>5, <3>2, <3>3, PrimeAhead DEF Ahead
  <2>3. CASE Raises(d) /\ ~(step[d] # "discard" /\ consumer[d] = "member")
    <3>1. UNCHANGED transport /\ abandoned' = abandoned \cup Unsettled({d})
      BY <2>3 DEF Raises, transport
    <3>2. m # hand[d]
      <4>1. ASSUME m = hand[d]
            PROVE  <<d, m>> \in abandoned'
        BY <1>5, <3>1, <4>1, MissingUnsettled DEF Unsettled, Record
      <4> QED
        BY <4>1 DEF Missing
    <3> QED
      BY <1>2, <1>5, <3>1, <3>2 DEF Ahead, transport
  <2>4. CASE WatchdogCancels(d)
    <3>1. buffer'[d] = {} /\ consumer'[d] = "gone"
      BY <2>4 DEF WatchdogCancels, TypeOK
    <3> QED
      BY <1>2, <1>5, <3>1 DEF Ahead
  <2> QED
    BY <2>1, <2>2, <2>3, <2>4
<1>9. Frontier'
  BY <1>7, <1>8 DEF Frontier
<1> QED
  BY <1>1, <1>9, LeaveKeeps DEF GatewayInv

(* What happens to a consumer: its fetch position goes back to the         *)
(* committed offset, before everything missing.                            *)
LEMMA ConsumerKeeps ==
    ASSUME TypeOK, GatewayInv, NEW d \in Directions,
           PollRaises(d) \/ Evict(d) \/ Rejoin(d) \/ WatchdogRestarts(d)
    PROVE  GatewayInv'
<1>1. UNCHANGED <<committed, marked, hand, published, window, abandoned>>
  BY DEF PollRaises, Evict, Rejoin, WatchdogRestarts, durable, loops, history
<1>2. \A c \in Directions : step'[c] = step[c] \/ step'[c] \in {"failed", "poll"}
  BY DEF PollRaises, Evict, Rejoin, WatchdogRestarts, loops, Goto, TypeOK
<1>3. Grows
  BY <1>1 DEF Grows
<1>4. ASSUME NEW c \in Directions, NEW m \in Missing(c)'
      PROVE  m \in Missing(c) /\ m \in Int /\ Ahead(c, m)
  BY <1>3, MissingShrinks, MissingUnsettled DEF GatewayInv, Frontier
<1>5. ASSUME NEW c \in Directions \ {d}, NEW m \in Missing(c)'
      PROVE  Ahead(c, m)'
  <2>1. buffer'[c] = buffer[c] /\ position'[c] = position[c] /\ consumer'[c] = consumer[c]
    BY DEF PollRaises, Evict, Rejoin, WatchdogRestarts, transport, Prime, TypeOK
  <2> QED
    BY <1>1, <1>4, <2>1 DEF Ahead
<1>6. ASSUME NEW m \in Missing(d)'
      PROVE  Ahead(d, m)'
  <2>1. CASE PollRaises(d)
    BY <1>1, <1>4, <2>1 DEF PollRaises, transport, Ahead
  <2>2. CASE Evict(d)
    <3>1. consumer[d] = "member" /\ UNCHANGED <<position, buffer>>
      BY <2>2 DEF Evict
    <3> QED
      BY <1>1, <1>4, <3>1 DEF Ahead
  <2>3. CASE Rejoin(d)
    <3>1. position'[d] = committed[d] /\ buffer' = buffer
      BY <2>3 DEF Rejoin, TypeOK
    <3>2. committed[d] \in Nat
      BY DEF TypeOK
    <3> QED
      BY <1>1, <1>4, <3>1, <3>2 DEF Ahead
  <2>4. CASE WatchdogRestarts(d)
    <3>1. Prime(d, committed[d])
      BY <2>4 DEF WatchdogRestarts
    <3>2. committed[d] \in Nat /\ committed[d] <= m
      BY <1>4 DEF Ahead, TypeOK
    <3> QED
      BY <1>1, <1>4, <3>1, <3>2, PrimeAhead DEF Ahead
  <2> QED
    BY <2>1, <2>2, <2>3, <2>4
<1>7. Frontier'
  BY <1>5, <1>6 DEF Frontier
<1>8. Backed' /\ OncePublished'
  BY <1>1, <1>2 DEF GatewayInv, Backed, OncePublished, InHand, Record, Settled
<1>9. MarkedOrInHand'
  <2>1. \A c \in Directions : step[c] = "mark" => step'[c] = "mark"
    BY DEF PollRaises, Evict, Rejoin, WatchdogRestarts, loops, Goto, TypeOK
  <2> QED
    BY <1>1, <1>2, <2>1 DEF GatewayInv, MarkedOrInHand, InHand, Record
<1> QED
  BY <1>7, <1>8, <1>9 DEF GatewayInv

(* All tasks are cut: only the holder of the lock leaves anything behind.  *)
LEMMA AllCutKeeps ==
    ASSUME TypeOK, GatewayInv, AllCut
    PROVE  /\ \A e \in Envelopes : published[e] > 0 => published'[e] > 0
           /\ \A e \in marked' : published'[e] > 0
           /\ \A e \in Envelopes : published'[e] > 0 => e \in window' \/ e \in marked'
           /\ \A e \in Envelopes : published'[e] > 1 => e \in window'
           /\ \A c \in Directions : \A m \in Missing(c) : committed'[c] <= m
<1>1. CASE lock = <<>>
  <2>1. UNCHANGED <<committed, marked, published, window>>
    BY <1>1 DEF AllCut, durable
  <2>2. \A c \in Directions : step[c] # "mark"
    BY <1>1 DEF TypeOK, Owner, Handling
  <2> QED
    BY <2>1, <2>2
    DEF GatewayInv, Frontier, Ahead, Backed, MarkedOrInHand, OncePublished
<1>2. CASE lock # <<>>
  <2> DEFINE h == Head(lock)
  <2>1. h \in Directions /\ Aftermath(h)
    BY <1>2 DEF AllCut, TypeOK
  <2>2. \A c \in Directions \ {h} : step[c] # "mark"
    BY DEF TypeOK, Owner, Handling
  <2> HIDE DEF h
  <2> QED
    BY <2>1, <2>2, AftermathKeeps
<1> QED
  BY <1>1, <1>2

(* All loops start again, on the old consumers or in a new process.        *)
LEMMA RestartKeeps ==
    ASSUME TypeOK, GatewayInv, SupervisorRestarts \/ Crash
    PROVE  GatewayInv'
<1>1. AllCut /\ LoopsStart /\ abandoned \subseteq abandoned'
  BY DEF SupervisorRestarts, Crash
<1>2. \A c \in Directions : step'[c] = "poll" /\ hand'[c] = Nothing
  BY <1>1 DEF LoopsStart
<1>3. Grows
  BY <1>1, AllCutKeeps DEF Grows
<1>4. ASSUME NEW c \in Directions, NEW m \in Missing(c)'
      PROVE  m \in Missing(c) /\ m \in Int /\ Ahead(c, m) /\ committed'[c] <= m
  BY <1>1, <1>3, MissingShrinks, MissingUnsettled, AllCutKeeps DEF GatewayInv, Frontier
<1>5. ASSUME NEW c \in Directions, NEW m \in Missing(c)'
      PROVE  Ahead(c, m)'
  <2>1. CASE SupervisorRestarts
    <3> DEFINE Cut == {e \in Directions : hand[e] # Nothing}
    <3>1. UNCHANGED transport /\ abandoned' = abandoned \cup Unsettled(Cut)
      BY <2>1 DEF SupervisorRestarts
    <3>2. m # hand[c]
      <4>1. ASSUME m = hand[c]
            PROVE  <<c, m>> \in abandoned'
        <5>1. c \in Cut /\ ~Settled(Record(c)) /\ Record(c) = <<c, m>>
          BY <1>4, <4>1, MissingUnsettled DEF Missing, Offsets, Nothing, Record
        <5> QED
          BY <3>1, <5>1 DEF Unsettled
      <4> QED
        BY <4>1 DEF Missing
    <3> QED
      BY <1>2, <1>4, <3>1, <3>2 DEF Ahead, transport
  <2>2. CASE Crash
    <3>1. position'[c] \in committed'[c] .. LogEnd[c]
          /\ buffer'[c] = committed'[c] .. position'[c] - 1
      BY <2>2 DEF Crash
    <3>2. committed'[c] \in Nat /\ LogEnd[c] \in Nat
      BY <1>1, LoopsStartTyped, LogAssumption
    <3> QED
      BY <1>2, <1>4, <3>1, <3>2 DEF Ahead
  <2> QED
    BY <2>1, <2>2
<1>6. Frontier'
  BY <1>5 DEF Frontier
<1>7. Backed' /\ MarkedOrInHand' /\ OncePublished'
  BY <1>1, <1>2, AllCutKeeps DEF Backed, MarkedOrInHand, OncePublished
<1> QED
  BY <1>6, <1>7 DEF GatewayInv

(* The invariant holds initially.                                          *)
LEMMA InvInit == Init => GatewayInv
  BY LogAssumption
  DEF Init, GatewayInv, Frontier, Ahead, Missing, Offsets, Backed, MarkedOrInHand,
      OncePublished, Nothing

(* Every step keeps the invariant.                                         *)
LEMMA InvStep == TypeOK /\ GatewayInv /\ [Next]_vars => GatewayInv'
<1> SUFFICES ASSUME TypeOK, GatewayInv, [Next]_vars
             PROVE  GatewayInv'
  OBVIOUS
<1>1. ASSUME NEW d \in Directions, Deliver(d) \/ PublishUnconfirmed(d)
      PROVE  GatewayInv'
  BY <1>1, PollKeeps, DecideKeeps, PublishKeeps, LeavingKeeps DEF Deliver
<1>2. ASSUME NEW d \in Directions,
             \/ PollRaises(d) \/ Raises(d) \/ Evict(d) \/ Rejoin(d)
             \/ WatchdogCancels(d) \/ WatchdogRestarts(d)
      PROVE  GatewayInv'
  BY <1>2, LeavingKeeps, ConsumerKeeps
<1>3. CASE SupervisorRestarts \/ Crash
  BY <1>3, RestartKeeps
<1>4. ASSUME NEW e \in Envelopes, Expire(e)
      PROVE  GatewayInv'
  <2>1. /\ marked' = marked \ {e} /\ window' = window \cup {e}
        /\ UNCHANGED <<committed, step, hand, consumer, position, buffer, published, abandoned>>
    BY <1>4 DEF Expire, loops, transport
  <2>2. Frontier'
    BY <2>1, OthersAhead DEF GatewayInv, Frontier, Grows
  <2>3. Backed'
    BY <2>1 DEF GatewayInv, Backed, InHand, Record, Settled
  <2>4. MarkedOrInHand'
    BY <2>1 DEF GatewayInv, MarkedOrInHand, InHand, Record
  <2> QED
    BY <2>1, <2>2, <2>3, <2>4 DEF GatewayInv, OncePublished
<1>5. CASE UNCHANGED vars
  <2>1. Frontier'
    BY <1>5, OthersAhead DEF GatewayInv, Frontier, Grows, vars
  <2> QED
    BY <1>5, <2>1
    DEF GatewayInv, Backed, MarkedOrInHand, OncePublished, InHand, Record, Settled, vars
<1> QED
  BY <1>1, <1>2, <1>3, <1>4, <1>5 DEF Next

(* What the invariant says of a commit.                                    *)
LEMMA FrontierAcknowledges == TypeOK /\ Frontier => Acknowledged
<1> SUFFICES ASSUME TypeOK, Frontier, NEW r \in Records, r[2] < committed[r[1]],
                    ~Settled(r), r \notin abandoned
             PROVE  FALSE
  BY DEF Acknowledged
<1>1. PICK d \in Directions : r \in {d} \X Offsets(d)
  BY DEF Records
<1>2. PICK n \in Offsets(d) : r = <<d, n>>
  BY <1>1
<1>3. n \in Missing(d) /\ n < committed[d]
  BY <1>2 DEF Missing
<1>4. n \in Int /\ committed[d] \in Int
  BY LogAssumption DEF Offsets, TypeOK
<1> QED
  BY <1>3, <1>4 DEF Frontier, Ahead

(* The invariant holds in every reachable state.                           *)
LEMMA AlwaysInv == Spec => [](TypeOK /\ GatewayInv)
<1>1. Init => TypeOK /\ GatewayInv
  BY TypedInit, InvInit
<1>2. TypeOK /\ GatewayInv /\ [Next]_vars => TypeOK' /\ GatewayInv'
  BY TypedStep, InvStep
<1> QED
  BY <1>1, <1>2, PTL DEF Spec

(* Whatever is evicted, cancelled, restarted or crashed: the committed     *)
(* offset of _deliver_message_locked passes no unsettled record but one    *)
(* let go of without a nack.                                               *)
THEOREM AcknowledgedCorrect == Spec => []Acknowledged
<1>1. TypeOK /\ GatewayInv => Acknowledged
  BY FrontierAcknowledges DEF GatewayInv
<1> QED
  BY <1>1, AlwaysInv, PTL

(* With is_processed before and the marker after a publish, under one      *)
(* lock: an envelope is published twice only through the crash window.     *)
THEOREM OncePublishedCorrect == Spec => []OncePublished
<1>1. TypeOK /\ GatewayInv => OncePublished
  BY DEF GatewayInv
<1> QED
  BY <1>1, AlwaysInv, PTL

=============================================================================
