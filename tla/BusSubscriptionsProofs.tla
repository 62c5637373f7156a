------------------------ MODULE BusSubscriptionsProofs ------------------------
(***************************************************************************)
(* Theorems of BusSubscriptions for any number of subscriptions, consumers *)
(* and retries.                                                            *)
(***************************************************************************)
EXTENDS BusSubscriptions, FiniteSetTheorems, TLAPS

(* The inductive invariant, clause by clause.                              *)

(* The bus is up only when it is not closing or closed, and close() runs   *)
(* only on a bus it has taken down.                                        *)
Flags ==
    /\ started => ~shutdown
    /\ closer # "idle" => shutdown

(* Consumers are numbered in the order in which they are made; a loop      *)
(* belongs to a consumer that has joined, and only a loop is cancelled.    *)
Numbered ==
    /\ \A i \in Consumers : i > made => consumer[i] = "none"
    /\ \A i \in Consumers : loop[i] # "none" => consumer[i] \in {"live", "stopped"}
    /\ \A i \in cancelled : loop[i] # "none"

(* Who joins has a consumer of its own, which has not joined yet.          *)
Joins ==
    /\ \A x \in Callers : place[x] = "joining" =>
          mine[x] \in Consumers /\ consumer[mine[x]] = "joining" /\ loop[mine[x]] = "none"
    /\ \A x, y \in Callers :
          place[x] = "joining" /\ place[y] = "joining" /\ mine[x] = mine[y] => x = y

(* The registered consumer is live, and is not the one that unsubscribe()  *)
(* or close() has taken out to stop it.                                    *)
Taken(i) == i # None => i # registered /\ consumer[i] \in {"live", "stopped"}

Registered ==
    /\ registered # None => consumer[registered] = "live"
    /\ \A s \in Subs : place[s] = "stopping" => Taken(mine[s])
    /\ closer = "stopping" => Taken(victim)

(* Before a second try of start_consuming() one caller joins at a time,    *)
(* with the reservation, for a key without a consumer.                     *)
OneJoin ==
    ~retried =>
       /\ place[Runner] # "again"
       /\ \A x \in Callers : place[x] = "joining" => pending /\ registered = None
       /\ \A x, y \in Callers : place[x] = "joining" /\ place[y] = "joining" => x = y

(* A reservation is held by somebody, or was left behind by a join that    *)
(* was given up.                                                           *)
Reserved == pending => Joining \/ leaked

(* Who waits for a loop waits for one that has ended or is cancelled.      *)
Awaited(i) == i # None => loop[i] = "ended" \/ i \in cancelled

AwaitedEnd ==
    /\ task # None => loop[task] # "none"
    /\ \A s \in Subs : place[s] = "leaving" => Awaited(mine[s])
    /\ closer = "cancelling" => Awaited(victim)

(* What close() has still to stop did not join while it was closing.       *)
Closing ==
    ~retried /\ closer = "stopping" =>
       \A i \in Live \ late :
          \/ i = victim
          \/ \E s \in Subs : place[s] = "stopping" /\ mine[s] = i

(* On a closed bus only a late consumer is registered.                     *)
LateOnly ==
    shutdown /\ registered # None /\ registered \notin late =>
       closer \in {"cancelling", "collecting"}

(* On an open bus the loop of the registered consumer runs and reads from  *)
(* it, unless it broke or unsubscribe() has just cancelled it.             *)
Running ==
    (~shutdown /\ registered # None /\ registered \notin late \cup broken
        /\ \A s \in Subs : place[s] # "leaving") =>
       /\ loop[registered] \in {"created", "polling", "acquiring"}
       /\ registered \notin cancelled
       /\ loop[registered] # "created" => reads[registered] = registered

(* A subscription has a consumer or somebody who is getting it one; those  *)
(* made on a bus that is down, counting on a join that failed, or finding  *)
(* only the reservation of one that was given up, are excused.             *)
Expected ==
    /\ \A s \in Subs : place[s] \in {"leaving", "stopping"} => subscribers = {}
    /\ started /\ ~Joining /\ registered = None => subscribers \subseteq excused
    /\ ~started /\ closer = "idle" => subscribers \subseteq excused

SubsInv ==
    /\ Flags /\ Numbered /\ Joins /\ Registered /\ OneJoin /\ Reserved
    /\ AwaitedEnd /\ NoStrayConsumer /\ Closing /\ ClosedForGood
    /\ LateOnly /\ Running /\ Expected

-----------------------------------------------------------------------------
(* Types.                                                                  *)

(* Who is who.                                                             *)
LEMMA CallersAre ==
    /\ Runner \in Callers
    /\ \A s \in Subs : s \in Callers /\ s # Runner /\ s # Nobody
    /\ \A x \in Callers : x # Runner => x \in Subs
    /\ None \notin Consumers
BY RunnerAssumption DEF Callers, None, Consumers

(* Beginning a join makes one consumer more.                               *)
LEMMA BeginJoinTyped ==
    ASSUME TypeOK, NEW x \in Callers, BeginJoin(x)
    PROVE  /\ made' \in 0 .. MaxConsumers
           /\ made' \in Consumers
           /\ made' > made
           /\ consumer' \in [Consumers -> {"none", "joining", "live", "stopped"}]
           /\ place' \in [Callers -> Places]
           /\ mine' \in [Callers -> Consumers \cup {None}]
<1>1. made' \in Consumers /\ made' \in 0 .. MaxConsumers /\ made' > made
  BY BoundsAssumption DEF BeginJoin, TypeOK, Consumers
<1> QED
  BY <1>1 DEF BeginJoin, TypeOK, Places

(* Starting a join is well typed, wherever it is started.                  *)
LEMMA BeginJoinKeepsTypes ==
    ASSUME TypeOK, NEW x \in Callers, BeginJoin(x),
           place[x] \notin {"leaving", "stopping"},
           subscribers' \subseteq Subs, pending' \in BOOLEAN,
           UNCHANGED <<started, shutdown, registered, task, lock, loopVars, retries,
                       closeVars, observed>>
    PROVE  TypeOK'
<1>1. \A s \in Subs : lock' = s <=> place'[s] \in {"leaving", "stopping"}
  BY CallersAre DEF TypeOK, BeginJoin
<1>2. /\ started' \in BOOLEAN /\ shutdown' \in BOOLEAN
      /\ registered' \in Consumers \cup {None} /\ task' \in Consumers \cup {None}
      /\ lock' \in Subs \cup {Nobody} /\ retries' \in 0 .. MaxRetries
  BY DEF TypeOK
<1>3. /\ loop' \in [Consumers -> {"none", "created", "polling", "acquiring", "ended"}]
      /\ reads' \in [Consumers -> Consumers \cup {None}]
      /\ cancelled' \subseteq Consumers
      /\ closer' \in {"idle", "cancelling", "collecting", "stopping"}
      /\ victim' \in Consumers \cup {None}
  BY DEF TypeOK, loopVars, closeVars
<1>4. /\ late' \subseteq Consumers /\ retried' \in BOOLEAN /\ leaked' \in BOOLEAN
      /\ excused' \subseteq Subs /\ broken' \subseteq Consumers
  BY DEF TypeOK, observed
<1> QED
  BY <1>1, <1>2, <1>3, <1>4, BeginJoinTyped DEF TypeOK

(* Every step keeps the types.                                             *)
LEMMA TypeStep == TypeOK /\ Joins /\ [Next]_vars => TypeOK'
<1> SUFFICES ASSUME TypeOK, Joins, [Next]_vars
             PROVE  TypeOK'
  OBVIOUS
<1> USE CallersAre
    DEF TypeOK, Places, busVars, consumerVars, loopVars, callerVars, closeVars, observed
<1>1. CASE Open
  BY <1>1 DEF Open
<1>2. CASE StartConsuming
  BY <1>2 DEF StartConsuming
<1>3. CASE Collect
  <2>1. CASE Unreserved /\ subscribers # {}
    BY <1>3, <2>1, BeginJoinKeepsTypes DEF Collect
  <2>2. CASE ~(Unreserved /\ subscribers # {})
    BY <1>3, <2>2 DEF Collect
  <2> QED
    BY <1>3, <2>1, <2>2 DEF Collect
<1>4. CASE TryAgain
  BY <1>4, BeginJoinKeepsTypes DEF TryAgain
<1>5. CASE Close
  BY <1>5 DEF Close, Cancel, LoopEnded
<1>6. CASE CloseStep
  BY <1>6 DEF CloseStep, CloseForgetsLoops, CloseForgetsConsumers, Closed, StopIfAny
<1>7. ASSUME NEW x \in Callers, Joined(x) \/ JoinFails(x), mine[x] # None
      PROVE  TypeOK'
  <2>1. CASE Joined(x)
    BY <1>7, <2>1 DEF Joined
  <2>2. CASE JoinFails(x)
    BY <1>7, <2>2 DEF JoinFails
  <2> QED
    BY <1>7, <2>1, <2>2
<1>8. ASSUME NEW x \in Callers, CleanedUp(x)
      PROVE  TypeOK'
  <2>1. place' \in [Callers -> Places] /\ \A t \in Subs : place'[t] # place[t] =>
           place[t] = "cleaning" /\ place'[t] = "failed"
    BY <1>8 DEF CleanedUp
  <2>2. retries' \in 0 .. MaxRetries
    BY <1>8, BoundsAssumption DEF CleanedUp
  <2>3. mine' \in [Callers -> Consumers \cup {None}] /\ pending' \in BOOLEAN
        /\ retried' \in BOOLEAN
    BY <1>8 DEF CleanedUp
  <2> QED
    BY <1>8, <2>1, <2>2, <2>3 DEF CleanedUp
<1>9. ASSUME NEW i \in Consumers, LoopStep(i) \/ LoopDies(i)
      PROVE  TypeOK'
  BY <1>9 DEF LoopStep, LoopBegins, LoopReads, LoopAcquires, LoopCancelled, LoopDies
<1>10. ASSUME NEW s \in Subs, Subscribe(s)
       PROVE  TypeOK'
  <2>1. CASE Unreserved /\ started
    BY <1>10, <2>1, BeginJoinKeepsTypes DEF Subscribe
  <2>2. CASE ~(Unreserved /\ started)
    BY <1>10, <2>2 DEF Subscribe
  <2> QED
    BY <1>10, <2>1, <2>2 DEF Subscribe
<1>11. ASSUME NEW s \in Subs, Unsubscribe(s)
       PROVE  TypeOK'
  BY <1>11 DEF Unsubscribe, Cancel, LoopEnded
<1>12. ASSUME NEW s \in Subs, Leave(s)
       PROVE  TypeOK'
  BY <1>12 DEF Leave, Unregister, Unsubscribed, StopIfAny
<1>13. CASE UNCHANGED vars
  BY <1>13 DEF vars
<1>14. \A x \in Callers : Joined(x) \/ JoinFails(x) => mine[x] # None
  BY DEF Joins, Joined, JoinFails
<1>15. ASSUME NEW x \in Callers, JoinAbandoned(x)
       PROVE  TypeOK'
  <2>1. /\ place' \in [Callers -> Places] /\ UNCHANGED lock
        /\ \A t \in Subs : place'[t] # place[t] =>
              place[t] \in {"joining", "again"} /\ place'[t] = "failed"
    BY <1>15 DEF JoinAbandoned
  <2>2. /\ consumer' \in [Consumers -> {"none", "joining", "live", "stopped"}]
        /\ mine' \in [Callers -> Consumers \cup {None}]
    BY <1>15 DEF JoinAbandoned
  <2>3. leaked' \in BOOLEAN /\ excused' \subseteq Subs
    BY <1>15 DEF JoinAbandoned
  <2> QED
    BY <1>15, <2>1, <2>2, <2>3 DEF JoinAbandoned
<1>16. ASSUME NEW x \in Callers, JoinEnds(x)
       PROVE  TypeOK'
  BY <1>7, <1>8, <1>14, <1>15, <1>16 DEF JoinEnds
<1> HIDE DEF TypeOK, Places, busVars, consumerVars, loopVars, callerVars, closeVars, observed
<1> QED
  BY <1>1, <1>2, <1>3, <1>4, <1>5, <1>6, <1>9, <1>10, <1>11, <1>12, <1>13, <1>16 DEF Next

-----------------------------------------------------------------------------
(* Every step keeps every clause.                                          *)

(* A new consumer takes the next number.                                   *)
LEMMA MadeKeepsNumbers ==
    ASSUME TypeOK, Numbered, NEW x \in Callers, BeginJoin(x), UNCHANGED loopVars
    PROVE  Numbered'
<1> USE DEF TypeOK, Numbered, loopVars
<1>1. made' \in Consumers /\ made' = made + 1 /\ made \in Nat
  <2>1. made' \in Consumers
    BY BeginJoinTyped
  <2>2. made' = made + 1
    BY DEF BeginJoin
  <2> QED
    BY <2>1, <2>2
<1>2. consumer' = [consumer EXCEPT ![made'] = "joining"]
  BY DEF BeginJoin
<1>3. consumer[made'] = "none" /\ loop[made'] = "none"
  BY <1>1 DEF Consumers
<1>4. \A i \in Consumers : i > made' => i > made /\ i # made'
  BY <1>1 DEF Consumers
<1>5. \A i \in Consumers : i > made' => consumer'[i] = "none"
  BY <1>1, <1>2, <1>4
<1>6. \A i \in Consumers : i # made' => consumer'[i] = consumer[i]
  BY <1>2
<1>7. \A i \in Consumers : loop'[i] # "none" => consumer'[i] \in {"live", "stopped"}
  BY <1>3, <1>6
<1> QED
  BY <1>5, <1>7

(* The flags.                                                              *)
LEMMA FlagsStep == TypeOK /\ SubsInv /\ [Next]_vars => Flags'
<1> SUFFICES ASSUME TypeOK, SubsInv, [Next]_vars
             PROVE  Flags'
  OBVIOUS
<1> USE CallersAre, BeginJoinTyped
    DEF TypeOK, SubsInv, Flags, busVars, consumerVars, loopVars, callerVars, closeVars,
        observed
<1>1. CASE Open \/ Close \/ CloseStep
  BY <1>1 DEF Open, Close, Cancel, LoopEnded, CloseStep, CloseForgetsLoops,
         CloseForgetsConsumers, Closed, StopIfAny
<1>2. CASE StartConsuming \/ Collect \/ TryAgain
  BY <1>2 DEF StartConsuming, Collect, TryAgain, BeginJoin
<1>3. ASSUME NEW x \in Callers, JoinEnds(x)
      PROVE  Flags'
  BY <1>3 DEF JoinEnds, Joined, JoinFails, JoinAbandoned, CleanedUp
<1>4. ASSUME NEW i \in Consumers, LoopStep(i) \/ LoopDies(i)
      PROVE  Flags'
  BY <1>4 DEF LoopStep, LoopBegins, LoopReads, LoopAcquires, LoopCancelled, LoopDies
<1>5. ASSUME NEW s \in Subs, Subscribe(s)
      PROVE  Flags'
  BY <1>5 DEF Subscribe, BeginJoin
<1>6. ASSUME NEW s \in Subs, Unsubscribe(s) \/ Leave(s)
      PROVE  Flags'
  BY <1>6 DEF Unsubscribe, Cancel, LoopEnded, Leave, Unregister, Unsubscribed, StopIfAny
<1>7. CASE UNCHANGED vars
  BY <1>7 DEF vars
<1> QED
  BY <1>1, <1>2, <1>3, <1>4, <1>5, <1>6, <1>7 DEF Next

(* New consumers have the next number; a loop is made for a joined one.    *)
LEMMA NumberedStep == TypeOK /\ SubsInv /\ [Next]_vars => Numbered'
<1> SUFFICES ASSUME TypeOK, SubsInv, [Next]_vars
             PROVE  Numbered'
  OBVIOUS
<1> USE CallersAre
    DEF TypeOK, SubsInv, Numbered, Joins, Registered, Taken, busVars, consumerVars,
        loopVars, callerVars, closeVars, observed
<1>1. CASE Open \/ Close \/ CloseStep
  BY <1>1 DEF Open, Close, Cancel, LoopEnded, CloseStep, CloseForgetsLoops,
         CloseForgetsConsumers, Closed, StopIfAny
<1>2. CASE StartConsuming \/ Collect \/ TryAgain
  <2>1. CASE (Collect /\ ~BeginJoin(Runner)) \/ StartConsuming
    BY <2>1 DEF Collect, StartConsuming
  <2>2. CASE BeginJoin(Runner) /\ (Collect \/ TryAgain)
    <3>1. UNCHANGED loopVars
      BY <2>2 DEF Collect, TryAgain
    <3> QED
      BY <2>2, <3>1, MadeKeepsNumbers
  <2> QED
    BY <1>2, <2>1, <2>2 DEF TryAgain
<1>3. ASSUME NEW x \in Callers, JoinEnds(x)
      PROVE  Numbered'
  BY <1>3 DEF JoinEnds, Joined, JoinFails, JoinAbandoned, CleanedUp
<1>4. ASSUME NEW i \in Consumers, LoopStep(i) \/ LoopDies(i)
      PROVE  Numbered'
  BY <1>4 DEF LoopStep, LoopBegins, LoopReads, LoopAcquires, LoopCancelled, LoopDies
<1>5. ASSUME NEW s \in Subs, Subscribe(s)
      PROVE  Numbered'
  <2>1. CASE ~BeginJoin(s)
    BY <1>5, <2>1 DEF Subscribe
  <2>2. CASE BeginJoin(s)
    <3>1. UNCHANGED loopVars
      BY <1>5 DEF Subscribe
    <3> QED
      BY <2>2, <3>1, MadeKeepsNumbers
  <2> QED
    BY <2>1, <2>2
<1>6. ASSUME NEW s \in Subs, Unsubscribe(s) \/ Leave(s)
      PROVE  Numbered'
  BY <1>6 DEF Unsubscribe, Cancel, LoopEnded, Leave, Unregister, Unsubscribed, StopIfAny
<1>7. CASE UNCHANGED vars
  BY <1>7 DEF vars
<1> QED
  BY <1>1, <1>2, <1>3, <1>4, <1>5, <1>6, <1>7 DEF Next

(* A join has a consumer of its own until it ends.                         *)
LEMMA JoinsStep == TypeOK /\ SubsInv /\ [Next]_vars => Joins'
<1> SUFFICES ASSUME TypeOK, SubsInv, [Next]_vars
             PROVE  Joins'
  OBVIOUS
<1> USE CallersAre, BeginJoinTyped
    DEF TypeOK, SubsInv, Joins, Numbered, Registered, Taken, busVars, consumerVars,
        loopVars, callerVars, closeVars, observed
<1>1. CASE Open \/ Close \/ CloseStep
  BY <1>1 DEF Open, Close, Cancel, LoopEnded, CloseStep, CloseForgetsLoops,
         CloseForgetsConsumers, Closed, StopIfAny
<1>2. CASE StartConsuming \/ Collect \/ TryAgain
  BY <1>2 DEF StartConsuming, Collect, TryAgain, BeginJoin
<1>3. ASSUME NEW x \in Callers, JoinEnds(x)
      PROVE  Joins'
  BY <1>3 DEF JoinEnds, Joined, JoinFails, JoinAbandoned, CleanedUp
<1>4. ASSUME NEW i \in Consumers, LoopStep(i) \/ LoopDies(i)
      PROVE  Joins'
  BY <1>4 DEF LoopStep, LoopBegins, LoopReads, LoopAcquires, LoopCancelled, LoopDies
<1>5. ASSUME NEW s \in Subs, Subscribe(s)
      PROVE  Joins'
  BY <1>5 DEF Subscribe, BeginJoin
<1>6. ASSUME NEW s \in Subs, Unsubscribe(s) \/ Leave(s)
      PROVE  Joins'
  BY <1>6 DEF Unsubscribe, Cancel, LoopEnded, Leave, Unregister, Unsubscribed, StopIfAny
<1>7. CASE UNCHANGED vars
  BY <1>7 DEF vars
<1> QED
  BY <1>1, <1>2, <1>3, <1>4, <1>5, <1>6, <1>7 DEF Next

(* Who takes a consumer out of the registry stops that one.                *)
LEMMA RegisteredStep == TypeOK /\ SubsInv /\ [Next]_vars => Registered'
<1> SUFFICES ASSUME TypeOK, SubsInv, [Next]_vars
             PROVE  Registered'
  OBVIOUS
<1> USE CallersAre, BeginJoinTyped
    DEF TypeOK, SubsInv, Registered, Taken, Joins, Numbered, busVars, consumerVars,
        loopVars, callerVars, closeVars, observed
<1>1. CASE Open \/ Close \/ CloseStep
  BY <1>1 DEF Open, Close, Cancel, LoopEnded, CloseStep, CloseForgetsLoops,
         CloseForgetsConsumers, Closed, StopIfAny
<1>2. CASE StartConsuming \/ Collect \/ TryAgain
  BY <1>2 DEF StartConsuming, Collect, TryAgain, BeginJoin
<1>3. ASSUME NEW x \in Callers, JoinEnds(x)
      PROVE  Registered'
  BY <1>3 DEF JoinEnds, Joined, JoinFails, JoinAbandoned, CleanedUp
<1>4. ASSUME NEW i \in Consumers, LoopStep(i) \/ LoopDies(i)
      PROVE  Registered'
  BY <1>4 DEF LoopStep, LoopBegins, LoopReads, LoopAcquires, LoopCancelled, LoopDies
<1>5. ASSUME NEW s \in Subs, Subscribe(s)
      PROVE  Registered'
  BY <1>5 DEF Subscribe, BeginJoin
<1>6. ASSUME NEW s \in Subs, Unsubscribe(s) \/ Leave(s)
      PROVE  Registered'
  BY <1>6 DEF Unsubscribe, Cancel, LoopEnded, Leave, Unregister, Unsubscribed, StopIfAny
<1>7. CASE UNCHANGED vars
  BY <1>7 DEF vars
<1> QED
  BY <1>1, <1>2, <1>3, <1>4, <1>5, <1>6, <1>7 DEF Next

(* The reservation keeps a second join away until one is retried.          *)
LEMMA OneJoinStep == TypeOK /\ SubsInv /\ [Next]_vars => OneJoin'
<1> SUFFICES ASSUME TypeOK, SubsInv, [Next]_vars
             PROVE  OneJoin'
  OBVIOUS
<1> USE CallersAre, BeginJoinTyped
    DEF TypeOK, SubsInv, OneJoin, Reserved, Unreserved, busVars, consumerVars, loopVars,
        callerVars, closeVars, observed
<1>1. CASE Open \/ Close \/ CloseStep
  BY <1>1 DEF Open, Close, Cancel, LoopEnded, CloseStep, CloseForgetsLoops,
         CloseForgetsConsumers, Closed, StopIfAny
<1>2. CASE StartConsuming \/ Collect \/ TryAgain
  BY <1>2 DEF StartConsuming, Collect, TryAgain, BeginJoin
<1>3. ASSUME NEW x \in Callers, JoinEnds(x)
      PROVE  OneJoin'
  BY <1>3 DEF JoinEnds, Joined, JoinFails, JoinAbandoned, CleanedUp
<1>4. ASSUME NEW i \in Consumers, LoopStep(i) \/ LoopDies(i)
      PROVE  OneJoin'
  BY <1>4 DEF LoopStep, LoopBegins, LoopReads, LoopAcquires, LoopCancelled, LoopDies
<1>5. ASSUME NEW s \in Subs, Subscribe(s)
      PROVE  OneJoin'
  BY <1>5 DEF Subscribe, BeginJoin
<1>6. ASSUME NEW s \in Subs, Unsubscribe(s) \/ Leave(s)
      PROVE  OneJoin'
  BY <1>6 DEF Unsubscribe, Cancel, LoopEnded, Leave, Unregister, Unsubscribed, StopIfAny
<1>7. CASE UNCHANGED vars
  BY <1>7 DEF vars
<1> QED
  BY <1>1, <1>2, <1>3, <1>4, <1>5, <1>6, <1>7 DEF Next

(* A reservation goes with the join it was made for.                       *)
LEMMA ReservedStep == TypeOK /\ SubsInv /\ [Next]_vars => Reserved'
<1> SUFFICES ASSUME TypeOK, SubsInv, [Next]_vars
             PROVE  Reserved'
  OBVIOUS
<1> USE CallersAre
    DEF TypeOK, SubsInv, Reserved, Joining, busVars, consumerVars, loopVars, callerVars,
        closeVars, observed
<1>1. CASE Open \/ Close \/ CloseStep
  BY <1>1 DEF Open, Close, Cancel, LoopEnded, CloseStep, CloseForgetsLoops,
         CloseForgetsConsumers, Closed, StopIfAny
<1>2. CASE StartConsuming \/ Collect \/ TryAgain
  BY <1>2 DEF StartConsuming, Collect, TryAgain, BeginJoin
<1>3. ASSUME NEW x \in Callers, JoinEnds(x)
      PROVE  Reserved'
  BY <1>3 DEF JoinEnds, Joined, JoinFails, JoinAbandoned, CleanedUp
<1>4. ASSUME NEW i \in Consumers, LoopStep(i) \/ LoopDies(i)
      PROVE  Reserved'
  BY <1>4 DEF LoopStep, LoopBegins, LoopReads, LoopAcquires, LoopCancelled, LoopDies
<1>5. ASSUME NEW s \in Subs, Subscribe(s)
      PROVE  Reserved'
  <2>1. CASE Unreserved /\ started
    <3>1. place'[s] = "joining"
      BY <1>5, <2>1 DEF Subscribe, BeginJoin
    <3> QED
      BY <3>1
  <2>2. CASE ~(Unreserved /\ started)
    <3>1. /\ UNCHANGED <<pending, leaked>>
          /\ place[s] = "new" /\ place' = [place EXCEPT ![s] = "subscribed"]
      BY <1>5, <2>2 DEF Subscribe
    <3> QED
      BY <3>1
  <2> QED
    BY <2>1, <2>2
<1>6. ASSUME NEW s \in Subs, Unsubscribe(s) \/ Leave(s)
      PROVE  Reserved'
  BY <1>6 DEF Unsubscribe, Cancel, LoopEnded, Leave, Unregister, Unsubscribed, StopIfAny
<1>7. CASE UNCHANGED vars
  BY <1>7 DEF vars
<1> QED
  BY <1>1, <1>2, <1>3, <1>4, <1>5, <1>6, <1>7 DEF Next

(* A loop that somebody waits for has ended or is about to.                *)
LEMMA AwaitedEndStep == TypeOK /\ SubsInv /\ [Next]_vars => AwaitedEnd'
<1> SUFFICES ASSUME TypeOK, SubsInv, [Next]_vars
             PROVE  AwaitedEnd'
  OBVIOUS
<1> USE CallersAre, BeginJoinTyped
    DEF TypeOK, SubsInv, AwaitedEnd, Awaited, Joins, Numbered, Registered, Taken,
        busVars, consumerVars, loopVars, callerVars, closeVars, observed
<1>1. CASE Open \/ Close \/ CloseStep
  BY <1>1 DEF Open, Close, Cancel, LoopEnded, CloseStep, CloseForgetsLoops,
         CloseForgetsConsumers, Closed, StopIfAny
<1>2. CASE StartConsuming \/ Collect \/ TryAgain
  BY <1>2 DEF StartConsuming, Collect, TryAgain, BeginJoin
<1>3. ASSUME NEW x \in Callers, JoinEnds(x)
      PROVE  AwaitedEnd'
  BY <1>3 DEF JoinEnds, Joined, JoinFails, JoinAbandoned, CleanedUp
<1>4. ASSUME NEW i \in Consumers, LoopStep(i) \/ LoopDies(i)
      PROVE  AwaitedEnd'
  BY <1>4 DEF LoopStep, LoopBegins, LoopReads, LoopAcquires, LoopCancelled, LoopDies
<1>5. ASSUME NEW s \in Subs, Subscribe(s)
      PROVE  AwaitedEnd'
  BY <1>5 DEF Subscribe, BeginJoin
<1>6. ASSUME NEW s \in Subs, Unsubscribe(s) \/ Leave(s)
      PROVE  AwaitedEnd'
  BY <1>6 DEF Unsubscribe, Cancel, LoopEnded, Leave, Unregister, Unsubscribed, StopIfAny
<1>7. CASE UNCHANGED vars
  BY <1>7 DEF vars
<1> QED
  BY <1>1, <1>2, <1>3, <1>4, <1>5, <1>6, <1>7 DEF Next

(* A consumer leaves the registry only into the hands of who stops it.     *)
LEMMA NoStrayConsumerStep == TypeOK /\ SubsInv /\ [Next]_vars => NoStrayConsumer'
<1> SUFFICES ASSUME TypeOK, SubsInv, [Next]_vars
             PROVE  NoStrayConsumer'
  OBVIOUS
<1> USE CallersAre, BeginJoinTyped
    DEF TypeOK, SubsInv, NoStrayConsumer, Live, OneJoin, Flags, Registered, Taken,
        Joins, busVars, consumerVars, loopVars, callerVars, closeVars, observed
<1>1. CASE Open \/ Close \/ CloseStep
  BY <1>1 DEF Open, Close, Cancel, LoopEnded, CloseStep, CloseForgetsLoops,
         CloseForgetsConsumers, Closed, StopIfAny
<1>2. CASE StartConsuming \/ Collect \/ TryAgain
  BY <1>2 DEF StartConsuming, Collect, TryAgain, BeginJoin
<1>3. ASSUME NEW x \in Callers, JoinEnds(x)
      PROVE  NoStrayConsumer'
  BY <1>3 DEF JoinEnds, Joined, JoinFails, JoinAbandoned, CleanedUp
<1>4. ASSUME NEW i \in Consumers, LoopStep(i) \/ LoopDies(i)
      PROVE  NoStrayConsumer'
  BY <1>4 DEF LoopStep, LoopBegins, LoopReads, LoopAcquires, LoopCancelled, LoopDies
<1>5. ASSUME NEW s \in Subs, Subscribe(s)
      PROVE  NoStrayConsumer'
  BY <1>5 DEF Subscribe, BeginJoin
<1>6. ASSUME NEW s \in Subs, Unsubscribe(s) \/ Leave(s)
      PROVE  NoStrayConsumer'
  BY <1>6 DEF Unsubscribe, Cancel, LoopEnded, Leave, Unregister, Unsubscribed, StopIfAny
<1>7. CASE UNCHANGED vars
  BY <1>7 DEF vars
<1> QED
  BY <1>1, <1>2, <1>3, <1>4, <1>5, <1>6, <1>7 DEF Next

(* close() has every consumer that joined before it in hand.               *)
LEMMA ClosingStep == TypeOK /\ SubsInv /\ [Next]_vars => Closing'
<1> SUFFICES ASSUME TypeOK, SubsInv, [Next]_vars
             PROVE  Closing'
  OBVIOUS
<1> USE CallersAre, BeginJoinTyped
    DEF TypeOK, SubsInv, Closing, NoStrayConsumer, Live, Flags, busVars, consumerVars,
        loopVars, callerVars, closeVars, observed
<1>1. CASE Open \/ Close \/ CloseStep
  BY <1>1 DEF Open, Close, Cancel, LoopEnded, CloseStep, CloseForgetsLoops,
         CloseForgetsConsumers, Closed, StopIfAny
<1>2. CASE StartConsuming \/ Collect \/ TryAgain
  BY <1>2 DEF StartConsuming, Collect, TryAgain, BeginJoin
<1>3. ASSUME NEW x \in Callers, JoinEnds(x)
      PROVE  Closing'
  BY <1>3 DEF JoinEnds, Joined, JoinFails, JoinAbandoned, CleanedUp
<1>4. ASSUME NEW i \in Consumers, LoopStep(i) \/ LoopDies(i)
      PROVE  Closing'
  BY <1>4 DEF LoopStep, LoopBegins, LoopReads, LoopAcquires, LoopCancelled, LoopDies
<1>5. ASSUME NEW s \in Subs, Subscribe(s)
      PROVE  Closing'
  BY <1>5 DEF Subscribe, BeginJoin
<1>6. ASSUME NEW s \in Subs, Unsubscribe(s) \/ Leave(s)
      PROVE  Closing'
  BY <1>6 DEF Unsubscribe, Cancel, LoopEnded, Leave, Unregister, Unsubscribed, StopIfAny
<1>7. CASE UNCHANGED vars
  BY <1>7 DEF vars
<1> QED
  BY <1>1, <1>2, <1>3, <1>4, <1>5, <1>6, <1>7 DEF Next

(* A finished close() leaves no consumer but late ones.                    *)
LEMMA ClosedForGoodStep == TypeOK /\ SubsInv /\ [Next]_vars => ClosedForGood'
<1> SUFFICES ASSUME TypeOK, SubsInv, [Next]_vars
             PROVE  ClosedForGood'
  OBVIOUS
<1> USE CallersAre
    DEF TypeOK, SubsInv, ClosedForGood, Closing, Live, Flags, busVars, consumerVars,
        loopVars, callerVars, closeVars, observed
<1>1. CASE Open
  BY <1>1 DEF Open
<1>2. CASE StartConsuming
  BY <1>2 DEF StartConsuming
<1>3. CASE Collect
  BY <1>3 DEF Collect, BeginJoin
<1>4. CASE TryAgain
  BY <1>4 DEF TryAgain, BeginJoin
<1>5. CASE Close
  BY <1>5 DEF Close, Cancel, LoopEnded
<1>6. CASE CloseForgetsLoops
  BY <1>6 DEF CloseForgetsLoops
<1>7. CASE CloseForgetsConsumers
  BY <1>7 DEF CloseForgetsConsumers
<1>8. CASE Closed
  BY <1>8 DEF Closed, StopIfAny
<1>9. ASSUME NEW x \in Callers, Joined(x)
      PROVE  ClosedForGood'
  BY <1>9 DEF Joined
<1>10. ASSUME NEW x \in Callers, JoinFails(x)
      PROVE  ClosedForGood'
  BY <1>10 DEF JoinFails
<1>11. ASSUME NEW x \in Callers, CleanedUp(x)
      PROVE  ClosedForGood'
  BY <1>11 DEF CleanedUp
<1>12. ASSUME NEW i \in Consumers, LoopBegins(i)
      PROVE  ClosedForGood'
  BY <1>12 DEF LoopBegins
<1>13. ASSUME NEW i \in Consumers, LoopReads(i)
      PROVE  ClosedForGood'
  BY <1>13 DEF LoopReads
<1>14. ASSUME NEW i \in Consumers, LoopAcquires(i)
      PROVE  ClosedForGood'
  BY <1>14 DEF LoopAcquires
<1>15. ASSUME NEW i \in Consumers, LoopDies(i)
      PROVE  ClosedForGood'
  BY <1>15 DEF LoopDies
<1>16. ASSUME NEW i \in Consumers, LoopCancelled(i)
      PROVE  ClosedForGood'
  BY <1>16 DEF LoopCancelled
<1>17. ASSUME NEW s \in Subs, Subscribe(s)
      PROVE  ClosedForGood'
  BY <1>17 DEF Subscribe, BeginJoin
<1>18. ASSUME NEW s \in Subs, Unsubscribe(s)
      PROVE  ClosedForGood'
  BY <1>18 DEF Unsubscribe, Cancel, LoopEnded
<1>19. ASSUME NEW s \in Subs, Unregister(s)
      PROVE  ClosedForGood'
  BY <1>19 DEF Unregister
<1>20. ASSUME NEW s \in Subs, Unsubscribed(s)
      PROVE  ClosedForGood'
  BY <1>20 DEF Unsubscribed, StopIfAny
<1>21. CASE UNCHANGED vars
  BY <1>21 DEF vars
<1>22. ASSUME NEW x \in Callers, JoinAbandoned(x)
       PROVE  ClosedForGood'
  BY <1>22 DEF JoinAbandoned
<1> QED
  BY <1>1, <1>2, <1>3, <1>4, <1>5, <1>6, <1>7, <1>8, <1>9, <1>10, <1>11, <1>12, <1>13,
     <1>14, <1>15, <1>16, <1>17, <1>18, <1>19, <1>20, <1>21, <1>22
  DEF Next, JoinEnds, LoopStep, Leave, CloseStep

(* A closed bus registers nothing but late consumers.                      *)
LEMMA LateOnlyStep == TypeOK /\ SubsInv /\ [Next]_vars => LateOnly'
<1> SUFFICES ASSUME TypeOK, SubsInv, [Next]_vars
             PROVE  LateOnly'
  OBVIOUS
<1> USE CallersAre
    DEF TypeOK, SubsInv, LateOnly, Flags, busVars, consumerVars, loopVars, callerVars,
        closeVars, observed
<1>1. CASE Open
  BY <1>1 DEF Open
<1>2. CASE StartConsuming
  BY <1>2 DEF StartConsuming
<1>3. CASE Collect
  BY <1>3 DEF Collect, BeginJoin
<1>4. CASE TryAgain
  BY <1>4 DEF TryAgain, BeginJoin
<1>5. CASE Close
  BY <1>5 DEF Close, Cancel, LoopEnded
<1>6. CASE CloseForgetsLoops
  BY <1>6 DEF CloseForgetsLoops
<1>7. CASE CloseForgetsConsumers
  BY <1>7 DEF CloseForgetsConsumers
<1>8. CASE Closed
  BY <1>8 DEF Closed, StopIfAny
<1>9. ASSUME NEW x \in Callers, Joined(x)
      PROVE  LateOnly'
  BY <1>9 DEF Joined
<1>10. ASSUME NEW x \in Callers, JoinFails(x)
      PROVE  LateOnly'
  BY <1>10 DEF JoinFails
<1>11. ASSUME NEW x \in Callers, CleanedUp(x)
      PROVE  LateOnly'
  BY <1>11 DEF CleanedUp
<1>12. ASSUME NEW i \in Consumers, LoopBegins(i)
      PROVE  LateOnly'
  BY <1>12 DEF LoopBegins
<1>13. ASSUME NEW i \in Consumers, LoopReads(i)
      PROVE  LateOnly'
  BY <1>13 DEF LoopReads
<1>14. ASSUME NEW i \in Consumers, LoopAcquires(i)
      PROVE  LateOnly'
  BY <1>14 DEF LoopAcquires
<1>15. ASSUME NEW i \in Consumers, LoopDies(i)
      PROVE  LateOnly'
  BY <1>15 DEF LoopDies
<1>16. ASSUME NEW i \in Consumers, LoopCancelled(i)
      PROVE  LateOnly'
  BY <1>16 DEF LoopCancelled
<1>17. ASSUME NEW s \in Subs, Subscribe(s)
      PROVE  LateOnly'
  BY <1>17 DEF Subscribe, BeginJoin
<1>18. ASSUME NEW s \in Subs, Unsubscribe(s)
      PROVE  LateOnly'
  BY <1>18 DEF Unsubscribe, Cancel, LoopEnded
<1>19. ASSUME NEW s \in Subs, Unregister(s)
      PROVE  LateOnly'
  BY <1>19 DEF Unregister
<1>20. ASSUME NEW s \in Subs, Unsubscribed(s)
      PROVE  LateOnly'
  BY <1>20 DEF Unsubscribed, StopIfAny
<1>21. CASE UNCHANGED vars
  BY <1>21 DEF vars
<1>22. ASSUME NEW x \in Callers, JoinAbandoned(x)
       PROVE  LateOnly'
  BY <1>22 DEF JoinAbandoned
<1> QED
  BY <1>1, <1>2, <1>3, <1>4, <1>5, <1>6, <1>7, <1>8, <1>9, <1>10, <1>11, <1>12, <1>13,
     <1>14, <1>15, <1>16, <1>17, <1>18, <1>19, <1>20, <1>21, <1>22
  DEF Next, JoinEnds, LoopStep, Leave, CloseStep

(* The registered consumer keeps its loop while the bus is up.             *)
LEMMA RunningStep == TypeOK /\ SubsInv /\ [Next]_vars => Running'
<1> SUFFICES ASSUME TypeOK, SubsInv, [Next]_vars
             PROVE  Running'
  OBVIOUS
<1> USE CallersAre, BeginJoinTyped
    DEF TypeOK, SubsInv, Running, LateOnly, Registered, Joins, Numbered, Flags, Taken,
        busVars, consumerVars, loopVars, callerVars, closeVars, observed
<1>1. CASE Open \/ Close \/ CloseStep
  BY <1>1 DEF Open, Close, Cancel, LoopEnded, CloseStep, CloseForgetsLoops,
         CloseForgetsConsumers, Closed, StopIfAny
<1>2. CASE StartConsuming \/ Collect \/ TryAgain
  BY <1>2 DEF StartConsuming, Collect, TryAgain, BeginJoin
<1>3. ASSUME NEW x \in Callers, JoinEnds(x)
      PROVE  Running'
  BY <1>3 DEF JoinEnds, Joined, JoinFails, JoinAbandoned, CleanedUp
<1>4. ASSUME NEW i \in Consumers, LoopStep(i) \/ LoopDies(i)
      PROVE  Running'
  BY <1>4 DEF LoopStep, LoopBegins, LoopReads, LoopAcquires, LoopCancelled, LoopDies
<1>5. ASSUME NEW s \in Subs, Subscribe(s)
      PROVE  Running'
  BY <1>5 DEF Subscribe, BeginJoin
<1>6. ASSUME NEW s \in Subs, Unsubscribe(s) \/ Leave(s)
      PROVE  Running'
  BY <1>6 DEF Unsubscribe, Cancel, LoopEnded, Leave, Unregister, Unsubscribed, StopIfAny
<1>7. CASE UNCHANGED vars
  BY <1>7 DEF vars
<1> QED
  BY <1>1, <1>2, <1>3, <1>4, <1>5, <1>6, <1>7 DEF Next

(* A callback is served, awaited for or excused.                           *)
LEMMA ExpectedStep == TypeOK /\ SubsInv /\ [Next]_vars => Expected'
<1> SUFFICES ASSUME TypeOK, SubsInv, [Next]_vars
             PROVE  Expected'
  OBVIOUS
<1> USE CallersAre, BeginJoinTyped
    DEF TypeOK, SubsInv, Expected, Joining, Orphaned, Flags, Unreserved, Reserved, Joins,
        busVars, consumerVars, loopVars, callerVars, closeVars, observed
<1>1. CASE Open \/ Close \/ CloseStep
  BY <1>1 DEF Open, Close, Cancel, LoopEnded, CloseStep, CloseForgetsLoops,
         CloseForgetsConsumers, Closed, StopIfAny
<1>2. CASE StartConsuming \/ Collect \/ TryAgain
  BY <1>2 DEF StartConsuming, Collect, TryAgain, BeginJoin
<1>3. ASSUME NEW x \in Callers, JoinEnds(x)
      PROVE  Expected'
  BY <1>3 DEF JoinEnds, Joined, JoinFails, JoinAbandoned, CleanedUp
<1>4. ASSUME NEW i \in Consumers, LoopStep(i) \/ LoopDies(i)
      PROVE  Expected'
  BY <1>4 DEF LoopStep, LoopBegins, LoopReads, LoopAcquires, LoopCancelled, LoopDies
<1>5. ASSUME NEW s \in Subs, Subscribe(s)
      PROVE  Expected'
  BY <1>5 DEF Subscribe, BeginJoin
<1>6. ASSUME NEW s \in Subs, Unsubscribe(s) \/ Leave(s)
      PROVE  Expected'
  BY <1>6 DEF Unsubscribe, Cancel, LoopEnded, Leave, Unregister, Unsubscribed, StopIfAny
<1>7. CASE UNCHANGED vars
  BY <1>7 DEF vars
<1> QED
  BY <1>1, <1>2, <1>3, <1>4, <1>5, <1>6, <1>7 DEF Next

-----------------------------------------------------------------------------
(* The theorems.                                                           *)

(* The inductive invariant holds initially.                                *)
LEMMA SubsInvInit == Init => TypeOK /\ SubsInv
<1> SUFFICES ASSUME Init
             PROVE  TypeOK /\ SubsInv
  OBVIOUS
<1> USE CallersAre, BoundsAssumption DEF Init
<1>1. TypeOK
  <2>1. retries \in 0 .. MaxRetries /\ made \in 0 .. MaxConsumers
    OBVIOUS
  <2>2. \A s \in Subs : lock # s /\ place[s] = "new"
    OBVIOUS
  <2> QED
    BY <2>1, <2>2 DEF TypeOK, Places
<1>2. Flags /\ Numbered /\ Joins /\ Registered /\ OneJoin /\ Reserved
      /\ AwaitedEnd
  BY DEF Flags, Numbered, Joins, Registered, Taken, OneJoin, Reserved, AwaitedEnd, Awaited
<1>3. NoStrayConsumer /\ Closing /\ ClosedForGood /\ LateOnly /\ Running /\ Expected
  BY DEF NoStrayConsumer, Live, Closing, ClosedForGood, LateOnly, Running, Expected
<1> QED
  BY <1>1, <1>2, <1>3 DEF SubsInv

(* Every step keeps the inductive invariant.                               *)
LEMMA SubsStep == TypeOK /\ SubsInv /\ [Next]_vars => (TypeOK /\ SubsInv)'
<1> SUFFICES ASSUME TypeOK, SubsInv, [Next]_vars
             PROVE  (TypeOK /\ SubsInv)'
  OBVIOUS
<1>1. TypeOK'
  BY TypeStep DEF SubsInv
<1>2. /\ Flags' /\ Numbered' /\ Joins' /\ Registered' /\ OneJoin' /\ Reserved'
      /\ AwaitedEnd'
      /\ NoStrayConsumer' /\ Closing' /\ ClosedForGood'
      /\ LateOnly' /\ Running' /\ Expected'
  BY FlagsStep, NumberedStep, JoinsStep, RegisteredStep, OneJoinStep, ReservedStep,
     AwaitedEndStep, NoStrayConsumerStep, ClosingStep, ClosedForGoodStep, LateOnlyStep, RunningStep,
     ExpectedStep
<1> QED
  BY <1>1, <1>2 DEF SubsInv

(* The inductive invariant holds in every state.                           *)
THEOREM SubscriptionsCorrect == Spec => [](TypeOK /\ SubsInv)
  BY SubsInvInit, SubsStep, PTL DEF Spec

(* Type correctness, and that the lock is held by who waits in             *)
(* unsubscribe() for the loop and the consumer to end.                     *)
THEOREM SubscriptionsTypeCorrect == Spec => []TypeOK
  BY SubscriptionsCorrect, PTL

(* However subscriptions, joins, failures and closes interleave, a joined  *)
(* consumer is registered or about to be stopped, unless start_consuming() *)
(* has tried a second time.                                                *)
THEOREM NoStrayCorrect == Spec => []NoStrayConsumer
<1>1. SubsInv => NoStrayConsumer
  BY DEF SubsInv
<1> QED
  BY <1>1, SubscriptionsCorrect, PTL

(* What is live after close() joined while the bus was closed.             *)
THEOREM ClosedForGoodCorrect == Spec => []ClosedForGood
<1>1. SubsInv => ClosedForGood
  BY DEF SubsInv
<1> QED
  BY <1>1, SubscriptionsCorrect, PTL

(* Nobody waits in a circle: unsubscribe(), which keeps _lock, and close() *)
(* wait for loops that have ended or whose cancellation is on its way, and *)
(* that reaches a loop where it waits for the lock, too                    *)
(* (_stop_consumer_for_topic(), lines 2050-2056).                          *)
THEOREM AwaitedEndCorrect == Spec => []AwaitedEnd
<1>1. SubsInv => AwaitedEnd
  BY DEF SubsInv
<1> QED
  BY <1>1, SubscriptionsCorrect, PTL

(* A subscription is served but for the five exceptions of Served.         *)
THEOREM ServedCorrect == Spec => []Served
<1>1. TypeOK /\ SubsInv => Served
  <2> SUFFICES ASSUME TypeOK, SubsInv, started, lock = Nobody, ~Joining,
                      registered \notin late \cup broken,
                      NEW s \in subscribers \ excused
               PROVE  \E i \in Consumers : ~LoopEnded(i) /\ i \notin cancelled
    BY DEF Served
  <2>1. registered # None
    BY DEF SubsInv, Expected
  <2>2. registered \in Consumers /\ ~shutdown
    BY <2>1 DEF TypeOK, SubsInv, Flags
  <2>3. \A t \in Subs : place[t] # "leaving"
    BY CallersAre DEF TypeOK
  <2>4. loop[registered] \in {"created", "polling", "acquiring"} /\ registered \notin cancelled
    BY <2>1, <2>2, <2>3 DEF SubsInv, Running
  <2>5. ~LoopEnded(registered)
    BY <2>1, <2>4 DEF LoopEnded
  <2> QED
    BY <2>2, <2>4, <2>5
<1> QED
  BY <1>1, SubscriptionsCorrect, PTL

(* As long as start_consuming() has not tried a second time the            *)
(* reservation does what its comment promises: no two callers join at once *)
(* (start_consuming(), lines 2521-2525).  Its retry alone breaks this.     *)
THEOREM ReservationCorrect == Spec => [](~retried => NoDuplicate)
<1>1. TypeOK /\ SubsInv => (~retried => NoDuplicate)
  <2> DEFINE joiners == {x \in Callers : place[x] = "joining"}
  <2> SUFFICES ASSUME SubsInv, ~retried
               PROVE  Cardinality(joiners) =< 1
    BY DEF NoDuplicate
  <2>1. \A x, y \in joiners : x = y
    BY DEF SubsInv, OneJoin
  <2>2. CASE joiners = {}
    BY <2>2, FS_EmptySet
  <2>3. CASE joiners # {}
    <3>1. PICK x \in joiners : joiners = {x}
      BY <2>1, <2>3
    <3>2. Cardinality({x}) = 1
      BY FS_Singleton
    <3> HIDE DEF joiners
    <3> QED
      BY <3>1, <3>2
  <2> QED
    BY <2>2, <2>3
<1> QED
  BY <1>1, SubscriptionsCorrect, PTL

=============================================================================
