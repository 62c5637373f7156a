------------------------- MODULE RuntimeHostProofs -------------------------
(***************************************************************************)
(* Theorems of RuntimeHost for every number of messages, concurrency and   *)
(* pool size.  The host is a user of its pool, so what HandlerPoolProofs   *)
(* shows of the pool holds of the host's; the rest is the host's own       *)
(* bookkeeping of its tasks and the order of stop()'s steps.               *)
(***************************************************************************)
EXTENDS RuntimeHost, HandlerPoolProofs

-----------------------------------------------------------------------------
(* The host as a user of the pool.                                         *)

(* Every step of the host is a step of the pool or leaves it alone.        *)
LEMMA HostStepUsesPool == [Next]_vars => [PoolNext]_poolVars
<1> SUFFICES ASSUME [Next]_vars
             PROVE  [PoolNext]_poolVars
  OBVIOUS
<1>1. CASE OpenPool
  BY <1>1 DEF OpenPool, PoolNext
<1>2. CASE Subscribe \/ Receive \/ Spawn \/ Stop
  BY <1>2 DEF Subscribe, Receive, Spawn, Stop
<1>3. ASSUME NEW m \in Clients,
             \/ Enter(m) \/ Refuse(m) \/ ExecuteSingle(m) \/ FinishSingle(m) \/ Answer(m)
      PROVE  [PoolNext]_poolVars
  BY <1>3 DEF Enter, Refuse, ExecuteSingle, FinishSingle, Answer
<1>4. ASSUME NEW m \in Clients, ExecutePooled(m)
      PROVE  [PoolNext]_poolVars
  BY <1>4 DEF ExecutePooled, PoolNext
<1>5. ASSUME NEW m \in Clients, InPool(m) \/ LeavePool(m)
      PROVE  [PoolNext]_poolVars
  BY <1>5 DEF InPool, LeavePool, PoolNext, ClientStep
<1>6. ASSUME NEW m \in Clients, Cancelled(m)
      PROVE  [PoolNext]_poolVars
  BY <1>6 DEF Cancelled, CancelEnds, CancelBody, PoolNext
<1>7. CASE \/ LoopEnds \/ Unsubscribed \/ Drained \/ DrainExpires
           \/ Collected \/ CollectExpires \/ Closed
  BY <1>7 DEF LoopEnds, Unsubscribed, Drained, DrainExpires, Collected,
              CollectExpires, Closed
<1>8. CASE ClosePool
  BY <1>8 DEF ClosePool, PoolNext
<1>9. CASE UNCHANGED vars
  BY <1>9 DEF vars
<1> QED
  BY <1>1, <1>2, <1>3, <1>4, <1>5, <1>6, <1>7, <1>8, <1>9
  DEF Next, MessageStep, StopStep

(* start(), the tasks, the cancellations and stop() use the pool only      *)
(* through its own operations: the host implements PoolSpec.               *)
THEOREM HostUsesPool == Spec => UsesPool
<1>1. Init => PoolInit
  BY DEF Init
<1> QED
  BY <1>1, HostStepUsesPool, PTL DEF Spec, UsesPool, PoolSpec

(* The host's handlers are lent to one message at a time.                  *)
THEOREM HostExclusive == Spec => []Exclusive
  BY HostUsesPool, ExclusiveCorrect, PTL DEF UsesPool

(* Whatever tasks are cancelled, the host's open pool keeps its places.    *)
THEOREM HostConserved == Spec => []Conserved
  BY HostUsesPool, ConservedCorrect, PTL DEF UsesPool

(* No cancelled task takes a wake-up with it.                              *)
THEOREM HostNoLostWakeup == Spec => []NoLostWakeup
  BY HostUsesPool, NoLostWakeupCorrect, PTL DEF UsesPool

-----------------------------------------------------------------------------
(* The host's bookkeeping.                                                 *)

\* The callers that are somewhere in the pool.
InsidePool == At(Steps \ {"idle"})

\* The stages _pending_message_count counts.
Counted == InStage({"running", "single", "pooled", "answering"})

(* A message is in its with-block exactly while its task is in the pool.   *)
TasksInPool == InStage({"pooled"}) = InsidePool

(* What the consume loop has in hand; it ends with stop() only.            *)
LoopInv ==
    /\ \A m \in Clients : m > received => task[m] = "none"
    /\ Sequential => /\ loop # "acquiring"
                     /\ \A m \in InFlight : loop = "handling" /\ m = received
                     /\ InStage({"created"}) = {}
    /\ ~Sequential => loop # "handling"
    /\ loop = "handling" => received \in InFlight
    /\ loop = "acquiring" => received \in Clients /\ task[received] = "none"
    /\ loop = "ended" => stop # "running"
    /\ stop \in {"draining", "collecting", "gathering", "closing", "closed"} => loop = "ended"

(* stop() closes nothing before every task is gone.                        *)
Gathered == stop \in {"closing", "closed"} => InFlight = {}

(* A cancellation on its way was sent with the loop's or at the deadline.  *)
CutInv == due \cup cut # {} => Sequential \/ expired

HostInv ==
    /\ TypeOK /\ PoolInv
    /\ TasksInPool /\ LoopInv /\ Gathered /\ CutInv
    /\ PermitsKept

(* The counted messages are those in flight whose task has begun.          *)
LEMMA CountedIs ==
    ASSUME TypeOK
    PROVE  /\ Counted = InFlight \ InStage({"created"})
           /\ InFlight = Counted \cup InStage({"created"})
           /\ IsFiniteSet(InFlight) /\ Cardinality(InFlight) \in Nat
           /\ IsFiniteSet(Counted) /\ Cardinality(Counted) \in 0 .. LogEnd
<1> USE DEF TypeOK
<1>1. /\ Counted = InFlight \ InStage({"created"})
      /\ InFlight = Counted \cup InStage({"created"})
  BY DEF Counted, InFlight, InStage, Stages
<1>2. InFlight \in SUBSET Clients /\ Counted \in SUBSET Clients
  BY DEF InFlight, Counted, InStage
<1>3. IsFiniteSet(Clients) /\ Cardinality(Clients) = LogEnd /\ LogEnd \in Nat
  BY MessagesAssumption, FS_Interval
<1>4. /\ IsFiniteSet(InFlight) /\ IsFiniteSet(Counted)
      /\ Cardinality(InFlight) \in Nat /\ Cardinality(Counted) \in Nat
      /\ Cardinality(Counted) =< Cardinality(Clients)
  BY <1>2, <1>3, FS_Subset, FS_CardinalityType
<1> QED
  BY <1>1, <1>3, <1>4

(* How a message's next stage changes the two numbers.                     *)
LEMMA StageMoves ==
    ASSUME TypeOK, NEW m \in Clients, NEW to \in Stages,
           task' = [task EXCEPT ![m] = to]
    PROVE  /\ task' \in [Clients -> Stages]
           /\ InFlight' = IF to \in {"none", "done"} THEN InFlight \ {m}
                                                     ELSE InFlight \cup {m}
           /\ Counted' = IF to \in {"none", "done", "created"} THEN Counted \ {m}
                                                               ELSE Counted \cup {m}
           /\ m \in InFlight <=> task[m] \notin {"none", "done"}
           /\ m \in Counted <=> task[m] \notin {"none", "done", "created"}
<1> USE DEF TypeOK
<1>1. task' \in [Clients -> Stages]
  OBVIOUS
<1>2. InFlight' = IF to \in {"none", "done"} THEN InFlight \ {m} ELSE InFlight \cup {m}
  BY DEF InFlight, InStage
<1>3. Counted' = IF to \in {"none", "done", "created"} THEN Counted \ {m}
                                                       ELSE Counted \cup {m}
  BY DEF Counted, InStage, Stages
<1>4. /\ m \in InFlight <=> task[m] \notin {"none", "done"}
      /\ m \in Counted <=> task[m] \notin {"none", "done", "created"}
  BY DEF InFlight, Counted, InStage, Stages
<1> QED
  BY <1>1, <1>2, <1>3, <1>4

(* How a step of a caller in the pool changes who is inside.               *)
LEMMA InsideMoves ==
    ASSUME PoolTypeOK, InLine, NEW m \in Clients
    PROVE  /\ Checkout(m) => InsidePool' = InsidePool \cup {m}
           /\ (Resume(m) \/ Finish(m) \/ Recycle(m) \/ Replace(m) \/ CancelUsing(m)) =>
                 InsidePool' = InsidePool
           /\ (ReturnHealthy(m) \/ ReturnReplaced(m) \/ ReplaceFails(m)) =>
                 InsidePool' = InsidePool \ {m}
           /\ (CancelParked(m) \/ CancelWoken(m) \/ CancelReturn(m)) =>
                 InsidePool' = InsidePool \ {m}
<1> USE DEF PoolTypeOK, InsidePool, At, Steps
<1>1. Checkout(m) => InsidePool' = InsidePool \cup {m}
  BY DEF Checkout, Take, Park
<1>2. (Resume(m) \/ Finish(m) \/ Recycle(m) \/ Replace(m) \/ CancelUsing(m)) =>
         InsidePool' = InsidePool
  BY DEF Resume, Take, Park, Finish, Recycle, Replace, CancelUsing
<1>3. ASSUME LeaveAndWake(m), pc[m] # "parked"
      PROVE  InsidePool' = InsidePool \ {m}
  <2>1. CASE getters = <<>>
    BY <1>3, <2>1 DEF LeaveAndWake
  <2>2. CASE getters # <<>>
    <3> DEFINE h == Head(getters)
    <3>1. h \in Clients /\ pc[h] = "parked"
      BY <2>2, TailIs DEF InLine
    <3>2. pc' = [pc EXCEPT ![m] = "idle", ![h] = "woken"]
      BY <1>3, <2>2 DEF LeaveAndWake
    <3> HIDE DEF h
    <3> QED
      BY <1>3, <3>1, <3>2
  <2> QED
    BY <2>1, <2>2
<1>4. (ReturnHealthy(m) \/ ReturnReplaced(m) \/ ReplaceFails(m)) =>
         InsidePool' = InsidePool \ {m}
  BY <1>3 DEF ReturnHealthy, ReturnReplaced, ReplaceFails, PutBack
<1>5. (CancelParked(m) \/ CancelWoken(m) \/ CancelReturn(m)) =>
         InsidePool' = InsidePool \ {m}
  BY <1>3 DEF CancelParked, CancelWoken, CancelReturn
<1> QED
  BY <1>1, <1>2, <1>4, <1>5


Begun == {"running", "single", "pooled", "answering"}

(* A message that goes from one stage of its handling to the next.         *)
LEMMA StageKeeps ==
    ASSUME HostInv, NEW m \in Clients, task[m] \in Begun, NEW to \in Begun,
           task' = [task EXCEPT ![m] = to],
           UNCHANGED <<feedVars, permits, pending, stopVars>>,
           due' \subseteq due, cut' \subseteq cut \cup due,
           (PoolTypeOK /\ PoolInv)', TasksInPool'
    PROVE  HostInv'
<1> USE DEF HostInv, feedVars, stopVars
<1>1. TypeOK /\ to \in Stages
  BY DEF Begun, Stages
<1>2. task' \in [Clients -> Stages] /\ InFlight' = InFlight /\ Counted' = Counted /\ m \in InFlight
  <2>1. m \in InFlight /\ m \in Counted
    BY <1>1, StageMoves DEF Begun
  <2>2. /\ task' \in [Clients -> Stages]
        /\ InFlight' = InFlight \cup {m} /\ Counted' = Counted \cup {m}
    <3>1. to \notin {"none", "done", "created"}
      BY DEF Begun
    <3>2. /\ task' \in [Clients -> Stages]
          /\ InFlight' = IF to \in {"none", "done"} THEN InFlight \ {m}
                                                    ELSE InFlight \cup {m}
          /\ Counted' = IF to \in {"none", "done", "created"} THEN Counted \ {m}
                                                              ELSE Counted \cup {m}
      BY <1>1, StageMoves
    <3> QED
      BY <3>1, <3>2
  <2> QED
    BY <2>1, <2>2
<1>3. TypeOK'
  BY <1>2 DEF TypeOK
<1>4. LoopInv'
  <2>1. \A n \in Clients : n > received => task'[n] = "none"
    BY DEF LoopInv, TypeOK, Begun
  <2>2. Sequential => InStage({"created"})' = {}
    BY DEF LoopInv, InStage, TypeOK, Begun
  <2>3. loop = "acquiring" => task'[received] = "none"
    BY DEF LoopInv, TypeOK, Begun
  <2> QED
    BY <1>2, <2>1, <2>2, <2>3 DEF LoopInv, Sequential
<1>5. Gathered' /\ CutInv'
  BY <1>2 DEF Gathered, CutInv, Sequential
<1>6. PermitsKept'
  <2>1. Counted' = InFlight' \ InStage({"created"})'
    BY <1>2 DEF Counted, InFlight, InStage, Stages
  <2> QED
    BY <1>1, <1>2, <2>1, CountedIs DEF PermitsKept, Sequential
<1> QED
  BY <1>3, <1>4, <1>5, <1>6

(* A message that comes to its end.                                        *)
LEMMA ExitKeeps ==
    ASSUME HostInv, NEW m \in Clients, task[m] \in Begun, Exit(m),
           UNCHANGED <<concurrency, received, stopVars>>,
           due' \subseteq due, cut' \subseteq cut \cup due,
           (PoolTypeOK /\ PoolInv)', TasksInPool'
    PROVE  HostInv'
<1> USE DEF HostInv, stopVars
<1>1. TypeOK /\ task' = [task EXCEPT ![m] = "done"] /\ "done" \in Stages
  BY DEF Exit, Stages
<1>2. /\ task' \in [Clients -> Stages]
      /\ InFlight' = InFlight \ {m} /\ Counted' = Counted \ {m}
      /\ m \in InFlight /\ m \in Counted
  BY <1>1, StageMoves DEF Begun
<1>3. /\ Cardinality(InFlight') = Cardinality(InFlight) - 1
      /\ Cardinality(Counted') = Cardinality(Counted) - 1
      /\ Cardinality(InFlight) \in Nat /\ Cardinality(InFlight') \in Nat
      /\ Cardinality(Counted) \in Nat /\ Cardinality(Counted') \in Nat
  <2>1. IsFiniteSet(InFlight) /\ IsFiniteSet(Counted)
    BY <1>1, CountedIs
  <2>2. IsFiniteSet(InFlight') /\ IsFiniteSet(Counted')
    BY <1>2, <2>1, FS_RemoveElement
  <2> QED
    BY <1>2, <2>1, <2>2, OneMore, FS_CardinalityType
<1>4. pending = Cardinality(Counted) /\ pending' = Cardinality(Counted')
  BY <1>1, <1>3, CountedIs DEF PermitsKept, Exit
<1>5. PermitsKept'
  <2>1. Counted' = InFlight' \ InStage({"created"})'
    BY <1>2 DEF Counted, InFlight, InStage, Stages
  <2>2. ~Sequential => permits' + Cardinality(InFlight') = concurrency
    BY <1>1, <1>3, ConcurrentAssumption DEF PermitsKept, Exit, TypeOK
  <2> QED
    BY <1>4, <2>1, <2>2 DEF PermitsKept, Sequential
<1>6. TypeOK'
  <2>1. pending' \in 0 .. LogEnd
    BY <1>1, <1>3, <1>4, MessagesAssumption DEF TypeOK
  <2>2. permits' \in 0 .. concurrency
    <3>1. CASE Sequential
      BY <1>1, <3>1 DEF Exit, TypeOK
    <3>2. CASE ~Sequential
      BY <1>1, <1>3, <1>5, <3>2, ConcurrentAssumption
      DEF PermitsKept, Exit, TypeOK, Sequential
    <3> QED
      BY <3>1, <3>2
  <2>3. loop' \in {"off", "polling", "acquiring", "handling", "ended"}
    BY <1>1 DEF Exit, TypeOK
  <2> QED
    BY <1>2, <2>1, <2>2, <2>3 DEF TypeOK
<1>7. LoopInv'
  <2>1. \A n \in Clients : n > received => task'[n] = "none"
    BY <1>1 DEF LoopInv, TypeOK, Begun
  <2>2. Sequential => InStage({"created"})' = {}
    BY <1>1 DEF LoopInv, InStage, TypeOK
  <2>3. CASE Sequential
    <3>1. InFlight' = {} /\ loop' = IF stop = "running" THEN "polling" ELSE "ended"
      BY <1>2, <2>3 DEF LoopInv, Exit
    <3> QED
      BY <2>1, <2>2, <2>3, <3>1 DEF LoopInv, Sequential
  <2>4. CASE ~Sequential
    <3>1. loop' = loop
      BY <2>4 DEF Exit
    <3>2. loop = "acquiring" => task'[received] = "none"
      BY <1>1 DEF LoopInv, TypeOK, Begun
    <3> QED
      BY <2>1, <2>4, <3>1, <3>2 DEF LoopInv, Sequential
  <2> QED
    BY <2>3, <2>4
<1>8. Gathered' /\ CutInv'
  BY <1>2 DEF Gathered, CutInv, Sequential
<1> QED
  BY <1>5, <1>6, <1>7, <1>8


(* A task that takes its first step counts itself.                         *)
LEMMA EnterKeeps ==
    ASSUME HostInv, NEW m \in Clients, Enter(m), (PoolTypeOK /\ PoolInv)'
    PROVE  HostInv'
<1> USE DEF HostInv, Enter, feedVars, cancelVars, stopVars
<1>1. TypeOK /\ task' = [task EXCEPT ![m] = "running"] /\ "running" \in Stages
  BY DEF Stages
<1>2. /\ task' \in [Clients -> Stages]
      /\ InFlight' = InFlight /\ Counted' = Counted \cup {m} /\ m \notin Counted
      /\ m \in InFlight
  <2>1. m \in InFlight /\ m \notin Counted
    BY <1>1, StageMoves
  <2>2. /\ task' \in [Clients -> Stages]
        /\ InFlight' = InFlight \cup {m} /\ Counted' = Counted \cup {m}
    BY <1>1, StageMoves
  <2> QED
    BY <2>1, <2>2
<1>3. /\ Cardinality(Counted') = Cardinality(Counted) + 1
      /\ Cardinality(Counted) \in Nat /\ Cardinality(Counted') =< LogEnd
  <2>1. IsFiniteSet(Counted)
    BY <1>1, CountedIs
  <2>2. Counted' \in SUBSET Clients /\ IsFiniteSet(Clients) /\ Cardinality(Clients) = LogEnd
    BY MessagesAssumption, FS_Interval DEF Counted, InStage
  <2> QED
    BY <1>2, <2>1, <2>2, OneMore, FS_Subset
<1>4. pending = Cardinality(Counted) /\ pending' = Cardinality(Counted')
  BY <1>1, <1>3, CountedIs DEF PermitsKept
<1>5. TypeOK'
  BY <1>2, <1>3, <1>4, MessagesAssumption DEF TypeOK
<1>6. PermitsKept'
  <2>1. Counted' = InFlight' \ InStage({"created"})'
    BY <1>2 DEF Counted, InFlight, InStage, Stages
  <2> QED
    BY <1>2, <1>4, <2>1 DEF PermitsKept, Sequential
<1>7. TasksInPool'
  <2>1. InStage({"pooled"})' = InStage({"pooled"})
    BY <1>1 DEF InStage, TypeOK
  <2> QED
    BY <2>1 DEF TasksInPool, InsidePool, At, poolVars
<1>8. LoopInv'
  <2>1. ~Sequential
    BY DEF LoopInv, InStage
  <2>2. \A n \in Clients : n > received => task'[n] = "none"
    BY <1>1 DEF LoopInv, TypeOK
  <2>3. loop = "acquiring" => task'[received] = "none"
    BY <1>1 DEF LoopInv, TypeOK
  <2> QED
    BY <1>2, <2>1, <2>2, <2>3 DEF LoopInv, Sequential
<1>9. Gathered' /\ CutInv'
  BY <1>2 DEF Gathered, CutInv, Sequential
<1> QED
  BY <1>5, <1>6, <1>7, <1>8, <1>9

(* The loop hands a message over: inline, it is counted at once; for a     *)
(* task, it waits for a permit.                                            *)
LEMMA ReceiveKeeps ==
    ASSUME HostInv, Receive, (PoolTypeOK /\ PoolInv)'
    PROVE  HostInv'
<1> DEFINE r == received + 1
<1> USE DEF HostInv, cancelVars, stopVars
<1>1. /\ loop = "polling" /\ stop = "running" /\ r \in Clients /\ received' = r
      /\ received \in Nat /\ task[r] = "none" /\ TypeOK
      /\ UNCHANGED <<concurrency, permits, due, cut, stop, expired>>
      /\ InsidePool' = InsidePool
  BY MessagesAssumption DEF Receive, TypeOK, LoopInv, InsidePool, At, poolVars
<1>2. Gathered'
  BY <1>1 DEF Gathered
<1>3. CutInv'
  BY <1>1 DEF CutInv, Sequential
<1> HIDE DEF r
<1>4. CASE ReceiveInline
  <2>1. /\ Sequential /\ loop' = "handling" /\ pending' = pending + 1
        /\ task' = [task EXCEPT ![r] = "running"] /\ "running" \in Stages
    BY <1>1, <1>4 DEF ReceiveInline, Stages
  <2>2. InFlight = {} /\ Counted = {}
    <3>1. InFlight = {}
      BY <1>1, <2>1 DEF LoopInv
    <3> QED
      BY <1>1, <3>1, CountedIs
  <2>3. task' \in [Clients -> Stages] /\ InFlight' = {r} /\ Counted' = {r}
    <3>1. /\ task' \in [Clients -> Stages]
          /\ InFlight' = InFlight \cup {r} /\ Counted' = Counted \cup {r}
      BY <1>1, <2>1, StageMoves
    <3> QED
      BY <2>2, <3>1
  <2>4. pending = 0 /\ Cardinality(Counted') = 1 /\ pending' = 1
    <3>1. pending = Cardinality(Counted)
      BY <1>1, CountedIs DEF PermitsKept
    <3>2. Cardinality(Counted) = 0 /\ Cardinality(Counted') = 1
      BY <2>2, <2>3, FS_EmptySet, FS_Singleton
    <3> QED
      BY <2>1, <3>1, <3>2
  <2>5. TypeOK'
    BY <1>1, <2>1, <2>3, <2>4, MessagesAssumption DEF TypeOK
  <2>6. InStage({"created"})' = {} /\ InStage({"pooled"})' = InStage({"pooled"})
    <3>1. InStage({"created"}) = {}
      BY <2>1 DEF LoopInv
    <3> QED
      BY <1>1, <2>1, <3>1 DEF InStage, TypeOK
  <2>7. TasksInPool'
    BY <1>1, <2>6 DEF TasksInPool
  <2>8. PermitsKept'
    <3>1. InFlight' \ InStage({"created"})' = Counted'
      BY <2>3, <2>6
    <3> QED
      BY <1>1, <2>1, <2>4, <3>1 DEF PermitsKept, Sequential
  <2>9. LoopInv'
    <3>1. \A n \in Clients : n > r => task'[n] = "none"
      BY <1>1, <2>1, MessagesAssumption DEF LoopInv, TypeOK, r
    <3> QED
      BY <1>1, <2>1, <2>3, <2>6, <3>1 DEF LoopInv, Sequential
  <2> QED
    BY <1>2, <1>3, <2>5, <2>7, <2>8, <2>9
<1>5. CASE ReceiveForTask
  <2>1. ~Sequential /\ loop' = "acquiring" /\ pending' = pending /\ task' = task
    BY <1>5 DEF ReceiveForTask
  <2>2. InFlight' = InFlight /\ \A stages : InStage(stages)' = InStage(stages)
    BY <2>1 DEF InFlight, InStage
  <2>3. TypeOK'
    BY <1>1, <2>1, MessagesAssumption DEF TypeOK
  <2>4. TasksInPool' /\ PermitsKept'
    BY <1>1, <2>1, <2>2 DEF TasksInPool, PermitsKept, Sequential
  <2>5. LoopInv'
    <3>1. \A n \in Clients : n > r => task'[n] = "none"
      BY <1>1, <2>1, MessagesAssumption DEF LoopInv, r
    <3> QED
      BY <1>1, <2>1, <3>1 DEF LoopInv, Sequential
  <2> QED
    BY <1>2, <1>3, <2>3, <2>4, <2>5
<1> QED
  BY <1>4, <1>5 DEF Receive

(* A permit is taken and a task made.                                      *)
LEMMA SpawnKeeps ==
    ASSUME HostInv, Spawn, (PoolTypeOK /\ PoolInv)'
    PROVE  HostInv'
<1> USE DEF HostInv, cancelVars, stopVars
<1>1. /\ loop = "acquiring" /\ loop' = "polling" /\ stop = "running"
      /\ ~Sequential /\ received \in Clients /\ task[received] = "none"
      /\ task' = [task EXCEPT ![received] = "created"] /\ "created" \in Stages
      /\ permits > 0 /\ permits' = permits - 1
      /\ UNCHANGED <<concurrency, received, pending, due, cut, stop, expired>>
      /\ TypeOK
  BY DEF Spawn, LoopInv, Stages
<1>2. /\ task' \in [Clients -> Stages]
      /\ InFlight' = InFlight \cup {received} /\ received \notin InFlight
      /\ Counted' = Counted
  <2>1. received \notin InFlight /\ received \notin Counted
    BY <1>1, StageMoves
  <2>2. /\ task' \in [Clients -> Stages]
        /\ InFlight' = InFlight \cup {received} /\ Counted' = Counted \ {received}
    BY <1>1, StageMoves
  <2> QED
    BY <2>1, <2>2
<1>3. /\ Cardinality(InFlight') = Cardinality(InFlight) + 1
      /\ Cardinality(InFlight) \in Nat
  BY <1>1, <1>2, CountedIs, OneMore
<1>4. TypeOK'
  BY <1>1, <1>2, ConcurrentAssumption DEF TypeOK
<1>5. PermitsKept'
  <2>1. Counted' = InFlight' \ InStage({"created"})'
    BY <1>2 DEF Counted, InFlight, InStage, Stages
  <2>2. pending' = Cardinality(Counted')
    BY <1>1, <1>2, CountedIs DEF PermitsKept
  <2>3. permits' + Cardinality(InFlight') = concurrency
    BY <1>1, <1>3, ConcurrentAssumption DEF PermitsKept, TypeOK
  <2> QED
    BY <2>1, <2>2, <2>3, <1>1 DEF PermitsKept, Sequential
<1>6. TasksInPool'
  <2>1. InStage({"pooled"})' = InStage({"pooled"})
    BY <1>1 DEF InStage, TypeOK
  <2> QED
    BY <2>1 DEF TasksInPool, InsidePool, At, poolVars, Spawn
<1>7. LoopInv' /\ Gathered' /\ CutInv'
  <2>1. \A n \in Clients : n > received => task'[n] = "none"
    BY <1>1, MessagesAssumption DEF LoopInv, TypeOK
  <2> QED
    BY <1>1, <2>1 DEF LoopInv, Gathered, CutInv, Sequential
<1> QED
  BY <1>4, <1>5, <1>6, <1>7


(* A message that is answered or comes to its end.                         *)
LEMMA HandledKeeps ==
    ASSUME HostInv, NEW m \in Clients, task[m] \in Begun, Handled(m),
           UNCHANGED <<concurrency, received, cancelVars, stopVars>>,
           (PoolTypeOK /\ PoolInv)', TasksInPool'
    PROVE  HostInv'
<1> USE DEF cancelVars
<1>1. CASE Exit(m)
  BY <1>1, ExitKeeps
<1>2. CASE task' = [task EXCEPT ![m] = "answering"] /\ UNCHANGED <<loop, permits, pending>>
  BY <1>2, StageKeeps DEF feedVars, Begun
<1> QED
  BY <1>1, <1>2 DEF Handled

(* The steps of a message outside the pool.                                *)
LEMMA OutsideKeeps ==
    ASSUME HostInv, NEW m \in Clients, (PoolTypeOK /\ PoolInv)',
           Refuse(m) \/ ExecuteSingle(m) \/ FinishSingle(m) \/ Answer(m)
    PROVE  HostInv'
<1>1. InsidePool' = InsidePool
  BY DEF Refuse, ExecuteSingle, FinishSingle, Answer, InsidePool, At, poolVars
<1>2. task[m] \in Begun \ {"pooled"}
  BY DEF Refuse, ExecuteSingle, FinishSingle, Answer, Begun
<1>3. \E to \in {"single", "answering", "done"} : task' = [task EXCEPT ![m] = to]
  BY DEF Refuse, ExecuteSingle, FinishSingle, Answer, Handled, Exit
<1>4. InStage({"pooled"})' = InStage({"pooled"})
  BY <1>2, <1>3 DEF InStage, HostInv, TypeOK
<1>5. TasksInPool'
  BY <1>1, <1>4 DEF TasksInPool, HostInv
<1>6. CASE Refuse(m) \/ FinishSingle(m)
  BY <1>2, <1>5, <1>6, HandledKeeps DEF Refuse, FinishSingle
<1>7. CASE ExecuteSingle(m)
  BY <1>2, <1>5, <1>7, StageKeeps DEF ExecuteSingle, Begun, cancelVars
<1>8. CASE Answer(m)
  BY <1>2, <1>5, <1>8, ExitKeeps DEF Answer, cancelVars
<1> QED
  BY <1>6, <1>7, <1>8

(* The steps of a message into the pool, inside it and out of it.          *)
LEMMA PooledKeeps ==
    ASSUME HostInv, NEW m \in Clients, (PoolTypeOK /\ PoolInv)',
           ExecutePooled(m) \/ InPool(m) \/ LeavePool(m)
    PROVE  HostInv'
<1>1. PoolTypeOK /\ InLine /\ TasksInPool /\ task \in [Clients -> Stages]
  BY DEF HostInv, TypeOK, PoolInv
<1>2. CASE ExecutePooled(m)
  <2>1. InsidePool' = InsidePool \cup {m}
    BY <1>1, <1>2, InsideMoves DEF ExecutePooled
  <2>2. task[m] \in Begun /\ task' = [task EXCEPT ![m] = "pooled"]
    BY <1>2 DEF ExecutePooled, Begun
  <2>3. InStage({"pooled"})' = InStage({"pooled"}) \cup {m}
    BY <1>1, <2>2 DEF InStage
  <2>4. TasksInPool'
    BY <1>1, <2>1, <2>3 DEF TasksInPool
  <2> QED
    BY <1>2, <2>2, <2>4, StageKeeps DEF ExecutePooled, Begun, cancelVars
<1>3. CASE InPool(m)
  <2>1. InsidePool' = InsidePool
    BY <1>1, <1>3, InsideMoves DEF InPool
  <2>2. task[m] \in Begun /\ task' = [task EXCEPT ![m] = task[m]]
    BY <1>1, <1>3 DEF InPool, Begun, hostVars, taskVars
  <2>3. TasksInPool'
    BY <1>1, <1>3, <2>1 DEF TasksInPool, InStage, InPool, hostVars, taskVars
  <2> QED
    BY <1>3, <2>2, <2>3, StageKeeps DEF InPool, hostVars, taskVars, cancelVars
<1>4. CASE LeavePool(m)
  <2>1. InsidePool' = InsidePool \ {m}
    BY <1>1, <1>4, InsideMoves DEF LeavePool
  <2>2. task[m] \in Begun
    BY <1>4 DEF LeavePool, Begun
  <2>3. Exit(m) \/ Handled(m)
    BY <1>4 DEF LeavePool
  <2>4. \E to \in {"answering", "done"} : task' = [task EXCEPT ![m] = to]
    BY <2>3 DEF Handled, Exit
  <2>5. InStage({"pooled"})' = InStage({"pooled"}) \ {m}
    BY <1>1, <2>4 DEF InStage
  <2>6. TasksInPool'
    BY <1>1, <2>1, <2>5 DEF TasksInPool
  <2>7. Handled(m)
    BY <2>3 DEF Handled
  <2> QED
    BY <1>4, <2>2, <2>6, <2>7, HandledKeeps DEF LeavePool
<1> QED
  BY <1>2, <1>3, <1>4

(* A message that CancelledError reaches.                                  *)
LEMMA CancelledKeeps ==
    ASSUME HostInv, NEW m \in Clients, (PoolTypeOK /\ PoolInv)', Cancelled(m)
    PROVE  HostInv'
<1>1. PoolTypeOK /\ InLine /\ TasksInPool /\ task \in [Clients -> Stages]
  BY DEF HostInv, TypeOK, PoolInv
<1>2. task[m] \in Begun /\ due' \subseteq due /\ cut' \subseteq cut \cup due
  BY DEF Cancelled, CancelEnds, CancelBody, Begun
<1>3. CASE CancelEnds(m)
  <2>1. task' = [task EXCEPT ![m] = "done"]
    BY <1>3 DEF CancelEnds, Exit
  <2>2. InStage({"pooled"})' = InStage({"pooled"}) \ {m}
    BY <1>1, <2>1 DEF InStage
  <2>3. CASE task[m] # "pooled"
    <3>1. InsidePool' = InsidePool
      BY <1>3, <2>3 DEF CancelEnds, InsidePool, At, poolVars
    <3> QED
      BY <1>1, <2>2, <2>3, <3>1, <1>3, <1>2, ExitKeeps
      DEF TasksInPool, InStage, CancelEnds, Cancelled
  <2>4. CASE task[m] = "pooled"
    <3>1. CancelParked(m) \/ CancelWoken(m) \/ CancelReturn(m)
      BY <1>3, <2>4 DEF CancelEnds, Cancel, CancelUsing
    <3>2. InsidePool' = InsidePool \ {m}
      BY <1>1, <3>1, InsideMoves
    <3>3. TasksInPool'
      BY <1>1, <2>2, <3>2 DEF TasksInPool
    <3> QED
      BY <1>2, <1>3, <3>3, ExitKeeps DEF CancelEnds, Cancelled
  <2> QED
    BY <2>3, <2>4
<1>4. CASE CancelBody(m)
  <2>1. CancelUsing(m)
    BY <1>4 DEF CancelBody, Cancel, CancelParked, CancelWoken, CancelReturn
  <2>2. InsidePool' = InsidePool
    BY <1>1, <2>1, InsideMoves
  <2>3. task' = [task EXCEPT ![m] = task[m]] /\ task' = task
    BY <1>1, <1>4 DEF CancelBody, taskVars
  <2>4. TasksInPool'
    BY <1>1, <2>2, <2>3 DEF TasksInPool, InStage
  <2> QED
    BY <1>2, <1>4, <2>3, <2>4, StageKeeps
    DEF CancelBody, Cancelled, taskVars, feedVars
<1> QED
  BY <1>3, <1>4 DEF Cancelled

(* A step that leaves every task where it is.                              *)
LEMMA TasksKeep ==
    ASSUME HostInv, UNCHANGED <<concurrency, received, taskVars>>,
           InsidePool' = InsidePool, (TypeOK /\ PoolInv)', LoopInv', Gathered', CutInv'
    PROVE  HostInv'
<1>1. InFlight' = InFlight /\ \A stages : InStage(stages)' = InStage(stages)
  BY DEF InFlight, InStage, taskVars
<1> QED
  BY <1>1 DEF HostInv, TasksInPool, PermitsKept, Sequential, taskVars

(* start() and the steps of stop().                                        *)
LEMMA ControlKeeps ==
    ASSUME HostInv, (PoolTypeOK /\ PoolInv)',
           \/ OpenPool \/ Subscribe \/ Stop \/ StopStep \/ UNCHANGED vars
    PROVE  HostInv'
<1> USE DEF feedVars, taskVars, cancelVars, stopVars, hostVars, vars
<1>1. UNCHANGED <<concurrency, received, taskVars>>
  BY DEF OpenPool, Subscribe, Stop, StopStep, LoopEnds, Unsubscribed, Drained, DrainExpires,
         Collected, CollectExpires, ClosePool, Closed
<1>2. InsidePool' = InsidePool
  <2>1. pc' = pc
    BY DEF OpenPool, OpenOne, OpenFails, Subscribe, Stop, StopStep, LoopEnds, Unsubscribed,
           Drained, DrainExpires, Collected, CollectExpires, ClosePool, Shutdown,
           ShutdownOne, ShutdownEnds, Closed, poolVars
  <2> QED
    BY <2>1 DEF InsidePool, At
<1>3. InFlight' = InFlight /\ \A stages : InStage(stages)' = InStage(stages)
  BY <1>1 DEF InFlight, InStage
<1>4. InFlight \subseteq Clients
  BY DEF InFlight
<1>5. received \in InFlight => received \in Clients
  BY <1>4
<1>6. TypeOK'
  BY <1>1, <1>4, <1>5
  DEF HostInv, TypeOK, LoopInv, OpenPool, Subscribe, Stop, StopStep, LoopEnds, Unsubscribed,
      Drained, DrainExpires, Collected, CollectExpires, ClosePool, Closed
<1>7. LoopInv'
  BY <1>1, <1>3
  DEF HostInv, TypeOK, LoopInv, Sequential, OpenPool, Subscribe, Stop, StopStep, LoopEnds,
      Unsubscribed, Drained, DrainExpires, Collected, CollectExpires, ClosePool, Closed
<1>8. Gathered'
  BY <1>1, <1>3
  DEF HostInv, Gathered, OpenPool, Subscribe, Stop, StopStep, LoopEnds,
      Unsubscribed, Drained, DrainExpires, Collected, CollectExpires, ClosePool, Closed
<1>9. CutInv'
  BY <1>1, <1>3
  DEF HostInv, LoopInv, CutInv, Sequential, OpenPool, Subscribe, Stop, StopStep, LoopEnds,
      Unsubscribed, Drained, DrainExpires, Collected, CollectExpires, ClosePool, Closed
<1> QED
  BY <1>1, <1>2, <1>6, <1>7, <1>8, <1>9, TasksKeep

(* The host's invariant holds initially.                                   *)
LEMMA HostInvInit == Init => HostInv
<1> SUFFICES ASSUME Init
             PROVE  HostInv
  OBVIOUS
<1> USE DEF Init, HostInit
<1>1. PoolTypeOK /\ PoolInv
  BY PoolInvInit
<1>2. \A stages : "none" \notin stages => InStage(stages) = {}
  BY DEF InStage
<1>3. InFlight = {} /\ Counted = {}
  BY DEF InFlight, Counted, InStage
<1>4. InsidePool = {}
  BY DEF PoolInit, InsidePool, At
<1>5. TypeOK
  <2>1. concurrency \in Nat \ {0} /\ permits \in 0 .. concurrency
    BY ConcurrentAssumption
  <2>2. received \in 0 .. LogEnd /\ pending \in 0 .. LogEnd
    BY MessagesAssumption
  <2>3. task \in [Clients -> Stages]
    BY DEF Stages
  <2> QED
    BY <1>1, <2>1, <2>2, <2>3 DEF TypeOK
<1>6. Cardinality({}) = 0
  BY FS_EmptySet
<1>7. TasksInPool
  BY <1>2, <1>4 DEF TasksInPool
<1>8. LoopInv /\ Gathered /\ CutInv
  BY <1>2, <1>3 DEF LoopInv, Gathered, CutInv
<1>9. PermitsKept
  BY <1>3, <1>5, <1>6, CountedIs, ConcurrentAssumption DEF PermitsKept, TypeOK
<1> QED
  BY <1>1, <1>5, <1>7, <1>8, <1>9 DEF HostInv

(* Every step of the host keeps its invariant.                             *)
LEMMA HostStep == HostInv /\ [Next]_vars => HostInv'
<1> SUFFICES ASSUME HostInv, [Next]_vars
             PROVE  HostInv'
  OBVIOUS
<1>1. (PoolTypeOK /\ PoolInv)'
  BY HostStepUsesPool, PoolStep DEF HostInv, TypeOK
<1>2. CASE \/ OpenPool \/ Subscribe \/ Stop \/ StopStep \/ UNCHANGED vars
  BY <1>1, <1>2, ControlKeeps
<1>3. CASE Receive
  BY <1>1, <1>3, ReceiveKeeps
<1>4. CASE Spawn
  BY <1>1, <1>4, SpawnKeeps
<1>5. ASSUME NEW m \in Clients, MessageStep(m)
      PROVE  HostInv'
  <2>1. CASE Enter(m)
    BY <1>1, <2>1, EnterKeeps
  <2>2. CASE Refuse(m) \/ ExecuteSingle(m) \/ FinishSingle(m) \/ Answer(m)
    BY <1>1, <2>2, OutsideKeeps
  <2>3. CASE ExecutePooled(m) \/ InPool(m) \/ LeavePool(m)
    BY <1>1, <2>3, PooledKeeps
  <2>4. CASE Cancelled(m)
    BY <1>1, <2>4, CancelledKeeps
  <2> QED
    BY <1>5, <2>1, <2>2, <2>3, <2>4 DEF MessageStep
<1> QED
  BY <1>2, <1>3, <1>4, <1>5 DEF Next

(* The inductive invariant holds in every state of the host.               *)
THEOREM HostCorrect == Spec => []HostInv
  BY HostInvInit, HostStep, PTL DEF Spec

(* Type correctness of host and pool.                                      *)
THEOREM HostTypeCorrect == Spec => []TypeOK
<1>1. HostInv => TypeOK
  BY DEF HostInv
<1> QED
  BY <1>1, HostCorrect, PTL

(* stop() shuts the pool and the handlers down only when no message is in  *)
(* work and no task is anywhere in the pool.                               *)
THEOREM QuiescedCorrect == Spec => []Quiesced
<1>1. HostInv => Quiesced
  <2> SUFFICES ASSUME HostInv, stop \in {"closing", "closed"}
               PROVE  InFlight = {} /\ InsidePool = {} /\ loop = "ended"
    BY DEF Quiesced, InsidePool
  <2>1. InFlight = {} /\ loop = "ended"
    BY DEF HostInv, Gathered, LoopInv
  <2>2. InStage({"pooled"}) = {}
    BY <2>1 DEF InFlight, InStage
  <2> QED
    BY <2>1, <2>2 DEF HostInv, TasksInPool
<1> QED
  BY <1>1, HostCorrect, PTL

(* However a message ends, its permit comes back and the pending count     *)
(* counts the others.                                                      *)
THEOREM PermitsKeptCorrect == Spec => []PermitsKept
<1>1. HostInv => PermitsKept
  BY DEF HostInv
<1> QED
  BY <1>1, HostCorrect, PTL

(* A parallel host cancels no message before its drain deadline.           *)
THEOREM TasksCutCorrect == Spec => []TasksCutOnlyByTimeout
<1>1. HostInv => TasksCutOnlyByTimeout
  BY DEF HostInv, CutInv, TasksCutOnlyByTimeout
<1> QED
  BY <1>1, HostCorrect, PTL

-----------------------------------------------------------------------------
(* What the host's shutdown of its pool reaches.                           *)

(* shutdown() runs when stop() has gathered every task, so the list stays  *)
(* as it is while the iterator goes through it.                            *)
HostReach ==
    /\ closer # "idle" => stop \in {"closing", "closed"}
    /\ closer = "closing" =>
          \A k \in 1 .. Len(allInstances) : k < cursor => allInstances[k] \in closed
    /\ ShutdownReachesAll

(* Only stop() shuts the pool down.                                        *)
LEMMA OnlyStopShutsDown == [Next]_vars => ClosePool \/ closer' = closer
<1> SUFFICES ASSUME [Next]_vars, ~ClosePool
             PROVE  closer' = closer
  OBVIOUS
<1> USE DEF poolVars
<1>1. CASE OpenPool \/ Subscribe \/ Receive \/ Spawn \/ Stop
  BY <1>1 DEF OpenPool, OpenOne, OpenFails, Subscribe, Receive, Spawn, Stop
<1>2. CASE StopStep
  BY <1>2 DEF StopStep, LoopEnds, Unsubscribed, Drained, DrainExpires, Collected,
              CollectExpires, Closed
<1>3. ASSUME NEW m \in Clients, MessageStep(m)
      PROVE  closer' = closer
  <2>1. CASE InPool(m) \/ LeavePool(m) \/ ExecutePooled(m)
    BY <2>1 DEF InPool, LeavePool, ExecutePooled, Checkout, Resume, Finish, Recycle, Replace,
                ReturnHealthy, ReturnReplaced, ReplaceFails
  <2>2. CASE Cancelled(m)
    BY <2>2 DEF Cancelled, CancelEnds, CancelBody, Cancel
  <2>3. CASE Enter(m) \/ Refuse(m) \/ ExecuteSingle(m) \/ FinishSingle(m) \/ Answer(m)
    BY <2>3 DEF Enter, Refuse, ExecuteSingle, FinishSingle, Answer
  <2> QED
    BY <1>3, <2>1, <2>2, <2>3 DEF MessageStep
<1>4. CASE UNCHANGED vars
  BY <1>4 DEF vars
<1> QED
  BY <1>1, <1>2, <1>3, <1>4 DEF Next

(* Once stop() closes things down, nothing but its own steps happens.      *)
LEMMA QuietWhileClosing ==
    ASSUME HostInv, stop \in {"closing", "closed"}, [Next]_vars
    PROVE  /\ ClosePool \/ UNCHANGED poolVars
           /\ stop' \in {"closing", "closed"}
<1>1. loop = "ended" /\ \A m \in Clients : task[m] \in {"none", "done"}
  BY DEF HostInv, LoopInv, Gathered, InFlight, InStage, TypeOK
<1>2. ~(OpenPool \/ Subscribe \/ Receive \/ Spawn \/ Stop)
  BY <1>1 DEF OpenPool, Subscribe, Receive, Spawn, Stop
<1>3. ASSUME NEW m \in Clients, MessageStep(m)
      PROVE  FALSE
  BY <1>1, <1>3 DEF MessageStep, Enter, Refuse, ExecuteSingle, FinishSingle, ExecutePooled,
     InPool, LeavePool, Answer, Cancelled, CancelEnds, CancelBody
<1>4. CASE StopStep
  BY <1>1, <1>4 DEF StopStep, LoopEnds, Unsubscribed, Drained, DrainExpires, Collected,
     CollectExpires, ClosePool, Closed, hostVars, stopVars
<1>5. CASE UNCHANGED vars
  BY <1>5 DEF vars, hostVars, stopVars
<1> QED
  BY <1>2, <1>3, <1>4, <1>5 DEF Next

(* When the iterator is through, what is not closed is not listed.         *)
LEMMA ShutdownEndsReach ==
    ASSUME HostInv, Reach, HostReach, ShutdownEnds
    PROVE  ShutdownReachesAll'
<1>1. /\ closer = "closing" /\ cursor > Len(allInstances)
      /\ UNCHANGED <<born, closed, lost>>
  BY DEF ShutdownEnds
<1>2. cursor \in Nat /\ Len(allInstances) \in Nat
  BY LenProperties DEF HostInv, TypeOK, PoolTypeOK
<1>3. Entries(allInstances) \subseteq closed
  BY <1>1, <1>2 DEF HostReach, Entries
<1>4. Strays' = Unlisted
  BY <1>1, <1>3 DEF Strays, Unlisted
<1>5. Making = {}
  <2>1. InFlight = {}
    BY <1>1 DEF HostInv, Gathered, HostReach
  <2>2. InsidePool = {}
    BY <2>1 DEF HostInv, TasksInPool, InFlight, InStage
  <2> QED
    BY <2>2 DEF InsidePool, Making, At, Steps
<1>6. Cardinality(Unlisted) =< lost
  BY <1>1, <1>5, ReachFinite, FS_EmptySet DEF Reach, Listed, HostInv, TypeOK, PoolTypeOK
<1> QED
  BY <1>1, <1>4, <1>6 DEF ShutdownReachesAll

(* Every step of the host keeps HostReach.                                 *)
LEMMA HostReachStep ==
    HostInv /\ Reach /\ HostReach /\ [Next]_vars => HostReach'
<1> SUFFICES ASSUME HostInv, Reach, HostReach, [Next]_vars
             PROVE  HostReach'
  OBVIOUS
<1>1. CASE UNCHANGED poolVars
  <2>1. closer # "idle" => stop' \in {"closing", "closed"}
    BY QuietWhileClosing DEF HostReach
  <2>2. Strays' = Strays
    BY <1>1 DEF poolVars, Strays
  <2> QED
    BY <1>1, <2>1, <2>2 DEF poolVars, HostReach, ShutdownReachesAll
<1>2. CASE ClosePool
  <2>1. stop' \in {"closing", "closed"}
    BY <1>2 DEF ClosePool, hostVars, stopVars
  <2>2. CASE Shutdown
    BY <2>1, <2>2 DEF Shutdown, HostReach, ShutdownReachesAll
  <2>3. CASE ShutdownOne
    <3>1. /\ closer = "closing" /\ closer' = closer
          /\ cursor' = cursor + 1 /\ allInstances' = allInstances
          /\ closed' = closed \cup {allInstances[cursor]}
      BY <2>3 DEF ShutdownOne
    <3>2. cursor \in Nat
      BY DEF HostInv, TypeOK, PoolTypeOK
    <3>3. \A k \in 1 .. Len(allInstances') : k < cursor' => allInstances'[k] \in closed'
      BY <3>1, <3>2 DEF HostReach
    <3> QED
      BY <2>1, <3>1, <3>3 DEF HostReach, ShutdownReachesAll
  <2>4. CASE ShutdownEnds
    <3>1. closer' = "done"
      BY <2>4 DEF ShutdownEnds
    <3> QED
      BY <2>1, <2>4, <3>1, ShutdownEndsReach DEF HostReach
  <2> QED
    BY <1>2, <2>2, <2>3, <2>4 DEF ClosePool
<1>3. CASE ~ClosePool /\ ~UNCHANGED poolVars
  <2>1. closer = "idle"
    BY <1>3, QuietWhileClosing DEF HostReach
  <2>2. closer' = "idle"
    BY <1>3, <2>1, OnlyStopShutsDown
  <2> QED
    BY <2>2 DEF HostReach, ShutdownReachesAll
<1> QED
  BY <1>1, <1>2, <1>3

(* After the host's shutdown of its pool the instances that nobody closed  *)
(* are no more than the places given up by failed or cancelled recyclings. *)
THEOREM ShutdownReachesAllCorrect == Spec => []ShutdownReachesAll
<1>1. Init => HostReach
  BY DEF Init, PoolInit, HostReach, ShutdownReachesAll
<1>2. Spec => []Reach
  BY HostUsesPool, ReachCorrect, PTL DEF UsesPool
<1>3. HostReach => ShutdownReachesAll
  BY DEF HostReach
<1> QED
  BY <1>1, <1>2, <1>3, HostCorrect, HostReachStep, PTL DEF Spec

(* No message is ever executed by a handler, nor finds one healthy, whose  *)
(* shutdown() was called.  The pool alone does not promise it, since its   *)
(* shutdown() closes what is lent as well: the host does, which shuts its  *)
(* pool down with no task in it (stop(), steps 1.6 and 1.8).               *)
HandlersOpen == \A m \in Lent : held[m] \notin closed

(* HandlersOpen holds throughout: before shutdown() because of the list,   *)
(* from then on because nobody is in the pool.                             *)
THEOREM HandlersOpenCorrect == Spec => []HandlersOpen
<1>1. Init => HostReach
  BY DEF Init, PoolInit, HostReach, ShutdownReachesAll
<1>2. Spec => [](Reach /\ Roster)
  BY HostUsesPool, ReachCorrect, RosterCorrect, PTL DEF UsesPool
<1>3. ASSUME HostInv, HostReach, Roster
      PROVE  HandlersOpen
  <2>1. CASE closer = "idle"
    BY <1>3, <2>1 DEF Roster, HandlersOpen
  <2>2. CASE closer # "idle"
    <3>1. InFlight = {}
      BY <1>3, <2>2 DEF HostInv, Gathered, HostReach
    <3>2. Lent = {}
      BY <1>3, <3>1 DEF HostInv, TasksInPool, InFlight, InStage, InsidePool, Lent, At, Steps
    <3> QED
      BY <3>2 DEF HandlersOpen
  <2> QED
    BY <2>1, <2>2
<1> QED
  BY <1>1, <1>2, <1>3, HostCorrect, HostReachStep, PTL DEF Spec

-----------------------------------------------------------------------------
(* What stop() waits for.                                                  *)

\* CancelledError is on its way to m, or has sent it into the return of its
\* instance, where only the pool's own calls are awaited.
OnItsWayOut(m) ==
    \/ m \in due
    \/ m \in cut /\ task[m] = "pooled" /\ pc[m] \in {"checking", "closing", "creating"}

(* After the deadline stop() waits for nobody's execute() and for nobody's *)
(* turn in the pool's queue.                                               *)
WaitsForNobody == stop = "gathering" => \A m \in InFlight : OnItsWayOut(m)

(* One caller's step moves another only from the queue.                    *)
LEMMA OthersStay ==
    ASSUME HostInv, NEW m \in Clients, NEW d \in Clients, d # m,
           ExecutePooled(m) \/ InPool(m) \/ LeavePool(m) \/ Cancelled(m),
           pc[d] # "parked"
    PROVE  pc'[d] = pc[d]
<1>1. pc \in [Clients -> Steps]
  BY DEF HostInv, TypeOK, PoolTypeOK
<1>2. getters # <<>> => Head(getters) # d
  BY TailIs DEF HostInv, TypeOK, PoolTypeOK, PoolInv, InLine
<1>3. LeaveAndWake(m) => pc'[d] = pc[d]
  BY <1>1, <1>2 DEF LeaveAndWake
<1>4. CASE ExecutePooled(m)
  BY <1>1, <1>4 DEF ExecutePooled, Checkout, Take, Park
<1>5. CASE InPool(m)
  BY <1>1, <1>5 DEF InPool, Resume, Take, Park, Finish, Recycle, Replace
<1>6. CASE LeavePool(m)
  BY <1>1, <1>3, <1>6 DEF LeavePool, ReturnHealthy, ReturnReplaced, ReplaceFails, PutBack
<1>7. CASE Cancelled(m)
  BY <1>1, <1>3, <1>7 DEF Cancelled, CancelEnds, CancelBody, Cancel, CancelParked,
     CancelWoken, CancelUsing, CancelReturn, poolVars
<1> QED
  BY <1>4, <1>5, <1>6, <1>7

(* Whoever is on the way out leaves, or stays on it.                       *)
LEMMA StaysOnItsWay ==
    ASSUME HostInv, NEW m \in Clients, OnItsWayOut(m), MessageStep(m)
    PROVE  task'[m] = "done" \/ OnItsWayOut(m)'
<1>1. task \in [Clients -> Stages] /\ pc \in [Clients -> Steps]
  BY DEF HostInv, TypeOK, PoolTypeOK
<1>2. CASE Enter(m)
  BY <1>1, <1>2 DEF Enter, OnItsWayOut, cancelVars
<1>3. CASE Cancelled(m)
  BY <1>1, <1>3 DEF Cancelled, CancelEnds, CancelBody, Exit, Cancel, CancelParked,
     CancelWoken, CancelUsing, CancelReturn, OnItsWayOut, taskVars
<1>4. CASE InPool(m)
  BY <1>1, <1>4 DEF InPool, Resume, Finish, Recycle, Replace, OnItsWayOut, hostVars,
     cancelVars, taskVars
<1>5. CASE LeavePool(m)
  BY <1>1, <1>5 DEF LeavePool, Exit, OnItsWayOut
<1>6. ~(Refuse(m) \/ ExecuteSingle(m) \/ FinishSingle(m) \/ ExecutePooled(m) \/ Answer(m))
  BY DEF Refuse, ExecuteSingle, FinishSingle, ExecutePooled, Answer, OnItsWayOut
<1> QED
  BY <1>2, <1>3, <1>4, <1>5, <1>6 DEF MessageStep

(* Every step of the host keeps WaitsForNobody.                            *)
LEMMA WaitsForNobodyStep ==
    HostInv /\ WaitsForNobody /\ [Next]_vars => WaitsForNobody'
<1> SUFFICES ASSUME HostInv, WaitsForNobody, [Next]_vars, stop' = "gathering",
                    NEW d \in Clients, d \in InFlight'
             PROVE  OnItsWayOut(d)'
  BY DEF WaitsForNobody, InFlight
<1>1. task \in [Clients -> Stages] /\ pc \in [Clients -> Steps]
  BY DEF HostInv, TypeOK, PoolTypeOK
<1>2. CASE CollectExpires
  BY <1>2 DEF CollectExpires, OnItsWayOut, InFlight, InStage, taskVars
<1>3. ASSUME NEW m \in Clients, MessageStep(m)
      PROVE  OnItsWayOut(d)'
  <2>1. stop = "gathering"
    BY <1>3 DEF MessageStep, Enter, Refuse, ExecuteSingle, FinishSingle, ExecutePooled,
       InPool, LeavePool, Answer, Cancelled, stopVars, hostVars
  <2>2. CASE d = m
    <3>1. m \in InFlight
      BY <1>3 DEF MessageStep, Enter, Refuse, ExecuteSingle, FinishSingle, ExecutePooled,
         InPool, LeavePool, Answer, Cancelled, CancelEnds, CancelBody, InFlight, InStage
    <3> QED
      BY <1>3, <2>1, <2>2, <3>1, StaysOnItsWay DEF WaitsForNobody, InFlight, InStage
  <2>3. CASE d # m
    <3>1. task'[d] = task[d]
      BY <1>1, <1>3, <2>3 DEF MessageStep, Enter, Refuse, ExecuteSingle, FinishSingle,
         ExecutePooled, InPool, LeavePool, Answer, Cancelled, CancelEnds, CancelBody,
         Handled, Exit, hostVars, taskVars
    <3>2. OnItsWayOut(d)
      BY <2>1, <3>1 DEF WaitsForNobody, InFlight, InStage
    <3>3. (d \in due => d \in due') /\ cut \subseteq cut'
      BY <1>3, <2>3 DEF MessageStep, Enter, Refuse, ExecuteSingle, FinishSingle,
         ExecutePooled, InPool, LeavePool, Answer, Cancelled, hostVars, cancelVars
    <3>4. pc[d] # "parked" => pc'[d] = pc[d]
      <4>1. CASE ExecutePooled(m) \/ InPool(m) \/ LeavePool(m) \/ Cancelled(m)
        BY <2>3, <4>1, OthersStay
      <4>2. CASE ~(ExecutePooled(m) \/ InPool(m) \/ LeavePool(m) \/ Cancelled(m))
        BY <1>3, <4>2 DEF MessageStep, Enter, Refuse, ExecuteSingle, FinishSingle, Answer,
           poolVars
      <4> QED
        BY <4>1, <4>2
    <3> QED
      BY <3>1, <3>2, <3>3, <3>4 DEF OnItsWayOut
  <2> QED
    BY <2>2, <2>3
<1>4. CASE UNCHANGED vars
  BY <1>4 DEF vars, poolVars, hostVars, taskVars, cancelVars, stopVars, WaitsForNobody,
     OnItsWayOut, InFlight, InStage
<1>5. ~(OpenPool \/ Subscribe \/ Receive \/ Spawn \/ Stop)
  BY DEF OpenPool, Subscribe, Receive, Spawn, Stop, stopVars, hostVars, HostInv, LoopInv
<1>6. ~CollectExpires => ~StopStep
  BY DEF StopStep, LoopEnds, Unsubscribed, Drained, DrainExpires, Collected, ClosePool,
     Closed, stopVars, hostVars
<1> QED
  BY <1>2, <1>3, <1>4, <1>5, <1>6 DEF Next

(* Once its deadline is over, stop() waits only for messages that          *)
(* CancelledError is about to reach or has made return their instance: not *)
(* for a handler that hangs, and not for a caller parked on a pool that    *)
(* has shrunk to nothing (stop(), step 1.6).                               *)
THEOREM WaitsForNobodyCorrect == Spec => []WaitsForNobody
<1>1. Init => WaitsForNobody
  BY DEF Init, HostInit, WaitsForNobody
<1> QED
  BY <1>1, HostCorrect, WaitsForNobodyStep, PTL DEF Spec

=============================================================================
