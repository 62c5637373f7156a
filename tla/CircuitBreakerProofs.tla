------------------------ MODULE CircuitBreakerProofs ------------------------
(***************************************************************************)
(* Theorems of CircuitBreaker for every set of calls, every threshold and  *)
(* either setting of active recovery.                                      *)
(***************************************************************************)
EXTENDS CircuitBreaker, TLAPS

(* Type correctness.                                                       *)
THEOREM TypeCorrect == Spec => []TypeOK
<1>1. Init => TypeOK
  BY DEF Init, TypeOK, States
<1>2. TypeOK /\ [Next]_vars => TypeOK'
  <2> SUFFICES ASSUME TypeOK, [Next]_vars
               PROVE  TypeOK'
    OBVIOUS
  <2> USE DEF TypeOK, States, breaker, CancelTimer
  <2>1. ASSUME NEW c \in Calls, CheckPasses(c)
        PROVE  TypeOK'
    BY <2>1 DEF CheckPasses
  <2>2. ASSUME NEW c \in Calls, CheckHalfOpens(c)
        PROVE  TypeOK'
    BY <2>2 DEF CheckHalfOpens, EnterHalfOpen
  <2>3. ASSUME NEW c \in Calls, RecordFailure(c)
        PROVE  TypeOK'
    BY <2>3 DEF RecordFailure, Trip, StartTimer
  <2>4. ASSUME NEW c \in Calls, RecordProbeSuccess(c)
        PROVE  TypeOK'
    BY <2>4 DEF RecordProbeSuccess, EnterClosed
  <2>5. ASSUME NEW c \in Calls, RecordSuccess(c)
        PROVE  TypeOK'
    BY <2>5 DEF RecordSuccess, EnterClosed
  <2>6. ASSUME NEW c \in Calls, Abandon(c)
        PROVE  TypeOK'
    BY <2>6 DEF Abandon
  <2>7. CASE WindowElapses
    BY <2>7 DEF WindowElapses
  <2>8. CASE TimerWakes
    BY <2>8 DEF TimerWakes
  <2>9. CASE TimerRecovers
    BY <2>9 DEF TimerRecovers, EnterHalfOpen
  <2>10. CASE CancelActiveRecovery
    BY <2>10 DEF CancelActiveRecovery
  <2>11. CASE UNCHANGED vars
    BY <2>11 DEF vars
  <2> QED
    BY <2>1, <2>2, <2>3, <2>4, <2>5, <2>6, <2>7, <2>8, <2>9, <2>10, <2>11
    DEF Next, CallStep
<1> QED
  BY <1>1, <1>2, PTL DEF Spec

-----------------------------------------------------------------------------
(* The three state invariants are inductive together: the counters need    *)
(* the exclusion of OPEN and HALF_OPEN, and the recovery task acts on the  *)
(* counters only because it never outlives its opening.                    *)

BreakerInv == CountersMatchState /\ TimerServesOpening /\ OpenAdmitsNobody

(* The inductive invariant holds initially.                                *)
LEMMA BreakerInvInit == Init => BreakerInv
  BY ThresholdAssumption, HalfOpenAssumption
  DEF Init, BreakerInv, CountersMatchState, TimerServesOpening, OpenAdmitsNobody

(* Every step of callers, clock and recovery task keeps the inductive      *)
(* invariant.                                                              *)
LEMMA BreakerInvStep ==
    ASSUME TypeOK, BreakerInv, [Next]_vars
    PROVE  BreakerInv'
<1> USE ThresholdAssumption, HalfOpenAssumption
    DEF TypeOK, BreakerInv, CountersMatchState, TimerServesOpening,
        OpenAdmitsNobody, breaker, CancelTimer
<1>1. ASSUME NEW c \in Calls, CheckPasses(c)
      PROVE  BreakerInv'
  BY <1>1 DEF CheckPasses
<1>2. ASSUME NEW c \in Calls, CheckHalfOpens(c)
      PROVE  BreakerInv'
  BY <1>2 DEF CheckHalfOpens, EnterHalfOpen
<1>3. ASSUME NEW c \in Calls, RecordFailure(c)
      PROVE  BreakerInv'
  BY <1>3 DEF RecordFailure, Trip, StartTimer
<1>4. ASSUME NEW c \in Calls, RecordProbeSuccess(c)
      PROVE  BreakerInv'
  BY <1>4 DEF RecordProbeSuccess, EnterClosed
<1>5. ASSUME NEW c \in Calls, RecordSuccess(c)
      PROVE  BreakerInv'
  BY <1>5 DEF RecordSuccess, EnterClosed
<1>6. ASSUME NEW c \in Calls, Abandon(c)
      PROVE  BreakerInv'
  BY <1>6 DEF Abandon
<1>7. CASE WindowElapses
  BY <1>7 DEF WindowElapses
<1>8. CASE TimerWakes
  BY <1>8 DEF TimerWakes
<1>9. CASE TimerRecovers
  BY <1>9 DEF TimerRecovers, EnterHalfOpen
<1>10. CASE CancelActiveRecovery
  BY <1>10 DEF CancelActiveRecovery
<1>11. CASE UNCHANGED vars
  BY <1>11 DEF vars
<1> QED
  BY <1>1, <1>2, <1>3, <1>4, <1>5, <1>6, <1>7, <1>8, <1>9, <1>10, <1>11
  DEF Next, CallStep

(* The counters of the breaker always are those of its state, its recovery *)
(* task always belongs to the opening it was started for, and no call gets *)
(* in while it is OPEN.                                                    *)
THEOREM BreakerCorrect ==
    Spec => [](CountersMatchState /\ TimerServesOpening /\ OpenAdmitsNobody)
<1>1. TypeOK /\ BreakerInv /\ [Next]_vars => BreakerInv'
  BY BreakerInvStep
<1> QED
  BY <1>1, TypeCorrect, BreakerInvInit, PTL DEF Spec, BreakerInv

(* _reset_circuit(), _record_circuit_failure(): a recovery task never      *)
(* outlives the opening it was started for.                                *)
THEOREM TimerCorrect == Spec => []TimerServesOpening
  BY BreakerCorrect, PTL

(* _check_circuit_breaker(): while the breaker is OPEN nobody gets in.     *)
THEOREM AdmissionCorrect == Spec => []OpenAdmitsNobody
  BY BreakerCorrect, PTL

(* An OPEN breaker yields only to the end of its window, to its recovery   *)
(* task or to a late success.                                              *)
THEOREM LeavesOpenOnlyForCause == Spec => LeavesOpenForCause
<1> DEFINE Cause == state = "open" /\ state' # "open" =>
        \/ window = "over"
        \/ timer = "awake"
        \/ \E c \in running \ fresh :
               running' = running \ {c} /\ state' = "closed"
<1>1. ASSUME TypeOK, BreakerInv, [Next]_vars
      PROVE  [Cause]_vars
  <2> SUFFICES ASSUME state = "open", state' # "open"
               PROVE  Cause
    OBVIOUS
  <2> USE <1>1 DEF BreakerInv, CountersMatchState, OpenAdmitsNobody, breaker
  <2>1. ASSUME NEW c \in Calls, CheckPasses(c)
        PROVE  Cause
    BY <2>1 DEF CheckPasses
  <2>2. ASSUME NEW c \in Calls, CheckHalfOpens(c)
        PROVE  Cause
    BY <2>2 DEF CheckHalfOpens
  <2>3. ASSUME NEW c \in Calls, RecordFailure(c)
        PROVE  Cause
    BY <2>3 DEF RecordFailure, Trip
  <2>4. ASSUME NEW c \in Calls, RecordProbeSuccess(c)
        PROVE  Cause
    BY <2>4 DEF RecordProbeSuccess
  <2>5. ASSUME NEW c \in Calls, RecordSuccess(c)
        PROVE  Cause
    BY <2>5 DEF RecordSuccess, EnterClosed
  <2>6. ASSUME NEW c \in Calls, Abandon(c)
        PROVE  Cause
    BY <2>6 DEF Abandon
  <2>7. CASE WindowElapses
    BY <2>7 DEF WindowElapses
  <2>8. CASE TimerWakes
    BY <2>8 DEF TimerWakes
  <2>9. CASE TimerRecovers
    BY <2>9 DEF TimerRecovers
  <2>10. CASE CancelActiveRecovery
    BY <2>10 DEF CancelActiveRecovery
  <2>11. CASE UNCHANGED vars
    BY <2>11 DEF vars
  <2> QED
    BY <2>1, <2>2, <2>3, <2>4, <2>5, <2>6, <2>7, <2>8, <2>9, <2>10, <2>11
    DEF Next, CallStep
<1>2. Spec => []BreakerInv
  BY BreakerCorrect DEF BreakerInv
<1> QED
  BY <1>1, <1>2, TypeCorrect, PTL DEF Spec, LeavesOpenForCause

=============================================================================
