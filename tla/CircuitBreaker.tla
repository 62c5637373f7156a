--------------------------- MODULE CircuitBreaker ---------------------------
(***************************************************************************)
(* MixinAsyncCircuitBreaker and the calls it protects.                     *)
(*                                                                         *)
(* A protected call is three critical sections under one asyncio.Lock,     *)
(* with awaits between them: check, then (after the operation) reset on    *)
(* success or record on failure.  The OPEN breaker also owns a background  *)
(* recovery task that sleeps and then takes the same lock.  Each critical  *)
(* section is one action here; everything between them interleaves.        *)
(*                                                                         *)
(* The two flags open and half_open are one variable: every assignment in  *)
(* the code leaves at most one of them set.  Time is abstracted to the two *)
(* comparisons the code makes.  window = "over" is time.time() >=          *)
(* _circuit_breaker_open_until (wall clock) and timer = "awake" is the end *)
(* of asyncio.sleep(reset_timeout) (monotonic clock); the two clocks are   *)
(* independent, so either may come first.  The transition callback is told *)
(* fire-and-forget and is left out.                                        *)
(***************************************************************************)
EXTENDS Naturals

CONSTANTS
    Calls,              \* protected calls that may be under way at once
    Threshold,          \* circuit_breaker_threshold
    HalfOpenSuccesses,  \* circuit_breaker_half_open_successes
    ActiveRecovery      \* _cb_enable_active_recovery

\* _init_circuit_breaker refuses a threshold or a success count below 1.
ASSUME ThresholdAssumption == Threshold \in Nat \ {0}
ASSUME HalfOpenAssumption == HalfOpenSuccesses \in Nat \ {0}
ASSUME RecoveryAssumption == ActiveRecovery \in BOOLEAN

VARIABLES
    state,        \* _circuit_breaker_open and _circuit_breaker_half_open
    failures,     \* _circuit_breaker_failures
    successes,    \* _circuit_breaker_half_open_success_count
    window,       \* is the wall clock before _circuit_breaker_open_until?
    timer,        \* _cb_recovery_task: no task, asleep, or waiting for the lock
    running,      \* calls admitted by a check whose outcome is not yet recorded
    fresh,        \* those of them admitted since the breaker last changed state
    component     \* "closing" once it has called cancel_active_recovery

breaker == <<state, failures, successes, window>>
vars == <<state, failures, successes, window, timer, running, fresh,
          component>>

States == {"closed", "open", "half_open"}

Init ==
    /\ state = "closed"
    /\ failures = 0
    /\ successes = 0
    /\ window = "over"
    /\ timer = "none"
    /\ running = {}
    /\ fresh = {}
    /\ component = "up"

-----------------------------------------------------------------------------
(* The transitions the critical sections are made of.                      *)

\* Mutant: the task is never scheduled.
StartTimerForgotten == UNCHANGED timer

StartTimer == timer' = IF ActiveRecovery THEN "sleeping" ELSE timer

\* Mutant: the task survives the end of its opening.
CancelTimerForgotten == UNCHANGED timer

CancelTimer == timer' = "none"

\* CLOSED or HALF_OPEN to OPEN: a new window, a new timer.
Trip ==
    /\ state' = "open"
    /\ successes' = 0
    /\ window' = "running"
    /\ StartTimer

\* Mutant: the failures that opened the breaker are kept.
EnterHalfOpenKeepsFailures ==
    /\ state' = "half_open"
    /\ successes' = 0
    /\ UNCHANGED <<failures, window>>

\* OPEN to HALF_OPEN.
EnterHalfOpen ==
    /\ state' = "half_open"
    /\ successes' = 0
    /\ failures' = 0
    /\ UNCHANGED window

\* Back to CLOSED.
EnterClosed ==
    /\ state' = "closed"
    /\ successes' = 0
    /\ failures' = 0
    /\ window' = "over"
    /\ CancelTimer

-----------------------------------------------------------------------------
(* _check_circuit_breaker: admit the call, passing an expired OPEN breaker *)
(* to HALF_OPEN on the way.  The refusal (InfraUnavailableError) changes   *)
(* nothing and is the absence of a step.  Nothing counts the calls a       *)
(* HALF_OPEN breaker lets through.                                         *)

\* Mutant: an OPEN breaker is not refused.
CheckPassesOpen(c) ==
    /\ c \notin running
    /\ component = "up"
    /\ running' = running \cup {c}
    /\ fresh' = fresh \cup {c}
    /\ UNCHANGED <<breaker, timer, component>>

CheckPasses(c) ==
    /\ c \notin running
    /\ component = "up"
    /\ state # "open"
    /\ running' = running \cup {c}
    /\ fresh' = fresh \cup {c}
    /\ UNCHANGED <<breaker, timer, component>>

\* Mutant: the window is not looked at.
CheckHalfOpensEarly(c) ==
    /\ c \notin running
    /\ component = "up"
    /\ state = "open"
    /\ EnterHalfOpen
    /\ CancelTimer
    /\ running' = running \cup {c}
    /\ fresh' = {c}
    /\ UNCHANGED component

CheckHalfOpens(c) ==
    /\ c \notin running
    /\ component = "up"
    /\ state = "open" /\ window = "over"
    /\ EnterHalfOpen
    /\ CancelTimer
    /\ running' = running \cup {c}
    /\ fresh' = {c}
    /\ UNCHANGED component

\* _record_circuit_failure.
RecordFailure(c) ==
    /\ c \in running
    /\ running' = running \ {c}
    /\ failures' = failures + 1
    /\ \/ /\ \/ state = "half_open"
             \/ state = "closed" /\ failures + 1 >= Threshold
          /\ Trip
          /\ fresh' = {}
       \/ /\ \/ state = "open"
             \/ state = "closed" /\ failures + 1 < Threshold
          /\ fresh' = fresh \ {c}
          /\ UNCHANGED <<state, successes, window, timer>>
    /\ UNCHANGED component

\* _reset_circuit_breaker in HALF_OPEN: one more success of those required.
RecordProbeSuccess(c) ==
    /\ c \in running
    /\ running' = running \ {c}
    /\ state = "half_open"
    /\ IF successes + 1 >= HalfOpenSuccesses
         THEN /\ EnterClosed
              /\ fresh' = {}
         ELSE /\ successes' = successes + 1
              /\ fresh' = fresh \ {c}
              /\ UNCHANGED <<state, failures, window, timer>>
    /\ UNCHANGED component

\* _reset_circuit_breaker otherwise: CLOSED stays so, and OPEN closes at once
\* (the call was admitted before the breaker opened).
RecordSuccess(c) ==
    /\ c \in running
    /\ running' = running \ {c}
    /\ state # "half_open"
    /\ EnterClosed
    /\ fresh' = IF state = "open" THEN {} ELSE fresh \ {c}
    /\ UNCHANGED component

\* The caller is cancelled between check and record: nothing is recorded.
Abandon(c) ==
    /\ c \in running
    /\ running' = running \ {c}
    /\ fresh' = fresh \ {c}
    /\ UNCHANGED <<breaker, timer, component>>

-----------------------------------------------------------------------------
(* Time, the recovery task and the component's close.                      *)

WindowElapses ==
    /\ state = "open" /\ window = "running"
    /\ window' = "over"
    /\ UNCHANGED <<state, failures, successes, timer, running, fresh,
                   component>>

TimerWakes ==
    /\ timer = "sleeping"
    /\ timer' = "awake"
    /\ UNCHANGED <<breaker, running, fresh, component>>

\* Mutant: the finished task is left in _cb_recovery_task.
TimerRecoversKeepsTask ==
    /\ timer = "awake"
    /\ timer' = "done"
    /\ IF state = "open"
         THEN EnterHalfOpen /\ fresh' = {}
         ELSE UNCHANGED <<breaker, fresh>>
    /\ UNCHANGED <<running, component>>

\* The end of _active_recovery_coroutine, once it has the lock.
TimerRecovers ==
    /\ timer = "awake"
    /\ timer' = "none"
    /\ IF state = "open"
         THEN EnterHalfOpen /\ fresh' = {}
         ELSE UNCHANGED <<breaker, fresh>>
    /\ UNCHANGED <<running, component>>

\* cancel_active_recovery, from the component's close: calls already admitted
\* still record their outcome, new ones are refused by the component.
CancelActiveRecovery ==
    /\ component = "up"
    /\ component' = "closing"
    /\ CancelTimer
    /\ UNCHANGED <<breaker, running, fresh>>

-----------------------------------------------------------------------------
CallStep(c) ==
    \/ CheckPasses(c)
    \/ CheckHalfOpens(c)
    \/ RecordFailure(c)
    \/ RecordProbeSuccess(c)
    \/ RecordSuccess(c)
    \/ Abandon(c)

Next ==
    \/ \E c \in Calls : CallStep(c)
    \/ WindowElapses
    \/ TimerWakes
    \/ TimerRecovers
    \/ CancelActiveRecovery

Spec == Init /\ [][Next]_vars

\* A sleeping task wakes and a task queued on asyncio.Lock (FIFO, never held
\* across an await) gets it.  Nothing is assumed of the callers.
Fairness == WF_vars(TimerWakes) /\ WF_vars(TimerRecovers)

FairSpec == Spec /\ Fairness

-----------------------------------------------------------------------------
TypeOK ==
    /\ state \in States
    /\ failures \in Nat
    /\ successes \in Nat
    /\ window \in {"running", "over"}
    /\ timer \in {"none", "sleeping", "awake"}
    /\ running \subseteq Calls
    /\ fresh \subseteq running
    /\ component \in {"up", "closing"}

\* However failures, late outcomes and recoveries interleave, the counters are
\* those of the breaker's state: a breaker that is not open is still below its
\* failure threshold (it opens exactly at the threshold, and no late failure is
\* left over after a recovery), and a success is only ever counted towards
\* closing a half-open breaker.
CountersMatchState ==
    /\ state # "open" => failures < Threshold
    /\ state = "half_open" => failures = 0 /\ successes < HalfOpenSuccesses
    /\ state # "half_open" => successes = 0

\* A recovery task exists only for an OPEN breaker, so one that outlived its
\* opening (closed by a late success, half-opened by a check, re-opened since)
\* can never act on a later state; and, until the component closes, an OPEN
\* breaker is never without the task that will half-open it.
TimerServesOpening ==
    /\ timer # "none" => state = "open"
    /\ state = "open" /\ ActiveRecovery /\ component = "up" => timer # "none"

\* While the breaker is OPEN every call still running was admitted before it
\* opened: no interleaving of checks, wake-ups and late outcomes lets one in.
OpenAdmitsNobody == state = "open" => fresh = {}

\* An OPEN breaker yields only to the end of its window, to its recovery task,
\* or to the late success of a call admitted before it opened.
LeavesOpenForCause ==
    [][state = "open" /\ state' # "open" =>
        \/ window = "over"
        \/ timer = "awake"
        \/ \E c \in running \ fresh :
               running' = running \ {c} /\ state' = "closed"]_vars

\* Active recovery: with no caller at all an OPEN breaker leaves OPEN, unless
\* the component is closed.
RecoversUnattended ==
    ActiveRecovery => (state = "open" ~> (state # "open" \/ component = "closing"))

=============================================================================
