---------------------------- MODULE RuntimeHost ----------------------------
(***************************************************************************)
(* runtime/runtime_host_process.py: messages of the input topic reach      *)
(* _on_message(), which handles them one at a time in the consume loop, or *)
(* (max_concurrent_handlers > 1) hands each to a task of its own once a    *)
(* semaphore lets it; the tasks take their handlers from a HandlerPool.    *)
(* stop() unsubscribes, waits for what is pending, cancels the rest at the *)
(* drain deadline and then shuts pool and handlers down.  The composition  *)
(* of the host with the pool: the pool's callers are the host's tasks, and *)
(* it is the host that cancels them and shuts the pool down.               *)
(***************************************************************************)
EXTENDS HandlerPool

CONSTANTS
    LogEnd,         \* how many messages the input topic holds
    Concurrencies   \* the values of max_concurrent_handlers considered

ASSUME MessagesAssumption == LogEnd \in Nat /\ Clients = 1 .. LogEnd
ASSUME ConcurrentAssumption == Concurrencies \subseteq Nat \ {0}

VARIABLES
    concurrency,  \* _max_concurrent_handlers, fixed when the host is made
    loop,      \* the bus's consume loop for the input topic
    received,  \* how many messages it has handed to _on_message()
    permits,   \* the value of _handler_semaphore
    pending,   \* _pending_message_count
    task,      \* how far each message is
    due,       \* the messages whose CancelledError is on its way
    cut,       \* the messages that CancelledError has reached
    stop,      \* where stop() is
    expired    \* the drain deadline has passed

feedVars == <<concurrency, loop, received>>
taskVars == <<permits, pending, task>>
cancelVars == <<due, cut>>
stopVars == <<stop, expired>>
hostVars == <<feedVars, taskVars, cancelVars, stopVars>>
vars == <<poolVars, hostVars>>

Sequential == concurrency = 1

\* A pool is made only for parallel handling with more than one instance.
Pooling == ~Sequential /\ PoolSize > 1

\* created: the task exists but has not run; running: decoding, validation and the
\* idempotency check; single: execute() of the only handler; pooled: inside
\* checkout(); answering: publishing an error response.
Stages == {"none", "created", "running", "single", "pooled", "answering", "done"}

InStage(stages) == {m \in Clients : task[m] \in stages}

\* _in_flight_tasks (in sequential mode: the message in the loop's hands).
InFlight == Clients \ InStage({"none", "done"})

HostInit ==
    /\ concurrency \in Concurrencies
    /\ loop = "off"
    /\ received = 0
    /\ permits = concurrency
    /\ pending = 0
    /\ task = [m \in Clients |-> "none"]
    /\ due = {}
    /\ cut = {}
    /\ stop = "running"
    /\ expired = FALSE

Init == PoolInit /\ HostInit

-----------------------------------------------------------------------------
(* start() *)

\* _populate_handlers_from_registry(): a pool that fails to open is left out, and
\* its handler type keeps the single handler.
OpenPool ==
    /\ Pooling
    /\ loop = "off"
    /\ OpenOne \/ OpenFails
    /\ UNCHANGED hostVars

Subscribe ==
    /\ loop = "off"
    /\ Pooling => opener # "idle"
    /\ loop' = "polling"
    /\ UNCHANGED <<poolVars, concurrency, received, taskVars, cancelVars, stopVars>>

-----------------------------------------------------------------------------
(* _on_message() *)

\* Sequential: the message is handled inside the consume loop.
ReceiveInline ==
    /\ Sequential
    /\ loop' = "handling"
    /\ pending' = pending + 1
    /\ task' = [task EXCEPT ![received'] = "running"]

\* Parallel: the loop waits for the semaphore.
ReceiveForTask ==
    /\ ~Sequential
    /\ loop' = "acquiring"
    /\ UNCHANGED <<pending, task>>

Receive ==
    /\ loop = "polling"
    /\ stop = "running"
    /\ received < LogEnd
    /\ received' = received + 1
    /\ ReceiveInline \/ ReceiveForTask
    /\ UNCHANGED <<poolVars, concurrency, permits, cancelVars, stopVars>>

\* The semaphore is acquired; create_task() and on to the next message.
Spawn ==
    /\ loop = "acquiring"
    /\ stop = "running"
    /\ permits > 0
    /\ permits' = permits - 1
    /\ task' = [task EXCEPT ![received] = "created"]
    /\ loop' = "polling"
    /\ UNCHANGED <<poolVars, concurrency, received, pending, cancelVars, stopVars>>

-----------------------------------------------------------------------------
(* _process_message_with_semaphore(), _process_message_sequential() *)

Enter(m) ==
    /\ task[m] = "created"
    /\ pending' = pending + 1
    /\ task' = [task EXCEPT ![m] = "running"]
    /\ UNCHANGED <<poolVars, feedVars, permits, cancelVars, stopVars>>

\* Mutant: the semaphore is not released.
ExitKeepsPermit(m) ==
    /\ task' = [task EXCEPT ![m] = "done"]
    /\ pending' = pending - 1
    /\ UNCHANGED <<permits, loop>>

\* The finally block.  _pending_lock is never held across an await, so nothing
\* comes between the release and the count.
Exit(m) ==
    /\ task' = [task EXCEPT ![m] = "done"]
    /\ pending' = pending - 1
    /\ IF Sequential
       THEN /\ loop' = IF stop = "running" THEN "polling" ELSE "ended"
            /\ UNCHANGED permits
       ELSE /\ permits' = permits + 1
            /\ UNCHANGED loop

\* _handle_envelope() returns, or goes on to publish an error response.
Handled(m) ==
    \/ Exit(m)
    \/ /\ task' = [task EXCEPT ![m] = "answering"]
       /\ UNCHANGED <<loop, permits, pending>>

\* A gateway refusal or a duplicate ends it silently; an undecodable or invalid
\* envelope is answered.
Refuse(m) ==
    /\ task[m] = "running"
    /\ m \notin due
    /\ Handled(m)
    /\ UNCHANGED <<poolVars, concurrency, received, cancelVars, stopVars>>

\* _execute_handler_single()
ExecuteSingle(m) ==
    /\ task[m] = "running"
    /\ m \notin due
    /\ opener # "done"
    /\ task' = [task EXCEPT ![m] = "single"]
    /\ UNCHANGED <<poolVars, feedVars, permits, pending, cancelVars, stopVars>>

FinishSingle(m) ==
    /\ task[m] = "single"
    /\ m \notin due
    /\ Handled(m)
    /\ UNCHANGED <<poolVars, concurrency, received, cancelVars, stopVars>>

\* _execute_handler_pooled(): checkout(), execute() and the response inside it.
ExecutePooled(m) ==
    /\ task[m] = "running"
    /\ m \notin due
    /\ Checkout(m)
    /\ task' = [task EXCEPT ![m] = "pooled"]
    /\ UNCHANGED <<feedVars, permits, pending, cancelVars, stopVars>>

InPool(m) ==
    /\ task[m] = "pooled"
    /\ m \notin due
    /\ Resume(m) \/ Finish(m) \/ Recycle(m) \/ Replace(m)
    /\ UNCHANGED hostVars

\* The end of the with-block.  A cancelled body lets nothing follow it.
LeavePool(m) ==
    /\ task[m] = "pooled"
    /\ m \notin due
    /\ ReturnHealthy(m) \/ ReturnReplaced(m) \/ ReplaceFails(m)
    /\ IF m \in cut THEN Exit(m) ELSE Handled(m)
    /\ UNCHANGED <<concurrency, received, cancelVars, stopVars>>

Answer(m) ==
    /\ task[m] = "answering"
    /\ m \notin due
    /\ Exit(m)
    /\ UNCHANGED <<poolVars, concurrency, received, cancelVars, stopVars>>

-----------------------------------------------------------------------------
(* CancelledError *)

\* Outside the pool, and at the awaits of checkout() that end it.
CancelEnds(m) ==
    /\ \/ /\ task[m] \in {"running", "single", "answering"}
          /\ UNCHANGED poolVars
       \/ /\ task[m] = "pooled"
          /\ pc[m] # "using"
          /\ Cancel(m)
    /\ Exit(m)

\* In the body of the with-block: the return to the pool still runs.
CancelBody(m) ==
    /\ task[m] = "pooled"
    /\ pc[m] = "using"
    /\ Cancel(m)
    /\ UNCHANGED <<loop, taskVars>>

Cancelled(m) ==
    /\ m \in due
    /\ due' = due \ {m}
    /\ cut' = cut \cup {m}
    /\ CancelEnds(m) \/ CancelBody(m)
    /\ UNCHANGED <<concurrency, received, stopVars>>

-----------------------------------------------------------------------------
(* stop() *)

\* Mutant: the tasks are cancelled together with the loop.
StopCancelsAll ==
    /\ stop = "running"
    /\ loop # "off"
    /\ stop' = "unsubscribing"
    /\ due' = InFlight \ InStage({"created"})
    /\ UNCHANGED <<poolVars, feedVars, taskVars, cut, expired>>

\* Step 1: unsubscribe() cancels the consume loop, with whatever it is doing.
Stop ==
    /\ stop = "running"
    /\ loop # "off"
    /\ stop' = "unsubscribing"
    /\ due' = IF loop = "handling" THEN {received} ELSE {}
    /\ UNCHANGED <<poolVars, feedVars, taskVars, cut, expired>>

\* The loop ends; a message that waits for the semaphore ends with it.
LoopEnds ==
    /\ stop = "unsubscribing"
    /\ loop \in {"polling", "acquiring"}
    /\ loop' = "ended"
    /\ UNCHANGED <<poolVars, concurrency, received, taskVars, cancelVars, stopVars>>

Unsubscribed ==
    /\ stop = "unsubscribing"
    /\ loop = "ended"
    /\ stop' = "draining"
    /\ UNCHANGED <<poolVars, feedVars, taskVars, cancelVars, expired>>

\* Step 1.5: shutdown_ready() is polled until the deadline.
Drained ==
    /\ stop = "draining"
    /\ pending = 0
    /\ stop' = "collecting"
    /\ UNCHANGED <<poolVars, feedVars, taskVars, cancelVars, expired>>

DrainExpires ==
    /\ stop = "draining"
    /\ pending > 0
    /\ stop' = "collecting"
    /\ expired' = TRUE
    /\ UNCHANGED <<poolVars, feedVars, taskVars, cancelVars>>

\* Mutant: the pending count alone decides.
CollectedByCount ==
    /\ stop \in {"collecting", "gathering"}
    /\ pending = 0
    /\ stop' = "closing"
    /\ UNCHANGED <<poolVars, feedVars, taskVars, cancelVars, expired>>

\* Step 1.6, drain_in_flight_tasks(): wait for all, or cancel what is left when the
\* time is up.  A task has run its first step before any timer that is set later.
Collected ==
    /\ stop \in {"collecting", "gathering"}
    /\ InFlight = {}
    /\ stop' = "closing"
    /\ UNCHANGED <<poolVars, feedVars, taskVars, cancelVars, expired>>

\* Mutant: what is left is awaited without being cancelled.
CollectWaitsOn ==
    /\ stop = "collecting"
    /\ InFlight # {}
    /\ InStage({"created"}) = {}
    /\ stop' = "gathering"
    /\ expired' = TRUE
    /\ UNCHANGED <<poolVars, feedVars, taskVars, cancelVars>>

CollectExpires ==
    /\ stop = "collecting"
    /\ InFlight # {}
    /\ InStage({"created"}) = {}
    /\ stop' = "gathering"
    /\ expired' = TRUE
    /\ due' = InFlight
    /\ UNCHANGED <<poolVars, feedVars, taskVars, cut>>

\* Step 1.8: pool.shutdown().
ClosePool ==
    /\ stop = "closing"
    /\ Shutdown \/ ShutdownOne \/ ShutdownEnds
    /\ UNCHANGED hostVars

\* Step 2 and on: the handlers, the resources, the bus.
Closed ==
    /\ stop = "closing"
    /\ opener = "done" => closer = "done"
    /\ stop' = "closed"
    /\ UNCHANGED <<poolVars, feedVars, taskVars, cancelVars, expired>>

-----------------------------------------------------------------------------
MessageStep(m) ==
    \/ Enter(m)
    \/ Refuse(m)
    \/ ExecuteSingle(m)
    \/ FinishSingle(m)
    \/ ExecutePooled(m)
    \/ InPool(m)
    \/ LeavePool(m)
    \/ Answer(m)
    \/ Cancelled(m)

StopStep ==
    \/ LoopEnds
    \/ Unsubscribed
    \/ Drained
    \/ DrainExpires
    \/ Collected
    \/ CollectExpires
    \/ ClosePool
    \/ Closed

Next ==
    \/ OpenPool
    \/ Subscribe
    \/ Receive
    \/ Spawn
    \/ \E m \in Clients : MessageStep(m)
    \/ Stop
    \/ StopStep

Spec == Init /\ [][Next]_vars

\* stop() itself and its timers run on; a cancellation is delivered; a health check
\* and the closing of an instance end.  Nothing is said of execute(): a handler may
\* hang for ever.
Fairness ==
    /\ WF_vars(StopStep)
    /\ \A m \in Clients :
          WF_vars(Enter(m) \/ Cancelled(m)) /\ WF_vars(m \in cut /\ MessageStep(m))

FairSpec == Spec /\ Fairness

-----------------------------------------------------------------------------
(* Properties *)

\* Types, the pool's included.
TypeOK ==
    /\ PoolTypeOK
    /\ loop \in {"off", "polling", "acquiring", "handling", "ended"}
    /\ received \in 0 .. LogEnd
    /\ concurrency \in Concurrencies
    /\ permits \in 0 .. concurrency
    /\ pending \in 0 .. LogEnd
    /\ task \in [Clients -> Stages]
    /\ due \subseteq Clients
    /\ cut \subseteq Clients
    /\ stop \in {"running", "unsubscribing", "draining", "collecting",
                 "gathering", "closing", "closed"}
    /\ expired \in BOOLEAN

\* stop() closes pool and handlers only when no message is in work any more and
\* nobody holds, awaits or recycles an instance: neither the pending count nor the
\* task set alone says so (stop(), steps 1.5 to 1.8).
Quiesced ==
    stop \in {"closing", "closed"} =>
       InFlight = {} /\ At(Steps \ {"idle"}) = {} /\ loop = "ended"

\* Every permit comes back, and the pending count falls to zero, however a message
\* ends (_process_message_with_semaphore(), finally).
PermitsKept ==
    /\ pending = Cardinality(InFlight \ InStage({"created"}))
    /\ ~Sequential => permits + Cardinality(InFlight) = concurrency

\* In parallel mode a message in work is cancelled at the drain deadline only
\* (stop(), steps 1.5 and 1.6).  A sequential host cancels the message it is at
\* together with its consume loop, before any deadline.
TasksCutOnlyByTimeout == cut # {} => Sequential \/ expired

\* shutdown() as the host calls it reaches every instance but the replacements
\* that cancelled recyclings left behind.  (Used by others while it runs, the pool
\* promises less: a recycling in its midst hides an instance from its iterator.)
ShutdownReachesAll == closer = "done" => Cardinality(Strays) =< lost

\* The host uses its pool as the pool is meant to be used.
UsesPool == PoolSpec

\* stop() comes to its end, whatever the handlers do: a message parked on a pool
\* that has shrunk to nothing does not hold it up.
StopCompletes == (stop # "running") ~> (stop = "closed")

=============================================================================
