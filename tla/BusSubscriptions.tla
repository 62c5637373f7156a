--------------------------- MODULE BusSubscriptions ---------------------------
(***************************************************************************)
(* event_bus/event_bus_kafka.py: how subscriptions to one (topic, group)   *)
(* key come by their consumer and lose it again.  subscribe() registers a  *)
(* callback under _lock, reserves the key and joins the group outside the  *)
(* lock; start_consuming() does the same for what was subscribed before    *)
(* start(), and tries again when a join fails; unsubscribe() keeps _lock   *)
(* while it stops the consumer; close() takes it again and again.  Keys    *)
(* share nothing but the lock and the flags, so one key is modelled.       *)
(***************************************************************************)
EXTENDS Integers, FiniteSets

CONSTANTS
    Subs,          \* subscriptions to the key, each made and given up at most once
    Runner,        \* the task in start_consuming()
    Nobody,        \* who holds a free lock
    MaxConsumers,  \* bound: how many AIOKafkaConsumers are made
    MaxRetries     \* consumer_start_max_retries

ASSUME RunnerAssumption == Runner \notin Subs /\ Nobody \notin Subs
ASSUME BoundsAssumption == MaxConsumers \in Nat /\ MaxRetries \in Nat

Callers == Subs \cup {Runner}
Consumers == 1 .. MaxConsumers
None == 0

VARIABLES
    started,      \* _started
    shutdown,     \* _shutdown
    subscribers,  \* _subscribers: the callbacks registered for the key
    pending,      \* the key is in _pending_consumer_keys
    registered,   \* _group_consumers: the key's consumer
    task,         \* _group_consumer_tasks: the key's consume loop
    lock,         \* _lock
    made,         \* how many consumers were made
    consumer,     \* the state of each
    loop,         \* where the consume loop created for each consumer is
    reads,        \* the consumer that loop reads from
    cancelled,    \* the loops whose CancelledError is on its way
    place,        \* where each caller is
    mine,         \* the consumer or loop it is busy with
    retries,      \* how often start_consuming() may still try again
    closer,       \* where close() is
    victim,       \* the loop, then the consumer, close() waits for
    late,         \* observed: the consumers that joined a closed bus
    retried,      \* observed: start_consuming() tried again
    leaked,       \* observed: a join was given up and its reservation stayed
    excused,      \* observed: the callbacks that may go unserved
    broken        \* observed: the loops that an exception ended

busVars == <<started, shutdown, subscribers, pending, registered, task, lock>>
consumerVars == <<made, consumer>>
loopVars == <<loop, reads, cancelled>>
callerVars == <<place, mine, retries>>
closeVars == <<closer, victim>>
observed == <<late, retried, leaked, excused, broken>>
vars == <<busVars, consumerVars, loopVars, callerVars, closeVars, observed>>

\* joining: in consumer.start(); cleaning: stopping the consumer whose start failed;
\* again: start_consuming() before its next try; leaving and stopping: unsubscribe()
\* waiting for the loop, then for the consumer.
Places == {"new", "waiting", "joining", "cleaning", "again", "subscribed",
           "failed", "leaving", "stopping", "gone"}

Init ==
    /\ started = FALSE
    /\ shutdown = FALSE
    /\ subscribers = {}
    /\ pending = FALSE
    /\ registered = None
    /\ task = None
    /\ lock = Nobody
    /\ made = 0
    /\ consumer = [i \in Consumers |-> "none"]
    /\ loop = [i \in Consumers |-> "none"]
    /\ reads = [i \in Consumers |-> None]
    /\ cancelled = {}
    /\ place = [x \in Callers |-> "new"]
    /\ mine = [x \in Callers |-> None]
    /\ retries = MaxRetries
    /\ closer = "idle"
    /\ victim = None
    /\ late = {}
    /\ retried = FALSE
    /\ leaked = FALSE
    /\ excused = {}
    /\ broken = {}

LoopEnded(i) == i \in {j \in Consumers : loop[j] \in {"none", "ended"}} \cup {None}

-----------------------------------------------------------------------------
(* start() *)

\* A start that fails changes nothing here.  Nobody starts a bus amid its close().
Open ==
    /\ ~started
    /\ closer = "idle"
    /\ lock = Nobody
    /\ started' = TRUE
    /\ shutdown' = FALSE
    /\ UNCHANGED <<subscribers, pending, registered, task, lock, consumerVars,
                   loopVars, callerVars, closeVars, observed>>

-----------------------------------------------------------------------------
(* subscribe() and start_consuming() *)

\* _start_consumer_for_topic_unlocked() up to the awaited consumer.start().
BeginJoin(x) ==
    /\ made < MaxConsumers
    /\ made' = made + 1
    /\ consumer' = [consumer EXCEPT ![made'] = "joining"]
    /\ place' = [place EXCEPT ![x] = "joining"]
    /\ mine' = [mine EXCEPT ![x] = made']

\* (Mutant: the reservation is not looked at.)
Unregistered == registered = None

Unreserved == registered = None /\ ~pending

Joining == \E x \in Callers : place[x] \in {"joining", "again"}

\* All there is of a consumer is the reservation of a join that was given up.
Orphaned == leaked /\ registered = None /\ ~Joining

\* A callback for a key that somebody else has started, or is starting, takes part
\* in that consumer, or waits for start_consuming().  A reservation that nobody joins
\* for looks the same to it.
Subscribe(s) ==
    /\ place[s] = "new"
    /\ lock = Nobody
    /\ subscribers' = subscribers \cup {s}
    /\ IF Unreserved /\ started
       THEN /\ BeginJoin(s)
            /\ pending' = TRUE
            /\ UNCHANGED excused
       ELSE /\ place' = [place EXCEPT ![s] = "subscribed"]
            /\ excused' = IF ~started \/ Orphaned THEN excused \cup {s} ELSE excused
            /\ UNCHANGED <<pending, mine, consumerVars>>
    /\ UNCHANGED <<started, shutdown, registered, task, lock, loopVars, retries,
                   closeVars, late, retried, leaked, broken>>

StartConsuming ==
    /\ place[Runner] = "new"
    /\ started
    /\ place' = [place EXCEPT ![Runner] = "waiting"]
    /\ UNCHANGED <<busVars, consumerVars, loopVars, mine, retries, closeVars, observed>>

\* It reads the registry under the lock, and not _started again.
Collect ==
    /\ place[Runner] = "waiting"
    /\ lock = Nobody
    /\ IF Unreserved /\ subscribers # {}
       THEN BeginJoin(Runner) /\ pending' = TRUE
       ELSE /\ place' = [place EXCEPT ![Runner] = "subscribed"]
            /\ UNCHANGED <<pending, mine, consumerVars>>
    /\ UNCHANGED <<started, shutdown, subscribers, registered, task, lock,
                   loopVars, retries, closeVars, observed>>

\* consumer.start() returns: whatever happened in the meantime, the consumer is
\* registered and gets a loop.
Joined(x) ==
    /\ place[x] = "joining"
    /\ consumer' = [consumer EXCEPT ![mine[x]] = "live"]
    /\ pending' = FALSE
    /\ registered' = mine[x]
    /\ task' = mine[x]
    /\ loop' = [loop EXCEPT ![mine[x]] = "created"]
    /\ place' = [place EXCEPT ![x] = "subscribed"]
    /\ mine' = [mine EXCEPT ![x] = None]
    /\ late' = IF shutdown THEN late \cup {mine[x]} ELSE late
    /\ leaked' = FALSE
    /\ UNCHANGED <<started, shutdown, subscribers, lock, made, reads,
                   cancelled, retries, closeVars, retried, excused, broken>>

\* Mutant: the reservation of a failed join stays.
JoinFailsReserved(x) ==
    /\ place[x] = "joining"
    /\ consumer' = [consumer EXCEPT ![mine[x]] = "stopped"]
    /\ place' = [place EXCEPT ![x] = "cleaning"]
    /\ excused' = excused \cup subscribers
    /\ UNCHANGED <<busVars, made, loopVars, mine, retries, closeVars, late, retried,
                   leaked, broken>>

\* consumer.start() raises, times out or is cancelled: the reservation goes, and while
\* the consumer that never started is stopped the key is free.  (A topic whose metadata
\* is not there yet is tried again with the reservation kept: still joining.)
JoinFails(x) ==
    /\ place[x] = "joining"
    /\ pending' = FALSE
    /\ consumer' = [consumer EXCEPT ![mine[x]] = "stopped"]
    /\ place' = [place EXCEPT ![x] = "cleaning"]
    /\ leaked' = FALSE
    /\ excused' = excused \cup subscribers
    /\ UNCHANGED <<started, shutdown, subscribers, registered, task, lock,
                   made, loopVars, mine, retries, closeVars, late, retried, broken>>

\* The ways to give a join up that the clauses which discard the reservation do not
\* catch: cancelled between two tries for the topic's metadata, or before
\* start_consuming() has begun its try; a constructor that raises; an instance id
\* that is invalid (where no consumer was made: it counts as one that was stopped).
\* Nobody tries again.
JoinAbandoned(x) ==
    /\ place[x] \in {"joining", "again"}
    /\ consumer' = IF place[x] = "again" THEN consumer
                   ELSE [consumer EXCEPT ![mine[x]] = "stopped"]
    /\ place' = [place EXCEPT ![x] = "failed"]
    /\ mine' = [mine EXCEPT ![x] = None]
    /\ leaked' = pending
    /\ excused' = excused \cup subscribers
    /\ UNCHANGED <<busVars, made, loopVars, retries, closeVars, late, retried, broken>>

CleanedUp(x) ==
    /\ place[x] = "cleaning"
    /\ mine' = [mine EXCEPT ![x] = None]
    /\ \/ /\ place' = [place EXCEPT ![x] = "failed"]
          /\ UNCHANGED <<pending, retries, retried>>
       \/ /\ x = Runner
          /\ retries > 0
          /\ retries' = retries - 1
          /\ pending' = TRUE
          /\ retried' = TRUE
          /\ place' = [place EXCEPT ![x] = "again"]
    /\ UNCHANGED <<started, shutdown, subscribers, registered, task, lock,
                   consumerVars, loopVars, closeVars, late, leaked, excused, broken>>

\* The next pass of _start_bounded().
TryAgain ==
    /\ place[Runner] = "again"
    /\ BeginJoin(Runner)
    /\ UNCHANGED <<busVars, loopVars, retries, closeVars, observed>>

-----------------------------------------------------------------------------
(* _consume_loop() *)

\* The task runs for the first time: it reads whatever consumer is registered now.
LoopBegins(i) ==
    /\ loop[i] = "created"
    /\ i \notin cancelled
    /\ reads' = [reads EXCEPT ![i] = registered]
    /\ loop' = [loop EXCEPT ![i] = IF registered = None THEN "ended" ELSE "polling"]
    /\ UNCHANGED <<busVars, consumerVars, cancelled, callerVars, closeVars,
                   observed>>

\* A record, or the end of a stopped consumer's records.
LoopReads(i) ==
    /\ loop[i] = "polling"
    /\ i \notin cancelled
    /\ loop' = [loop EXCEPT ![i] =
                  IF consumer[reads[i]] # "live" \/ shutdown THEN "ended" ELSE "acquiring"]
    /\ UNCHANGED <<busVars, consumerVars, reads, cancelled, callerVars,
                   closeVars, observed>>

\* The callbacks registered now are called, which may take as long as the loop is
\* seen polling; with none the record passes.
LoopAcquires(i) ==
    /\ loop[i] = "acquiring"
    /\ i \notin cancelled
    /\ lock = Nobody
    /\ loop' = [loop EXCEPT ![i] = "polling"]
    /\ UNCHANGED <<busVars, consumerVars, reads, cancelled, callerVars, closeVars,
                   observed>>

\* An exception of the consumer: the loop ends, both registries keep what they have.
LoopDies(i) ==
    /\ loop[i] = "polling"
    /\ loop' = [loop EXCEPT ![i] = "ended"]
    /\ broken' = broken \cup {i}
    /\ UNCHANGED <<busVars, consumerVars, reads, cancelled, callerVars,
                   closeVars, late, retried, leaked, excused>>

LoopCancelled(i) ==
    /\ i \in cancelled
    /\ cancelled' = cancelled \ {i}
    /\ loop' = [loop EXCEPT ![i] = "ended"]
    /\ reads' = [reads EXCEPT ![i] = None]
    /\ UNCHANGED <<busVars, consumerVars, callerVars, closeVars, observed>>

\* (Mutant: the loop is awaited without being cancelled.)
CancelNothing(i) == UNCHANGED cancelled

Cancel(i) ==
    cancelled' = IF LoopEnded(i) THEN cancelled ELSE cancelled \cup {i}

-----------------------------------------------------------------------------
(* unsubscribe() *)

\* The callback goes.  With the last one the loop is taken out and cancelled, and
\* awaited under the lock.
Unsubscribe(s) ==
    /\ place[s] = "subscribed"
    /\ lock = Nobody
    /\ subscribers' = subscribers \ {s}
    /\ IF subscribers' # {}
       THEN /\ place' = [place EXCEPT ![s] = "gone"]
            /\ UNCHANGED <<lock, task, cancelled, mine>>
       ELSE /\ place' = [place EXCEPT ![s] = "leaving"]
            /\ lock' = s
            /\ mine' = [mine EXCEPT ![s] = task]
            /\ task' = None
            /\ Cancel(task)
    /\ UNCHANGED <<started, shutdown, pending, registered, consumerVars, loop, reads,
                   retries, closeVars, observed>>

\* Mutant: the consumer is left to itself.
UnregisterAndGo(s) ==
    /\ place[s] = "leaving"
    /\ LoopEnded(mine[s])
    /\ mine' = [mine EXCEPT ![s] = None]
    /\ registered' = None
    /\ place' = [place EXCEPT ![s] = "gone"]
    /\ UNCHANGED <<started, shutdown, subscribers, pending, task, lock, consumerVars,
                   loopVars, retries, closeVars, observed>>

\* The loop has ended: the consumer that is registered now is stopped.
Unregister(s) ==
    /\ place[s] = "leaving"
    /\ LoopEnded(mine[s])
    /\ mine' = [mine EXCEPT ![s] = registered]
    /\ registered' = None
    /\ place' = [place EXCEPT ![s] = "stopping"]
    /\ UNCHANGED <<started, shutdown, subscribers, pending, task, lock, consumerVars,
                   loopVars, retries, closeVars, observed>>

StopIfAny(i) ==
    consumer' = IF i = None THEN consumer ELSE [consumer EXCEPT ![i] = "stopped"]

Unsubscribed(s) ==
    /\ place[s] = "stopping"
    /\ StopIfAny(mine[s])
    /\ place' = [place EXCEPT ![s] = "gone"]
    /\ mine' = [mine EXCEPT ![s] = None]
    /\ lock' = Nobody
    /\ UNCHANGED <<started, shutdown, subscribers, pending, registered, task, made,
                   loopVars, retries, closeVars, observed>>

-----------------------------------------------------------------------------
(* close() *)

Close ==
    /\ ~shutdown
    /\ lock = Nobody
    /\ shutdown' = TRUE
    /\ started' = FALSE
    /\ closer' = "cancelling"
    /\ victim' = task
    /\ Cancel(task)
    /\ UNCHANGED <<subscribers, pending, registered, task, lock, consumerVars, loop,
                   reads, callerVars, observed>>

CloseForgetsLoops ==
    /\ closer = "cancelling"
    /\ LoopEnded(victim)
    /\ lock = Nobody
    /\ closer' = "collecting"
    /\ task' = None
    /\ UNCHANGED <<started, shutdown, subscribers, pending, registered, lock,
                   consumerVars, loopVars, callerVars, victim, observed>>

\* Mutant: the registry is emptied before it is copied.
CloseLosesConsumers ==
    /\ closer = "collecting"
    /\ lock = Nobody
    /\ closer' = "stopping"
    /\ victim' = None
    /\ registered' = None
    /\ UNCHANGED <<started, shutdown, subscribers, pending, task, lock, consumerVars,
                   loopVars, callerVars, observed>>

CloseForgetsConsumers ==
    /\ closer = "collecting"
    /\ lock = Nobody
    /\ closer' = "stopping"
    /\ victim' = registered
    /\ registered' = None
    /\ UNCHANGED <<started, shutdown, subscribers, pending, task, lock, consumerVars,
                   loopVars, callerVars, observed>>

\* The consumers and the producer are stopped; the callbacks are forgotten last.
Closed ==
    /\ closer = "stopping"
    /\ lock = Nobody
    /\ StopIfAny(victim)
    /\ closer' = "idle"
    /\ victim' = None
    /\ subscribers' = {}
    /\ UNCHANGED <<started, shutdown, pending, registered, task, lock, made, loopVars,
                   callerVars, observed>>

-----------------------------------------------------------------------------
JoinEnds(x) == Joined(x) \/ JoinFails(x) \/ JoinAbandoned(x) \/ CleanedUp(x)

LoopStep(i) ==
    \/ LoopBegins(i)
    \/ LoopReads(i)
    \/ LoopAcquires(i)
    \/ LoopCancelled(i)

Leave(s) == Unregister(s) \/ Unsubscribed(s)

CloseStep == CloseForgetsLoops \/ CloseForgetsConsumers \/ Closed

Next ==
    \/ Open
    \/ StartConsuming
    \/ Collect
    \/ TryAgain
    \/ Close
    \/ CloseStep
    \/ \E x \in Callers : JoinEnds(x)
    \/ \E i \in Consumers : LoopStep(i) \/ LoopDies(i)
    \/ \E s \in Subs : Subscribe(s) \/ Unsubscribe(s) \/ Leave(s)

Spec == Init /\ [][Next]_vars

\* A cancelled task ends and a consumer can be stopped; the lock is handed on in
\* the order of asking.
Fairness ==
    /\ \A i \in Consumers : WF_vars(LoopCancelled(i))
    /\ \A s \in Subs : WF_vars(Leave(s))
    /\ WF_vars(CloseStep)

FairSpec == Spec /\ Fairness

-----------------------------------------------------------------------------
(* Properties *)

\* Types, and who may hold the lock.
TypeOK ==
    /\ started \in BOOLEAN
    /\ shutdown \in BOOLEAN
    /\ subscribers \subseteq Subs
    /\ pending \in BOOLEAN
    /\ registered \in Consumers \cup {None}
    /\ task \in Consumers \cup {None}
    /\ lock \in Subs \cup {Nobody}
    /\ made \in 0 .. MaxConsumers
    /\ consumer \in [Consumers -> {"none", "joining", "live", "stopped"}]
    /\ loop \in [Consumers -> {"none", "created", "polling", "acquiring", "ended"}]
    /\ reads \in [Consumers -> Consumers \cup {None}]
    /\ cancelled \subseteq Consumers
    /\ place \in [Callers -> Places]
    /\ mine \in [Callers -> Consumers \cup {None}]
    /\ retries \in 0 .. MaxRetries
    /\ closer \in {"idle", "cancelling", "collecting", "stopping"}
    /\ victim \in Consumers \cup {None}
    /\ late \subseteq Consumers
    /\ retried \in BOOLEAN
    /\ leaked \in BOOLEAN
    /\ excused \subseteq Subs
    /\ broken \subseteq Consumers
    /\ \A s \in Subs : lock = s <=> place[s] \in {"leaving", "stopping"}

Live == {i \in Consumers : consumer[i] = "live"}

\* A consumer that is joined is in the registry, or somebody is about to stop it:
\* no other consumer of the key is read by nobody's leave, except after a second
\* try of start_consuming() (subscribe(), lines 1431-1441).
NoStrayConsumer ==
    ~retried =>
       \A i \in Live :
          \/ registered = i
          \/ \E s \in Subs : place[s] = "stopping" /\ mine[s] = i
          \/ closer = "stopping" /\ victim = i

\* "... cannot race and create duplicate consumers" (start_consuming(), comment,
\* lines 2521-2525).
NoDuplicate == Cardinality({x \in Callers : place[x] = "joining"}) =< 1

\* A callback whose subscribe() returned has a consume loop running for it while the
\* bus is up and nobody is joining, with five exceptions: the join it counted on
\* failed, it found nothing but the reservation of a join that was given up, it came
\* before start(), the registered consumer's loop broke, or that consumer's join
\* outlasted a close() (subscribe(), lines 1434-1441).
Served ==
    (started /\ lock = Nobody /\ ~Joining /\ registered \notin late \cup broken) =>
       \A s \in subscribers \ excused : place[s] = "subscribed" =>
          \E i \in Consumers : ~LoopEnded(i) /\ i \notin cancelled

\* What a finished close() leaves behind joined after it began (close()).
ClosedForGood == shutdown /\ closer = "idle" /\ ~retried => Live \subseteq late

\* close() and unsubscribe() end, although they wait for loops that may be waiting
\* for the lock.
StopsEnd ==
    (closer # "idle" \/ lock # Nobody) ~> (closer = "idle" /\ lock = Nobody)

=============================================================================
