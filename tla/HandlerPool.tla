---------------------------- MODULE HandlerPool ----------------------------
(***************************************************************************)
(* runtime/handler_pool.py: a fixed number of handler instances of one     *)
(* type, lent to one caller at a time.  checkout() waits on an             *)
(* asyncio.Queue; leaving it awaits the instance's health check and then   *)
(* puts the instance back or recycles it; shutdown() closes every instance *)
(* while callers may be anywhere.  The code runs on one event loop, so a   *)
(* step below is what happens from one await to the next; a caller may be  *)
(* cancelled at each of its awaits.                                        *)
(***************************************************************************)
EXTENDS Integers, FiniteSets, Sequences

CONSTANTS
    Clients,      \* the tasks that check instances out
    PoolSize,     \* pool_size
    MaxRecycles,  \* bound: instances found unhealthy on their return
    NoInstance    \* what a task holds that holds nothing

ASSUME ClientsAssumption == IsFiniteSet(Clients)
ASSUME PoolSizeAssumption == PoolSize \in Nat \ {0}
ASSUME RecyclesAssumption == MaxRecycles \in Nat
ASSUME NoInstanceAssumption == NoInstance \notin Nat

\* Instances in the order in which the factory makes them.
Instances == 1 .. (PoolSize + MaxRecycles)

VARIABLES
    pool,          \* _pool: the idle instances (the order they are served in is left open)
    getters,       \* the callers parked in _pool.get(), first come first woken
    allInstances,  \* _all_instances
    initialized,   \* _initialized
    shuttingDown,  \* _shutting_down
    recycles,      \* _recycle_count
    born,          \* how many instances the factory has returned
    closed,        \* the instances whose shutdown() was called
    opener,        \* initialize(): where it is
    closer,        \* shutdown(): where it is
    cursor,        \* the position of shutdown()'s iterator over _all_instances
    pc,            \* where each caller is
    held,          \* the instance each caller has in hand
    lost           \* observed: places of the pool that nobody will give back

poolVars == <<pool, getters, allInstances, initialized, shuttingDown, recycles,
              born, closed, opener, closer, cursor, pc, held, lost>>

\* checking: awaiting health_check(); closing: awaiting shutdown() of an unhealthy
\* instance; creating: awaiting initialize() of its replacement.
Steps == {"idle", "parked", "woken", "using", "checking", "closing", "creating"}

At(steps) == {c \in Clients : pc[c] \in steps}

\* Each of these callers stands for one place of the pool.
Holders == At({"using", "checking", "closing", "creating"})

PoolInit ==
    /\ pool = {}
    /\ getters = <<>>
    /\ allInstances = <<>>
    /\ initialized = FALSE
    /\ shuttingDown = FALSE
    /\ recycles = 0
    /\ born = 0
    /\ closed = {}
    /\ opener = "idle"
    /\ closer = "idle"
    /\ cursor = 0
    /\ pc = [c \in Clients |-> "idle"]
    /\ held = [c \in Clients |-> NoInstance]
    /\ lost = 0

-----------------------------------------------------------------------------
(* initialize() *)

\* One turn of its loop: the factory, the awaited initialize() of the instance,
\* then both lists.  The pool opens with the last instance.
OpenOne ==
    /\ opener = "idle"
    /\ born' = born + 1
    /\ allInstances' = Append(allInstances, born')
    /\ pool' = pool \cup {born'}
    /\ initialized' = (born' = PoolSize)
    /\ opener' = IF born' = PoolSize THEN "done" ELSE "idle"
    /\ UNCHANGED <<getters, shuttingDown, recycles, closed, closer, cursor,
                   pc, held, lost>>

\* The factory or the instance's initialize() raises: the pool never opens, and
\* the instances it already made are in no one's care.
OpenFails ==
    /\ opener = "idle"
    /\ opener' = "failed"
    /\ UNCHANGED <<pool, getters, allInstances, initialized, shuttingDown,
                   recycles, born, closed, closer, cursor, pc, held, lost>>

-----------------------------------------------------------------------------
(* asyncio.Queue *)

\* get() on a queue that is not empty: no wait, and no regard for who is parked.
Take(c) ==
    \E i \in pool :
       /\ pool' = pool \ {i}
       /\ held' = [held EXCEPT ![c] = i]
       /\ pc' = [pc EXCEPT ![c] = "using"]
       /\ UNCHANGED getters

\* get() on an empty queue.
Park(c) ==
    /\ pool = {}
    /\ getters' = Append(getters, c)
    /\ pc' = [pc EXCEPT ![c] = "parked"]
    /\ UNCHANGED <<pool, held>>

\* c becomes idle and the longest parked caller, if any, is woken.
LeaveAndWake(c) ==
    IF getters = <<>>
    THEN /\ pc' = [pc EXCEPT ![c] = "idle"]
         /\ UNCHANGED getters
    ELSE /\ pc' = [pc EXCEPT ![c] = "idle", ![Head(getters)] = "woken"]
         /\ getters' = Tail(getters)

\* put_nowait(i) by c, which has no more to do.
PutBack(c, i) ==
    /\ pool' = pool \cup {i}
    /\ held' = [held EXCEPT ![c] = NoInstance]
    /\ LeaveAndWake(c)

-----------------------------------------------------------------------------
(* checkout() *)

\* The guards of checkout() are read once, before the wait.
Checkout(c) ==
    /\ pc[c] = "idle"
    /\ initialized
    /\ ~shuttingDown
    /\ Take(c) \/ Park(c)
    /\ UNCHANGED <<allInstances, initialized, shuttingDown, recycles, born,
                   closed, opener, closer, cursor, lost>>

\* A woken caller looks at the queue again; if it was overtaken it parks anew,
\* behind the others.
Resume(c) ==
    /\ pc[c] = "woken"
    /\ Take(c) \/ Park(c)
    /\ UNCHANGED <<allInstances, initialized, shuttingDown, recycles, born,
                   closed, opener, closer, cursor, lost>>

\* Mutant: the instance is put back before its health check.
FinishPutsBack(c) ==
    /\ pc[c] = "using"
    /\ pc' = [pc EXCEPT ![c] = "checking"]
    /\ pool' = pool \cup {held[c]}
    /\ UNCHANGED <<getters, allInstances, initialized, shuttingDown,
                   recycles, born, closed, opener, closer, cursor, held, lost>>

\* The body of the with-block is left, normally or by an exception.
Finish(c) ==
    /\ pc[c] = "using"
    /\ pc' = [pc EXCEPT ![c] = "checking"]
    /\ UNCHANGED <<pool, getters, allInstances, initialized, shuttingDown,
                   recycles, born, closed, opener, closer, cursor, held, lost>>

ReturnHealthy(c) ==
    /\ pc[c] = "checking"
    /\ PutBack(c, held[c])
    /\ UNCHANGED <<allInstances, initialized, shuttingDown, recycles, born,
                   closed, opener, closer, cursor, lost>>

\* list.remove() on entries that occur once: those behind it move up by one.
Without(s, e) ==
    IF \E k \in DOMAIN s : s[k] = e
    THEN LET at == CHOOSE k \in DOMAIN s : s[k] = e
         IN  [k \in 1 .. Len(s) - 1 |-> IF k < at THEN s[k] ELSE s[k + 1]]
    ELSE s

\* _recycle_instance() up to the awaited shutdown() of the old instance.
Recycle(c) ==
    /\ pc[c] = "checking"
    /\ recycles < MaxRecycles
    /\ recycles' = recycles + 1
    /\ allInstances' = Without(allInstances, held[c])
    /\ closed' = closed \cup {held[c]}
    /\ pc' = [pc EXCEPT ![c] = "closing"]
    /\ UNCHANGED <<pool, getters, initialized, shuttingDown, born, opener,
                   closer, cursor, held, lost>>

\* The old instance is closed; the factory makes the new one.
Replace(c) ==
    /\ pc[c] = "closing"
    /\ born' = born + 1
    /\ held' = [held EXCEPT ![c] = born']
    /\ pc' = [pc EXCEPT ![c] = "creating"]
    /\ UNCHANGED <<pool, getters, allInstances, initialized, shuttingDown,
                   recycles, closed, opener, closer, cursor, lost>>

\* Mutant: the new instance joins the queue only.
ReturnUnlisted(c) ==
    /\ pc[c] = "creating"
    /\ PutBack(c, held[c])
    /\ UNCHANGED <<allInstances, initialized, shuttingDown, recycles, born, closed,
                   opener, closer, cursor, lost>>

\* The new instance is initialized and joins the pool, whether or not the pool
\* was shut down in the meantime.
ReturnReplaced(c) ==
    /\ pc[c] = "creating"
    /\ allInstances' = Append(allInstances, held[c])
    /\ PutBack(c, held[c])
    /\ UNCHANGED <<initialized, shuttingDown, recycles, born, closed, opener,
                   closer, cursor, lost>>

\* Mutant: the caller keeps what it has in hand.
ReplaceFailsHolding(c) ==
    /\ pc[c] \in {"closing", "creating"}
    /\ pc' = [pc EXCEPT ![c] = "idle"]
    /\ lost' = lost + 1
    /\ UNCHANGED <<pool, getters, allInstances, initialized, shuttingDown,
                   recycles, born, closed, opener, closer, cursor, held>>

\* The factory or initialize() of the replacement raises: logged, the pool stays
\* one instance short.
ReplaceFails(c) ==
    /\ pc[c] \in {"closing", "creating"}
    /\ pc' = [pc EXCEPT ![c] = "idle"]
    /\ held' = [held EXCEPT ![c] = NoInstance]
    /\ lost' = lost + 1
    /\ UNCHANGED <<pool, getters, allInstances, initialized, shuttingDown,
                   recycles, born, closed, opener, closer, cursor>>

-----------------------------------------------------------------------------
(* CancelledError at an await of checkout() *)

CancelParked(c) ==
    /\ pc[c] = "parked"
    /\ getters' = Without(getters, c)
    /\ pc' = [pc EXCEPT ![c] = "idle"]
    /\ UNCHANGED <<pool, held, lost>>

\* Mutant: the wake-up ends with the cancelled caller.
CancelWokenAlone(c) ==
    /\ pc[c] = "woken"
    /\ pc' = [pc EXCEPT ![c] = "idle"]
    /\ UNCHANGED <<pool, getters, held, lost>>

\* The wake-up of a cancelled caller is passed on while there is something to get.
CancelWoken(c) ==
    /\ pc[c] = "woken"
    /\ IF pool # {}
       THEN LeaveAndWake(c)
       ELSE pc' = [pc EXCEPT ![c] = "idle"] /\ UNCHANGED getters
    /\ UNCHANGED <<pool, held, lost>>

\* Mutant: without the finally block.
CancelBodyOnly(c) ==
    /\ pc[c] = "using"
    /\ pc' = [pc EXCEPT ![c] = "idle"]
    /\ held' = [held EXCEPT ![c] = NoInstance]
    /\ UNCHANGED <<pool, getters, lost>>

\* The body is interrupted; the finally block runs.
CancelUsing(c) ==
    /\ pc[c] = "using"
    /\ pc' = [pc EXCEPT ![c] = "checking"]
    /\ UNCHANGED <<pool, getters, held, lost>>

\* _is_healthy() and _recycle_instance() catch Exception, which CancelledError is
\* not: the rest of the finally block is skipped.
CancelReturn(c) ==
    /\ pc[c] \in {"checking", "closing", "creating"}
    /\ pc' = [pc EXCEPT ![c] = "idle"]
    /\ held' = [held EXCEPT ![c] = NoInstance]
    /\ lost' = lost + 1
    /\ UNCHANGED <<pool, getters>>

Cancel(c) ==
    /\ CancelParked(c) \/ CancelWoken(c) \/ CancelUsing(c) \/ CancelReturn(c)
    /\ UNCHANGED <<allInstances, initialized, shuttingDown, recycles, born,
                   closed, opener, closer, cursor>>

-----------------------------------------------------------------------------
(* shutdown() *)

Shutdown ==
    /\ initialized
    /\ closer = "idle"
    /\ shuttingDown' = TRUE
    /\ closer' = "closing"
    /\ cursor' = 1
    /\ UNCHANGED <<pool, getters, allInstances, initialized, recycles, born,
                   closed, opener, pc, held, lost>>

\* One turn of the loop over the live list: an instance in someone's hands is
\* closed like any other, and a removal in front of the iterator hides one.
ShutdownOne ==
    /\ closer = "closing"
    /\ cursor =< Len(allInstances)
    /\ closed' = closed \cup {allInstances[cursor]}
    /\ cursor' = cursor + 1
    /\ UNCHANGED <<pool, getters, allInstances, initialized, shuttingDown,
                   recycles, born, opener, closer, pc, held, lost>>

\* The iterator is exhausted: both lists are emptied.  Parked callers stay parked.
ShutdownEnds ==
    /\ closer = "closing"
    /\ cursor > Len(allInstances)
    /\ closer' = "done"
    /\ cursor' = 0
    /\ allInstances' = <<>>
    /\ pool' = {}
    /\ initialized' = FALSE
    /\ UNCHANGED <<getters, shuttingDown, recycles, born, closed, opener, pc,
                   held, lost>>

-----------------------------------------------------------------------------
\* What a caller does between a successful checkout and the end of its return.
ClientStep(c) ==
    \/ Resume(c)
    \/ Finish(c)
    \/ ReturnHealthy(c)
    \/ Recycle(c)
    \/ Replace(c)
    \/ ReturnReplaced(c)
    \/ ReplaceFails(c)

PoolNext ==
    \/ OpenOne
    \/ OpenFails
    \/ \E c \in Clients : Checkout(c) \/ ClientStep(c) \/ Cancel(c)
    \/ Shutdown
    \/ ShutdownOne
    \/ ShutdownEnds

PoolSpec == PoolInit /\ [][PoolNext]_poolVars

-----------------------------------------------------------------------------
(* Properties *)

\* Types, and what is in hand at which step (the fields set in __init__).
PoolTypeOK ==
    /\ pool \subseteq Instances
    /\ getters \in Seq(Clients)
    /\ allInstances \in Seq(Instances)
    /\ initialized \in BOOLEAN
    /\ shuttingDown \in BOOLEAN
    /\ recycles \in 0 .. MaxRecycles
    /\ born \in 0 .. (PoolSize + MaxRecycles)
    /\ closed \subseteq Instances
    /\ opener \in {"idle", "done", "failed"}
    /\ closer \in {"idle", "closing", "done"}
    /\ cursor \in Nat
    /\ closer = "closing" => cursor > 0
    /\ pc \in [Clients -> Steps]
    /\ held \in [Clients -> Instances \cup {NoInstance}]
    /\ lost \in Nat
    /\ \A c \in Clients : held[c] # NoInstance <=> c \in Holders

\* An instance is lent to one caller at a time, and an idle one to nobody,
\* whatever is cancelled, recycled or shut down (checkout(), lines 186-200).
Exclusive ==
    /\ \A c, d \in Holders : held[c] = held[d] => c = d
    /\ \A c \in Holders : held[c] \notin pool

\* While the pool is open every place is idle, in someone's hands, or was given up
\* by a failed recycling or a cancelled return: so put_nowait() never finds the
\* queue full, and nothing but those two shrinks the pool.
Conserved ==
    (opener = "done" /\ closer # "done") =>
       Cardinality(pool) + Cardinality(Holders) + lost = PoolSize

\* No wake-up is lost: whoever is parked while instances are idle waits behind as
\* many woken callers, also when woken ones are cancelled or overtaken.
NoLostWakeup ==
    getters # <<>> => Cardinality(At({"woken"})) >= Cardinality(pool)

\* The instances the factory made that were never closed.
Strays == {i \in 1 .. born : i \notin closed}

=============================================================================
