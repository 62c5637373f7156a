---------------------------- MODULE RetryWorker ----------------------------
(***************************************************************************)
(* services/retry_worker/service_retry_worker.py: workers that poll the    *)
(* delivery_attempts table for failed rows whose time has come, deliver    *)
(* each once more and write the outcome back.  The SELECT ... FOR UPDATE   *)
(* SKIP LOCKED runs outside a transaction, so its row locks end with the   *)
(* statement; the UPDATEs name the row by id alone.  What a worker knows   *)
(* of a row from its poll on is a copy.                                    *)
(***************************************************************************)
EXTENDS Integers, FiniteSets

CONSTANTS
    Rows,         \* rows of delivery_attempts
    Workers,      \* instances of ServiceRetryWorker on one table
    MaxAttempts,  \* max_attempts of every row
    BatchSize,    \* batch_size
    MaxFaults,    \* bound: failed UPDATEs and crashes
    NoRow         \* what a worker between two rows has in hand

ASSUME MaxAttemptsAssumption == MaxAttempts \in Nat
ASSUME BatchSizeAssumption == BatchSize \in Nat \ {0}
ASSUME MaxFaultsAssumption == MaxFaults \in Nat
ASSUME NoRowAssumption == NoRow \notin Rows

VARIABLES
    status,    \* the column status (a pending row is not the worker's business)
    count,     \* the column attempt_count
    ready,     \* the rows whose next_retry_at has come
    at,        \* where each worker is
    batch,     \* the rows of its poll that it has still to see to
    row,       \* the row it has in hand
    seen,      \* attempt_count of the rows of its poll, as read then
    stopping,  \* the workers whose _shutdown_event is set
    tries,     \* observed: how often a delivery of the row was begun (up to MaxAttempts)
    sent,      \* observed: the rows whose delivery went through
    sentTwice, \* observed: the rows whose delivery went through more than once
    blamed,    \* observed: the rows something happened to that may repeat them
    faults     \* bounded by MaxFaults

table == <<status, count, ready>>
worker == <<at, batch, row, seen, stopping>>
observed == <<tries, sent, sentTwice, blamed, faults>>
vars == <<table, worker, observed>>

\* delivering: inside deliver_fn; recording: the UPDATE to succeeded; failing: the
\* UPDATE to failed; stopped: run() has returned.
Places == {"between", "delivering", "recording", "failing", "stopped"}

\* The rows a worker has read and is not done with.
InCare(w) == batch[w] \cup ({row[w]} \ {NoRow})

Init ==
    /\ status = [n \in Rows |-> "failed"]
    /\ count = [n \in Rows |-> 0]
    /\ ready = Rows
    /\ at = [w \in Workers |-> "between"]
    /\ batch = [w \in Workers |-> {}]
    /\ row = [w \in Workers |-> NoRow]
    /\ seen = [w \in Workers |-> [n \in Rows |-> 0]]
    /\ stopping = {}
    /\ tries = [n \in Rows |-> 0]
    /\ sent = {}
    /\ sentTwice = {}
    /\ blamed = {}
    /\ faults = 0

-----------------------------------------------------------------------------
\* The clock reaches the row's next_retry_at.
Due(n) ==
    /\ status[n] = "failed"
    /\ n \notin ready
    /\ ready' = ready \cup {n}
    /\ UNCHANGED <<status, count, worker, observed>>

Eligible == {n \in ready : status[n] = "failed"}

\* _fetch_pending_retries(): LIMIT batch_size.  No lock outlives the statement, so
\* a row in another worker's care is read like any other.
Fetch(w, S) ==
    /\ at[w] = "between"
    /\ batch[w] = {}
    /\ w \notin stopping
    /\ S # {}
    /\ Cardinality(S) =< BatchSize
    /\ Cardinality(S) < BatchSize => S = Eligible
    /\ batch' = [batch EXCEPT ![w] = S]
    /\ seen' = [seen EXCEPT ![w] = [n \in Rows |-> IF n \in S THEN count[n] ELSE 0]]
    /\ blamed' = blamed \cup UNION {S \cap InCare(v) : v \in Workers \ {w}}
    /\ UNCHANGED <<table, at, row, stopping, tries, sent, sentTwice, faults>>

Poll(w) == \E S \in SUBSET Eligible : Fetch(w, S)

\* _move_to_dlq(), for a row read with its budget spent.
MoveToDlq(w, n) ==
    /\ at[w] = "between"
    /\ n \in batch[w]
    /\ seen[w][n] >= MaxAttempts
    /\ status' = [status EXCEPT ![n] = "dlq"]
    /\ count' = [count EXCEPT ![n] = seen[w][n]]
    /\ ready' = ready \ {n}
    /\ batch' = [batch EXCEPT ![w] = @ \ {n}]
    /\ seen' = [seen EXCEPT ![w][n] = 0]
    /\ UNCHANGED <<at, row, stopping, observed>>

\* Its UPDATE raises: poll_and_retry() counts a failure and goes on.
MoveToDlqFails(w, n) ==
    /\ at[w] = "between"
    /\ n \in batch[w]
    /\ seen[w][n] >= MaxAttempts
    /\ faults < MaxFaults
    /\ faults' = faults + 1
    /\ batch' = [batch EXCEPT ![w] = @ \ {n}]
    /\ seen' = [seen EXCEPT ![w][n] = 0]
    /\ UNCHANGED <<table, at, row, stopping, tries, sent, sentTwice, blamed>>

\* Mutant: one attempt too many.
AttemptOnceMore(w, n) ==
    /\ at[w] = "between"
    /\ n \in batch[w]
    /\ seen[w][n] =< MaxAttempts
    /\ at' = [at EXCEPT ![w] = "delivering"]
    /\ row' = [row EXCEPT ![w] = n]
    /\ batch' = [batch EXCEPT ![w] = @ \ {n}]
    /\ tries' = [tries EXCEPT ![n] = IF @ < MaxAttempts THEN @ + 1 ELSE @]
    /\ UNCHANGED <<table, seen, stopping, sent, sentTwice, blamed, faults>>

\* _attempt_delivery() up to the awaited deliver_fn().
Attempt(w, n) ==
    /\ at[w] = "between"
    /\ n \in batch[w]
    /\ seen[w][n] < MaxAttempts
    /\ at' = [at EXCEPT ![w] = "delivering"]
    /\ row' = [row EXCEPT ![w] = n]
    /\ batch' = [batch EXCEPT ![w] = @ \ {n}]
    /\ tries' = [tries EXCEPT ![n] = IF @ < MaxAttempts THEN @ + 1 ELSE @]
    /\ UNCHANGED <<table, seen, stopping, sent, sentTwice, blamed, faults>>

\* A delivery that goes through.
GoesThrough(n) ==
    /\ sent' = sent \cup {n}
    /\ sentTwice' = IF n \in sent THEN sentTwice \cup {n} ELSE sentTwice

Delivered(w) ==
    /\ at[w] = "delivering"
    /\ GoesThrough(row[w])
    /\ at' = [at EXCEPT ![w] = "recording"]
    /\ UNCHANGED <<table, batch, row, seen, stopping, tries, blamed, faults>>

\* deliver_fn() raises, or wait_for() gives it up: it may have gone through by then.
DeliveryFails(w) ==
    /\ at[w] = "delivering"
    /\ \/ UNCHANGED <<sent, sentTwice, blamed>>
       \/ GoesThrough(row[w]) /\ blamed' = blamed \cup {row[w]}
    /\ at' = [at EXCEPT ![w] = "failing"]
    /\ UNCHANGED <<table, batch, row, seen, stopping, tries, faults>>

\* Mutant: the attempt is not counted.
UpdateUncounted(w, outcome) ==
    /\ status' = [status EXCEPT ![row[w]] = outcome]
    /\ count' = [count EXCEPT ![row[w]] = seen[w][row[w]]]
    /\ ready' = ready \ {row[w]}

\* The three columns of _update_attempt_status(), whatever the row holds by now.
Update(w, outcome) ==
    /\ status' = [status EXCEPT ![row[w]] = outcome]
    /\ count' = [count EXCEPT ![row[w]] = seen[w][row[w]] + 1]
    /\ ready' = ready \ {row[w]}

\* (Mutant: the row stays in hand.)
RowKept(w) ==
    /\ at' = [at EXCEPT ![w] = "between"]
    /\ UNCHANGED <<batch, row, seen, stopping>>

RowDone(w) ==
    /\ at' = [at EXCEPT ![w] = "between"]
    /\ row' = [row EXCEPT ![w] = NoRow]
    /\ seen' = [seen EXCEPT ![w][row[w]] = 0]
    /\ UNCHANGED <<batch, stopping>>

\* (Mutant: the success is written down as a failure.)
RecordSuccessAsFailed(w) ==
    /\ at[w] = "recording"
    /\ Update(w, "failed")
    /\ RowDone(w)
    /\ UNCHANGED observed

RecordSuccess(w) ==
    /\ at[w] = "recording"
    /\ Update(w, "succeeded")
    /\ RowDone(w)
    /\ UNCHANGED observed

\* The UPDATE raises, committed or not, inside the try: the delivery that went
\* through is then written down as failed.
RecordSuccessFails(w) ==
    /\ at[w] = "recording"
    /\ faults < MaxFaults
    /\ faults' = faults + 1
    /\ blamed' = blamed \cup {row[w]}
    /\ Update(w, "succeeded") \/ UNCHANGED table
    /\ at' = [at EXCEPT ![w] = "failing"]
    /\ UNCHANGED <<batch, row, seen, stopping, tries, sent, sentTwice>>

RecordFailure(w) ==
    /\ at[w] = "failing"
    /\ Update(w, "failed")
    /\ RowDone(w)
    /\ UNCHANGED observed

\* The UPDATE in the except block raises, committed or not: the attempt may go
\* uncounted and the row stay due.
RecordFailureFails(w) ==
    /\ at[w] = "failing"
    /\ faults < MaxFaults
    /\ faults' = faults + 1
    /\ Update(w, "failed") \/ UNCHANGED table
    /\ RowDone(w)
    /\ UNCHANGED <<tries, sent, sentTwice, blamed>>

\* The worker's task is cancelled, or its process dies and is started again.
Crash(w) ==
    /\ at[w] # "stopped"
    /\ InCare(w) # {}
    /\ faults < MaxFaults
    /\ faults' = faults + 1
    /\ blamed' = blamed \cup ({row[w]} \ {NoRow})
    /\ \/ at[w] = "delivering" /\ GoesThrough(row[w])
       \/ UNCHANGED <<sent, sentTwice>>
    /\ at' = [at EXCEPT ![w] = "between"]
    /\ row' = [row EXCEPT ![w] = NoRow]
    /\ batch' = [batch EXCEPT ![w] = {}]
    /\ seen' = [seen EXCEPT ![w] = [n \in Rows |-> 0]]
    /\ UNCHANGED <<table, stopping, tries>>

\* stop()
Stop(w) ==
    /\ w \notin stopping
    /\ stopping' = stopping \cup {w}
    /\ UNCHANGED <<table, at, batch, row, seen, observed>>

\* run() sees the event between two polls: a batch is finished first.
RunEnds(w) ==
    /\ w \in stopping
    /\ at[w] = "between"
    /\ batch[w] = {}
    /\ at' = [at EXCEPT ![w] = "stopped"]
    /\ UNCHANGED <<table, batch, row, seen, stopping, observed>>

-----------------------------------------------------------------------------
\* A worker's own progress, without faults.
Work(w) ==
    \/ Poll(w)
    \/ \E n \in Rows : MoveToDlq(w, n) \/ Attempt(w, n)
    \/ Delivered(w)
    \/ DeliveryFails(w)
    \/ RecordSuccess(w)
    \/ RecordFailure(w)
    \/ RunEnds(w)

Fault(w) ==
    \/ \E n \in Rows : MoveToDlqFails(w, n)
    \/ RecordSuccessFails(w)
    \/ RecordFailureFails(w)
    \/ Crash(w)

Next ==
    \/ \E n \in Rows : Due(n)
    \/ \E w \in Workers : Work(w) \/ Fault(w) \/ Stop(w)

Spec == Init /\ [][Next]_vars

\* The clock runs; a worker keeps polling until it is stopped, and every call it
\* makes ends (deliver_fn and the statements have timeouts).
FairSpec ==
    /\ Spec
    /\ \A n \in Rows : WF_vars(Due(n))
    /\ \A w \in Workers : WF_vars(Work(w))

-----------------------------------------------------------------------------
(* Properties *)

\* Types, and what a worker has in hand at which place.
TypeOK ==
    /\ status \in [Rows -> {"failed", "succeeded", "dlq"}]
    /\ count \in [Rows -> Nat]
    /\ ready \subseteq Rows
    /\ at \in [Workers -> Places]
    /\ batch \in [Workers -> SUBSET Rows]
    /\ row \in [Workers -> Rows \cup {NoRow}]
    /\ seen \in [Workers -> [Rows -> Nat]]
    /\ stopping \subseteq Workers
    /\ tries \in [Rows -> Nat]
    /\ sent \subseteq Rows
    /\ sentTwice \subseteq Rows
    /\ blamed \subseteq Rows
    /\ faults \in 0 .. MaxFaults
    /\ \A w \in Workers : row[w] = NoRow <=> at[w] \in {"between", "stopped"}

\* No attempt is counted that was not made, whoever overwrites whose count: a row
\* is given up only after max_attempts deliveries were begun, and a row marked
\* succeeded was delivered (_attempt_delivery(), _move_to_dlq()).
OutcomesBacked ==
    \A n \in Rows :
       /\ count[n] =< tries[n]
       /\ count[n] =< MaxAttempts
       /\ status[n] = "dlq" => count[n] = MaxAttempts
       /\ status[n] = "succeeded" => n \in sent

\* A notification goes out twice only after one of four things: two workers had
\* the row together, its time-out came too late, the UPDATE of its success raised,
\* or a worker died over it (poll_and_retry()).
RepeatedForCause == sentTwice \subseteq blamed

\* "... to prevent multiple worker instances from processing the same row
\* concurrently" (ServiceRetryWorker, docstring, lines 112-113).
NoRowTwiceInCare ==
    \A v, w \in Workers : v # w => InCare(v) \cap InCare(w) = {}

\* Stale writes may take a row back to failed, even out of the dead letters, but
\* not for ever: unless every worker is stopped, each row comes to rest.
ComesToRest ==
    <>[](stopping = Workers \/ \A n \in Rows : status[n] # "failed")

=============================================================================
