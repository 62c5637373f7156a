------------------------- MODULE NotificationOutbox -------------------------
(***************************************************************************)
(* TransitionNotificationOutbox: a table of notifications, written in the  *)
(* transactions of their projections, and the background processors that   *)
(* publish them, one per process, all on the same table.                   *)
(*                                                                         *)
(* process_pending is one database transaction over a batch of locked      *)
(* rows.  Its updates take effect only when it commits, but what it has    *)
(* published is published.  A statement that fails aborts the transaction  *)
(* in PostgreSQL: the loop swallows the error and goes on publishing, each *)
(* later update fails as well, and the commit at the end rolls back.       *)
(*                                                                         *)
(* max_retries and a dead-letter publisher are configured.  Rows are       *)
(* numbered in the order of created_at.  The error texts, the metrics and  *)
(* non-strict mode (store() outside a transaction) are left out.           *)
(***************************************************************************)
EXTENDS Integers, FiniteSets

CONSTANTS
    RowCount,     \* notifications that may be stored
    Processors,   \* processes with an outbox
    BatchSize,
    MaxRetries,
    Rejected,     \* rows the publisher always raises on
    Unreadable    \* rows that do not validate any more, written by another release

Rows == 1 .. RowCount

ASSUME RowAssumption == RowCount \in Nat
ASSUME BatchAssumption == BatchSize \in Nat \ {0}
ASSUME RetryAssumption == MaxRetries \in Nat \ {0}

VARIABLES
    row,          \* [Rows -> what is committed: where the notification is]
    retries,      \* [Rows -> committed retry_count]; MaxRetries + 1 stands for more
    loop,         \* [Processors -> await its _processor_loop is at]
    running,      \* [Processors -> _running]
    todo,         \* [Processors -> rows of the batch still to handle]
    held,         \* [Processors -> rows its transaction has locked]
    marked,       \* [Processors -> rows it has set processed_at of, uncommitted]
    counted,      \* [Processors -> rows whose retry_count it has raised, uncommitted]
    tx,           \* [Processors -> state of its transaction]
    delivered,    \* rows published at least once
    deadLettered  \* rows published to the dead-letter topic at least once

table == <<row, retries>>
batch == <<todo, held, marked, counted, tx>>
topics == <<delivered, deadLettered>>
vars == <<row, retries, loop, running, todo, held, marked, counted, tx,
          delivered, deadLettered>>

Loops == {"off", "poll", "row", "mark", "park", "count", "commit"}
InBatch == {"row", "mark", "park", "count", "commit"}

Init ==
    /\ row = [n \in Rows |-> "absent"]
    /\ retries = [n \in Rows |-> 0]
    /\ loop = [p \in Processors |-> "off"]
    /\ running = [p \in Processors |-> "no"]
    /\ todo = [p \in Processors |-> {}]
    /\ held = [p \in Processors |-> {}]
    /\ marked = [p \in Processors |-> {}]
    /\ counted = [p \in Processors |-> {}]
    /\ tx = [p \in Processors |-> "none"]
    /\ delivered = {}
    /\ deadLettered = {}

\* store(), and the commit of the transaction it shares with the projection.
Store(n) ==
    /\ row[n] = "absent"
    /\ row' = [row EXCEPT ![n] = "pending"]
    /\ UNCHANGED <<retries, loop, running, batch, topics>>

-----------------------------------------------------------------------------
(* process_pending.                                                        *)

\* SELECT ... WHERE processed_at IS NULL ORDER BY created_at LIMIT n
\* FOR UPDATE SKIP LOCKED.
Locked == UNION {held[q] : q \in Processors}
FreeIgnoringLocks == {n \in Rows : row[n] = "pending"}  \* mutant
Free == {n \in Rows : row[n] = "pending" /\ n \notin Locked}
Oldest(S) == {n \in S : Cardinality({k \in S : k < n}) < BatchSize}

Select(p) ==
    /\ loop[p] = "poll"
    /\ running[p] = "yes"
    /\ Free # {}
    /\ loop' = [loop EXCEPT ![p] = "row"]
    /\ todo' = [todo EXCEPT ![p] = Oldest(Free)]
    /\ held' = [held EXCEPT ![p] = Oldest(Free)]
    /\ tx' = [tx EXCEPT ![p] = "open"]
    /\ UNCHANGED <<table, running, marked, counted, topics>>

\* The row whose turn it is.
Turn(p, n) == n \in todo[p] /\ \A k \in todo[p] : n <= k

Goto(p, l) == loop' = [loop EXCEPT ![p] = l]

NextRow(p, n) ==
    /\ todo' = [todo EXCEPT ![p] = @ \ {n}]
    /\ Goto(p, IF todo[p] = {n} THEN "commit" ELSE "row")
    /\ UNCHANGED held

\* _should_move_to_dlq, of a row that validates.
MoveToDlqTooLate(n) == n \notin Unreadable /\ retries[n] > MaxRetries  \* mutant
MoveToDlq(n) == n \notin Unreadable /\ retries[n] >= MaxRetries

PublishSucceeds(p, n) ==
    /\ loop[p] = "row" /\ Turn(p, n)
    /\ n \notin Unreadable \cup Rejected /\ ~MoveToDlq(n)
    /\ delivered' = delivered \cup {n}
    /\ Goto(p, "mark")
    /\ UNCHANGED <<table, running, batch, deadLettered>>

\* The row does not validate, or publish() raises; after a timeout the
\* notification may have been published all the same.
PublishFails(p, n) ==
    /\ loop[p] = "row" /\ Turn(p, n)
    /\ ~MoveToDlq(n)
    /\ delivered' \in IF n \in Unreadable \cup Rejected
                         THEN {delivered} ELSE {delivered, delivered \cup {n}}
    /\ Goto(p, "count")
    /\ UNCHANGED <<table, running, batch, deadLettered>>

\* _move_to_dlq: retry_count stays as it is when the publisher raises.
DlqPublishSucceeds(p, n) ==
    /\ loop[p] = "row" /\ Turn(p, n)
    /\ MoveToDlq(n)
    /\ deadLettered' = deadLettered \cup {n}
    /\ Goto(p, "park")
    /\ UNCHANGED <<table, running, batch, delivered>>

DlqPublishFails(p, n) ==
    /\ loop[p] = "row" /\ Turn(p, n)
    /\ MoveToDlq(n)
    /\ deadLettered' \in {deadLettered, deadLettered \cup {n}}
    /\ NextRow(p, n)
    /\ UNCHANGED <<table, running, marked, counted, tx, delivered>>

\* UPDATE ... SET processed_at = NOW().
Mark(p, n) ==
    /\ loop[p] \in {"mark", "park"} /\ Turn(p, n)
    /\ tx[p] = "open"
    /\ marked' = [marked EXCEPT ![p] = @ \cup {n}]
    /\ NextRow(p, n)
    /\ UNCHANGED <<table, running, counted, tx, topics>>

\* The statement fails, at once if an earlier one has: after publish() the row
\* is counted as failed, after the dead letter it is left as it is.
MarkFails(p, n) ==
    /\ loop[p] \in {"mark", "park"} /\ Turn(p, n)
    /\ tx' = [tx EXCEPT ![p] = "aborted"]
    /\ IF loop[p] = "mark"
         THEN Goto(p, "count") /\ UNCHANGED <<todo, held>>
         ELSE NextRow(p, n)
    /\ UNCHANGED <<table, running, marked, counted, topics>>

\* UPDATE ... SET retry_count = retry_count + 1; an error is logged.
\* (Mutant: the count is not raised.)
CountNothing(p, n) ==
    /\ loop[p] = "count" /\ Turn(p, n)
    /\ tx[p] = "open"
    /\ NextRow(p, n)
    /\ UNCHANGED <<table, running, marked, counted, tx, topics>>

Count(p, n) ==
    /\ loop[p] = "count" /\ Turn(p, n)
    /\ tx[p] = "open"
    /\ counted' = [counted EXCEPT ![p] = @ \cup {n}]
    /\ NextRow(p, n)
    /\ UNCHANGED <<table, running, marked, tx, topics>>

CountFails(p, n) ==
    /\ loop[p] = "count" /\ Turn(p, n)
    /\ tx' = [tx EXCEPT ![p] = "aborted"]
    /\ NextRow(p, n)
    /\ UNCHANGED <<table, running, marked, counted, topics>>

\* The transaction is over and its locks are released.
\* (Mutant: it is left open.)
ReleaseKeepsTransaction(p) ==
    /\ todo' = [todo EXCEPT ![p] = {}]
    /\ held' = [held EXCEPT ![p] = {}]
    /\ marked' = [marked EXCEPT ![p] = {}]
    /\ counted' = [counted EXCEPT ![p] = {}]
    /\ UNCHANGED tx

Release(p) ==
    /\ todo' = [todo EXCEPT ![p] = {}]
    /\ held' = [held EXCEPT ![p] = {}]
    /\ marked' = [marked EXCEPT ![p] = {}]
    /\ counted' = [counted EXCEPT ![p] = {}]
    /\ tx' = [tx EXCEPT ![p] = "none"]

Apply(p) ==
    /\ row' = [n \in Rows |-> IF n \in marked[p] THEN "processed" ELSE row[n]]
    /\ retries' = [n \in Rows |->
          IF n \in counted[p] /\ retries[n] <= MaxRetries THEN retries[n] + 1 ELSE retries[n]]

Commit(p) ==
    /\ loop[p] = "commit"
    /\ IF tx[p] = "open" THEN Apply(p) ELSE UNCHANGED table
    /\ Release(p)
    /\ Goto(p, "poll")
    /\ UNCHANGED <<running, topics>>

\* process_pending raises (the connection is lost, the commit fails, an error
\* that is no PostgresError): rolled back, and the loop goes on.
BatchFails(p) ==
    /\ loop[p] \in InBatch
    /\ Release(p)
    /\ Goto(p, "poll")
    /\ UNCHANGED <<table, running, topics>>

-----------------------------------------------------------------------------
(* Lifecycle.                                                              *)
Start(p) ==
    /\ loop[p] = "off" /\ running[p] = "no"
    /\ running' = [running EXCEPT ![p] = "yes"]
    /\ Goto(p, "poll")
    /\ UNCHANGED <<table, batch, topics>>

\* stop() sets the shutdown event: the loop ends before its next batch.
Stop(p) ==
    /\ running[p] = "yes"
    /\ running' = [running EXCEPT ![p] = "no"]
    /\ UNCHANGED <<table, loop, batch, topics>>

LoopEnds(p) ==
    /\ loop[p] = "poll" /\ running[p] = "no"
    /\ Goto(p, "off")
    /\ UNCHANGED <<table, running, batch, topics>>

\* The process crashes, or stop() cancels the task after shutdown_timeout.
Killed(p) ==
    /\ loop[p] # "off"
    /\ running' = [running EXCEPT ![p] = "no"]
    /\ Release(p)
    /\ Goto(p, "off")
    /\ UNCHANGED <<table, topics>>

\* cleanup_processed, from any process.
CleanupProcessed ==
    /\ \E S \in SUBSET {n \in Rows : row[n] = "processed"} :
          S # {} /\ row' = [n \in Rows |-> IF n \in S THEN "deleted" ELSE row[n]]
    /\ UNCHANGED <<retries, loop, running, batch, topics>>

-----------------------------------------------------------------------------
Handle(p, n) ==
    \/ PublishSucceeds(p, n) \/ PublishFails(p, n)
    \/ DlqPublishSucceeds(p, n) \/ DlqPublishFails(p, n)
    \/ Mark(p, n) \/ MarkFails(p, n)
    \/ Count(p, n) \/ CountFails(p, n)

Process(p) == Select(p) \/ (\E n \in Rows : Handle(p, n)) \/ Commit(p)

\* What an operator or a fault does.  (A commit with no effect is no fault.)
Fault(p) ==
    \/ BatchFails(p) /\ ~Commit(p)
    \/ Stop(p) \/ Killed(p)
    \/ \E n \in Rows :
          \/ DlqPublishFails(p, n) \/ MarkFails(p, n) \/ CountFails(p, n)
          \/ n \notin Rejected \cup Unreadable /\ PublishFails(p, n)

Next ==
    \/ \E n \in Rows : Store(n)
    \/ \E p \in Processors :
          \/ Process(p) \/ BatchFails(p)
          \/ Start(p) \/ Stop(p) \/ LoopEnds(p) \/ Killed(p)
    \/ CleanupProcessed

Spec == Init /\ [][Next]_vars

\* A loop that runs goes on: its awaits are publishes and statements, which
\* have timeouts, and its polls end after poll_interval_seconds.
FairSpec == Spec /\ \A p \in Processors : WF_vars(Process(p))

-----------------------------------------------------------------------------
TypeOK ==
    /\ row \in [Rows -> {"absent", "pending", "processed", "deleted"}]
    /\ retries \in [Rows -> 0 .. MaxRetries + 1]
    /\ loop \in [Processors -> Loops]
    /\ running \in [Processors -> {"yes", "no"}]
    /\ todo \in [Processors -> SUBSET Rows]
    /\ held \in [Processors -> SUBSET Rows]
    /\ marked \in [Processors -> SUBSET Rows]
    /\ counted \in [Processors -> SUBSET Rows]
    /\ tx \in [Processors -> {"none", "open", "aborted"}]
    /\ delivered \subseteq Rows
    /\ deadLettered \subseteq Rows
    /\ \A p \in Processors : tx[p] = "none" <=> loop[p] \notin InBatch

\* The outbox keeps its promise, whatever statements fail inside a batch,
\* transactions are rolled back, processors are killed or work side by side:
\* what it is done with was published or dead-lettered, and stays alone.
Delivery == INSTANCE NotificationDelivery WITH
    promised <- {n \in Rows : row[n] # "absent"},
    settled <- {n \in Rows : row[n] \in {"processed", "deleted"}}

Promises == Delivery!Spec

\* _should_move_to_dlq: a notification is dead-lettered after max_retries
\* failures that were committed, neither earlier nor later, although failures
\* that were rolled back are forgotten and processors take turns on it.
ThresholdKept ==
    \A n \in Rows \ Unreadable :
        retries[n] <= MaxRetries /\ (n \in deadLettered => retries[n] = MaxRetries)

\* Once faults stop, a stored notification does not stay in the outbox behind
\* one the publisher always rejects, nor behind unreadable ones as long as
\* they are fewer than a batch, unless every processor is stopped.
Quiet == <>[][~ \E p \in Processors : Fault(p)]_vars

Drains ==
    Quiet => \/ <>[](\A p \in Processors : running[p] = "no")
             \/ \A n \in Rows \ Unreadable : row[n] = "pending" ~> row[n] # "pending"

=============================================================================
