# Verification of omnibase_infra: delivery and failure handling

TLA+ modules, TLC configurations and TLAPS proofs about the runtime services of
omnibase_infra. Paths below are relative to `src/src/omnibase_infra/`.

omnibase_infra is the infrastructure layer of an event-driven system: contract-declared
nodes exchange envelopes over Kafka, keep projections in PostgreSQL, and are hosted by an
asyncio runtime. Most of its files are contracts, handlers and tooling without much control.
What is hard in it is a score of services that move records between a broker, a database and
callbacks while processes crash, tasks are cancelled, partitions move and writes fail. This
project models those services, the most load-bearing first.

## 1. Inventory

"Hard" names the behaviour a test hardly reaches. Modelled components are described in
section 3; `PROJECT.json` has one entry per component and lists every hazard at its line.

| Component (source) | State | Operations | Interacts through | Hard | Correct when |
|---|---|---|---|---|---|
| **Async circuit breaker** (`mixins/mixin_async_circuit_breaker.py`) | open, half-open, failure and success counters, `open_until`, recovery task | check, record failure, reset, recovery coroutine, cancel | mixed into every client: bus, transports, handlers | outcomes recorded in a later state; a recovery task that outlives its opening | counters fit the state; OPEN admits nobody and is always left in the end |
| **Event bus, consuming** (`event_bus/event_bus_kafka.py`, `mixin_kafka_dlq.py`) | per consumer: position, record in hand, subscribers served; broker: assignment, committed offset | consume loop, dispatch to subscribers, dead letters, rewind, close | callbacks of the wiring; dead-letter topic; broker | auto-commit against the position, eviction during a callback, seek on a partition that moved | no record is passed over except in the window the auto-commit opens |
| **Subscription wiring** (`runtime/event_bus_subcontract_wiring.py`) | retry counts by correlation id, the idempotency store | the dispatch callback, wire, clean up | bus (callback), idempotency store, dispatch engine, dead-letter topic | redelivery while a dispatch is under way or after it failed | applied at most once; nothing let through without a reason |
| **Transition notification outbox** (`runtime/transition_notification_outbox.py`) | the outbox table, the batch's transaction, the processor task | store, process_pending, dead letter, start, stop, cleanup | PostgreSQL, publisher, other processors on the same table | a failed statement aborts the transaction but the loop goes on; rollback after a publish | stored implies published or dead-lettered; threshold kept; drains |
| **Gateway delivery** (`nodes/node_bus_forwarder_effect/services/service_gateway_delivery.py`, `service_gateway_forwarder.py`, `runtime/gateway_forwarder.py`, `event_bus/kafka_transport.py`, `idempotency/store_sqlite.py`) | per direction: step, record, transport buffer and position; shared lock; SQLite markers | poll, check, publish, mark, commit, quarantine, nack, watchdog, supervisor | two brokers, one lock, one marker store | cancellation at every await, stale prefetch buffer, restart of a healthy loop | never committed before delivered; published once outside the crash window |
| **Retry worker** (`services/retry_worker/service_retry_worker.py`) | delivery attempts table; per worker: batch, row in hand, shutdown event | select due, deliver, record outcome, dead letter, stop | PostgreSQL, `deliver_fn`, other workers on the same table | row locks that end with their statement; outcomes written over newer ones | no outcome without its delivery; repeated only for a cause; the table comes to rest |
| **Handler pool** (`runtime/handler_pool.py`) | queue of instances, list of all, flags | open, check out, return, health check, recycle, shut down | handlers, the host's tasks | cancellation in the health check; recycling during shutdown | one holder per instance; places conserved; no wake-up lost |
| **Runtime host**, message handling and shutdown (`runtime/runtime_host_process.py`) | semaphore, pending count, task set, consume loop | on message, sequential or in a task; stop in its steps | bus, pool, handlers | stop() at any moment, drain deadlines, handlers that hang | pool and handlers shut down only at rest; stop() ends |
| **Event bus, subscription lifecycle** (`event_bus_kafka.py`) | subscribers, consumers, reserved keys, consume-loop tasks, `_lock` | start, subscribe, unsubscribe, start_consuming, close | consume loops | joins that fail or are overtaken while another subscriber relies on them | no consumer left to itself; a subscriber is served; close() ends |
| Event bus, publishing (`event_bus_kafka.py`, `mixin_kafka_broadcast.py`) | producer | publish with retry, recreate producer | circuit breaker, broker | a timed-out send that arrived | a retry loop; see section 7 |
| Batch response publisher (`runtime/batch_response_publisher.py`) | buffer, timer task | enqueue, flush by size and time, stop | bus | stop() cancels a flush in the middle of a batch | what was enqueued is published or reported |
| Request-response wiring (`runtime/request_response_wiring.py`) | pending futures by correlation id | request, reply handlers, timeout, cleanup | bus | reused ids, cancelled callers | a reply reaches the caller that asked |
| Runtime scheduler (`runtime/runtime_scheduler.py`) | sequence number, tick task, breaker | tick, start, stop, persist | bus, state store | sequence persisted on stop only | sequence numbers are not reused |
| Idempotency stores, PostgreSQL and memory (`idempotency/`) | recorded ids | check and record, expire | wiring | concurrent first records | recorded once |
| Registration workflow (`nodes/node_registration_*`, `services/service_timeout_*.py`) | registration rows, emission markers | introspection, ack, heartbeat, timeout ticks | bus, projections | timeouts racing acknowledgements | one timeout event per deadline |
| Snapshots and projections (`projectors/`, `runtime/projector_shell.py`) | snapshot versions, compacted topic, tables | publish snapshot, project | bus, PostgreSQL | concurrent publishes of one entity | the newest version survives |
| Service kernel and host start-up (`runtime/service_kernel.py`, `runtime_host_process.py`) | configuration, service handles | start services in order | all services | - | mostly wiring |
| Dispatch engine, result applier (`runtime/message_dispatch_engine.py`, `service_dispatch_result_applier.py`) | frozen routes | dispatch, publish results | wiring, bus | partial application of results | deterministic routing |
| Pattern B broker, terminal-event consumers (`runtime/service_pattern_b_broker.py`) | pending commands | command, terminal event, timeout | bus | late terminal event | first answer wins |
| Dead-letter replay (`nodes/node_dlq_replay_effect/`, `dlq/`) | replay records | replay | bus | replay of a replay | a replay limit |
| Health, freshness and runtime monitors (`services/`, `runtime/freshness_monitor.py`) | last probe results | probe | circuit breaker | - | probe loops |
| Gateway client session (`gateway/client/`) | token, session | attach, heartbeat, refresh | HTTP | - | sequential client |
| Gateway signing and policy (`gateway/services/`) | keys | sign, validate, decide | gateway delivery | - | pure functions |
| Handler, contract and secret loading (`runtime/`) | registries, caches | load, resolve | files, Kafka, Infisical | - | data validation |
| I/O handlers and effect nodes (`handlers/`) | connections | execute | databases, HTTP | - | thin adapters |
| In-memory bus, topic provisioning (`event_bus/`) | queues | publish, subscribe | tests | - | a test double |
| Consumer-group migration (`migration/`) | journal | drain proof, cutover | broker | - | one decision over lag |
| Workflow nodes (`nodes/`) | per node | handlers | bus | - | mostly declarative |
| Validation, CLI, observability, scripts | - | - | - | - | development tooling |

How the modelled parts meet: a record enters through the bus's consume loop, which awaits the
wiring's callback among its subscribers; the callback's only answer to the bus is to return or
to raise, because the bus offers no `commit_offset`. The outbox and the gateway are sources of
records of their own. The runtime host is such a callback too, on the input topic: it handles
a message itself or in a task that borrows a handler from the pool, and its stop() cancels
what is left. The subscription lifecycle says when a callback has a consume loop at all, which
the consuming side takes for granted with its fixed list of subscribers. The retry worker
stands beside the bus and works on rows that a failed delivery left. The circuit breaker
guards the sends of all of them and shows up in the other modules only as a call that fails.

## 2. Plan

| Order | Module | Composes / implements | State |
|---|---|---|---|
| 1 | `CircuitBreaker` | - | modelled, checked, proved |
| 2 | `EventBusConsumer` | implements `OrderedDelivery` | modelled, checked, proved |
| 3 | `SubcontractDelivery` | extends `EventBusConsumer` and implements it | modelled, checked, proved |
| 4 | `NotificationOutbox` | implements `NotificationDelivery` | modelled, checked, proved |
| 5 | `GatewayDelivery` | transport, loops, watchdog and supervisor together | modelled, checked, proved |
| 6 | `RetryWorker` | - | modelled, checked, proved |
| 7 | `HandlerPool` | the pool alone, with arbitrary callers (`PoolSpec`) | modelled, proved; checked through 8 |
| 8 | `RuntimeHost` | extends `HandlerPool` and implements it (`UsesPool`) | modelled, checked, proved |
| 9 | `BusSubscriptions` | what 2 takes for granted: a subscriber has a loop | modelled, checked, proved |
| 10 | `BatchPublisher`, `RequestResponse` | - | not planned further; section 7 |
| 11 | scheduler, registration timeouts, snapshots | - | not planned further; section 7 |

Every safety property that a run checks is proved. What would come next: `BusSubscriptions`
and `EventBusConsumer` composed, so that the list of subscribers changes while a record is
being dispatched; measures that fall with every step towards the ends `ComesToRest` and
`PartitionDrains` speak of; the publishing side's producer recreation under its lock.

## 3. The modules

Conventions. A coroutine's code between two awaits is one action, since asyncio switches
tasks only at awaits; where the code holds an `asyncio.Lock` over a section with no await that
anyone else could observe, the section is one action. Cancellation and process death can come
at any await. Actions keep the names of the methods and results they stand for. An operator
next to another with the comment "Mutant" is a faulty variant that is not part of the
specification; `PROJECT.json` names the property that notices it.

### CircuitBreaker

`state` is the two flags `_circuit_breaker_open` and `_circuit_breaker_half_open` (the code
never leaves both set). `failures`, `successes` are the counters, `timer` is
`_cb_recovery_task`, `window` is the comparison of the wall clock with
`_circuit_breaker_open_until`. The wall clock and the event loop's clock of `asyncio.sleep` are
separate, so `WindowElapses` and `TimerWakes` come in any order. `running` are callers between
check and outcome; `fresh` are those of them admitted since the breaker last changed state
(a history variable for the properties).

`CheckPasses`, `CheckHalfOpens` are `_check_circuit_breaker`; `RecordFailure` is
`_record_circuit_failure`; `RecordProbeSuccess`, `RecordSuccess` are the branches of
`_reset_circuit_breaker`; `TimerRecovers` is the end of `_active_recovery_coroutine`;
`CancelActiveRecovery` is the method of that name, called by a component's close. `Abandon` is
a caller that is cancelled and records nothing. After its close a component admits no new call
but lets those under way record their outcome, as the components that use the mixin do.

### EventBusConsumer and OrderedDelivery

The members of one consumer group on one partition. `owner`, `committed` are the broker's;
`position` is the aiokafka consumer's; `phase`, `current`, `next`, `unsafe` are the locals of
`_consume_loop` (`unsafe` is the set of subscribers without a confirmed dead letter);
`handled`, `raised`, `dlq`, `exposed` record what became of each record. `log`, fixed by a
behaviour's first state, says of each record whether it is fresh, out of retries (`spent`) or
unconvertible (`malformed`); the constant `Logs` is the set of logs considered.

`Fetch` is `getone` and the conversion; `CallbackReturns`, `CallbackRaises`,
`CallbackExhausts` are `_dispatch_to_subscriber`; `DlqConfirmed`, `DlqUnconfirmed` and the two
`RawDlq` actions are `_publish_to_dlq` and `_publish_raw_to_dlq`, where unconfirmed means
"perhaps written"; `Rewind` is `_rewind_after_unpersisted_dlq`, which fails silently when the
partition is gone. The client library commits the position at any time (`AutoCommitTick`), at
`Revoke` and at `Close`; it does not at `Evict` and `Crash`. The broker and the client library
are modelled from how the code uses them.

With auto-commit, delivery is at most once around a crash: the position is past a record
before its first callback runs. The properties therefore do not claim that nothing is lost.
They say exactly which records may be: those that a disruption found already committed while
they were in hand, or sought back to (`exposed`).

`OrderedDelivery` is what that amounts to for the subscribers of a partition, without members,
positions and offsets: a subscriber processes a record, refuses it, or has it dead-lettered
only when every earlier record has come to its end at every subscriber, in a way the record's
kind allows, and a disruption loses only from the head of what is still to come. The mapping
is `lost <- exposed`; the other variables are the consumer's. A record may be processed again
at any time, which the code does after every rewind and eviction.

### SubcontractDelivery

Extends the consumer with the callback of `EventBusSubcontractWiring`. `step` is the await
the callback is at, `retries` is `_retry_counts`, `seen` is the idempotency store under the
topic's domain, `applied`, `parked`, `withheld`, `skipped` are the fates of records.
`Record`, `SkipDuplicate` and `StoreFails` are `check_and_record`; `DispatchSucceeds`,
`DispatchFails`, `NoDispatcher` the outcomes of a dispatch with its result applier;
`InfraError` and `ContentError` the except branches with their policies; the two `WiringDlq`
actions its dead letters. Each ends, through `Return` or `Raise`, in the bus action it causes.
Subscriptions outside `Wired` are arbitrary other callbacks, which can make the bus rewind.

Assumed: dead letters are enabled (the default), and a record's correlation id is the same in
every delivery. A record without one gets a fresh id each time and never exhausts its budget.
`RuntimeHostProcess` wires without an idempotency store, with `dlq_and_commit` for content
errors and `fail_fast` for exhausted ones; the store is a constructor argument of the wiring,
so both cases are run.

### NotificationOutbox and NotificationDelivery

`NotificationDelivery` is the promise: a stored notification is published at least once or
dead-lettered before it is settled; only stored ones are published, and none once settled.

`NotificationOutbox` is the code: `row`, `retries` are committed columns; `todo`, `held`,
`marked`, `counted`, `tx` are a batch's transaction, its row locks and its uncommitted updates;
`loop`, `running` the processor. `Select` is the `FOR UPDATE SKIP LOCKED` query (here inside a
transaction), `PublishSucceeds` to `CountFails` are the statements of the per-row loop in
`process_pending`, `Commit` and `BatchFails` the end of the transaction. A failed statement
aborts the PostgreSQL transaction although the loop swallows its error (`tx = "aborted"`): the
rest of the batch is published and everything rolls back. The refinement is
`promised <- rows not absent`, `settled <- rows processed or deleted`.

### GatewayDelivery

One process, two directions. `step`, `hand` are a loop's await and record; `lock` is
`_delivery_lock` as its queue; `consumer`, `position`, `buffer` are `KafkaTransport` (a
prefetched `_buffer` that a rejoin does not clear); `marked` is the SQLite store; `committed`
the source groups' offsets; `published`, `window`, `abandoned` are history. `Poll`, `Enter`,
`Check`, `Publish`, `Mark`, `Commit`, `Quarantine` follow `_run_direction` and
`_deliver_message_locked`; `Raises` is the except path with its `nack()`; `Aftermath` is what an
interrupted await may have done already (the marker is written by a thread that a cancellation
does not stop). `Evict`/`Rejoin` are the group's, `WatchdogCancels`/`WatchdogRestarts` are
`_recover_stalled_direction`, `SupervisorRestarts` is `_supervise_gateway_delivery`, `Expire` is
`cleanup_expired`. `Crash` is the end of the process.

### RetryWorker

Any number of `ServiceRetryWorker`s on one table. `status`, `count`, `ready` are the columns
`status`, `attempt_count` and `next_retry_at` (come or not); `batch`, `row`, `seen` are a
worker's copies from its poll. `Poll` is `_fetch_pending_retries`: its row locks end with the
statement, since it runs on a pooled connection outside a transaction, and rows in another
worker's care are read like any other. `Attempt`, `Delivered`, `DeliveryFails` are
`_attempt_delivery`, where a delivery that timed out may have gone through; `RecordSuccess`,
`RecordFailure`, `MoveToDlq` write what the worker remembers plus one, whatever the row holds
by now. `RecordSuccessFails` is an `UPDATE` that raises, committed or not, inside the same
`try` as the delivery. `Crash` is a worker that is cancelled or killed; `Stop` and `RunEnds`
are stop() and the loop that sees it. `tries`, `sent`, `sentTwice`, `blamed` are history.

### HandlerPool

`pool` is the `asyncio.Queue` of idle instances, `getters` its parked callers, `allInstances`
the list shutdown() iterates over with `cursor`; `opener`, `closer` are where `initialize()` and
`shutdown()` are; `pc`, `held` are each caller's await and instance; `lost` counts places that
nobody will give back. `Take` and `Park` are `get()`, `PutBack` is `put_nowait()` with its
wake-up, and a woken caller (`Resume`) can find that a newcomer overtook it. `Finish` to
`ReplaceFails` are the `finally` block of `checkout()`: health check, then return or recycling.
`Cancel` is a `CancelledError` at each of the awaits; during the return it ends the `finally`
block and takes the instance's place with it. `ShutdownOne` is one turn of the loop over the
live list.

### RuntimeHost

Extends the pool with the host's message handling. Messages of the input topic are the pool's
callers. `concurrency` is `_max_concurrent_handlers`; `loop`, `received` are the consume loop;
`permits` the semaphore, `pending` the pending count, `task` how far each message is; `due` and
`cut` are cancellations under way and arrived; `stop`, `expired` are the steps of stop().
`Receive`, `Spawn`, `Enter`, `Exit` are `_on_message` and its two ways to process;
`ExecuteSingle` to `Answer` the envelope's handling; `LoopEnds` to `Closed` are stop(): unsubscribe
(which cancels the consume loop and, in sequential mode, the message in its hands), wait for
the pending count, wait for the tasks, cancel what is left, shut the pool down. Every action
that touches the pool is a conjunction with an action of `HandlerPool`, so the host's
behaviours are behaviours of the pool, which is proved.

### BusSubscriptions

The subscriptions of one (topic, group) key, with a task in `start_consuming()`.
`subscribers`, `pending`, `registered`, `task` are `_subscribers`, `_pending_consumer_keys`,
`_group_consumers`, `_group_consumer_tasks`; `lock` is `_lock`, which only unsubscribe() keeps
across awaits; `consumer`, `loop`, `reads` are the consumers and loops ever made. `Subscribe`
and `Collect` reserve the key and begin to join; `Joined`, `JoinFails`, `CleanedUp`, `TryAgain` are
`_start_consumer_for_topic_unlocked` and the retries around it. `JoinAbandoned` is every way to
give a join up that none of its except clauses catches, and the reservation stays (section 6).
`LoopBegins` to `LoopCancelled`
the life of `_consume_loop`, without what it does to records; `Unsubscribe`, `Unregister`,
`Unsubscribed` and `Close` to `Closed` the two ways down. `late`, `retried`, `leaked`, `excused`,
`broken` name what the properties except.

## 4. What the runs check

| Run | Instance | Distinct states | What it shows |
|---|---|---|---|
| `breaker` | 3 calls, threshold 2, 2 probe successes, active recovery | 502 | counters fit the state (`CountersMatchState`); the recovery task exists exactly while it has an opening to end (`TimerServesOpening`); an OPEN breaker has admitted nobody (`OpenAdmitsNobody`) and is left only for one of three causes (`LeavesOpenForCause`), without any caller (`RecoversUnattended`) |
| `consumer_group` | 2 members, 2 subscribers, two logs of 2 records: spent and malformed, malformed and fresh | 1,042,060 | the owner leaves no record behind (`OwnerSkipsNothing`), commits run ahead only of what it holds (`CommitRunsAheadOnlyInHand`), subscribers are served in order even by a member that was evicted unawares: the group implements `OrderedDelivery` (`DeliversInOrder`); once disruptions and dead-letter failures stop, every record is accounted for (`PartitionDrains`) |
| `wiring` | 1 member, a wired and a plain subscriber, 2 records (the first spent, the second with a bad envelope), idempotency store, budget 2 | 890,364 | no record is dispatched to completion twice (`AppliedAtMostOnce`); a record the callback lets through was applied, parked, or knowingly let go (`ReturnedForAReason`); a spent retry budget is not given back (`BudgetStaysSpent`) |
| `outbox` | 2 processors, 3 rows, batches of 2, threshold 1 | 127,136 | implements `NotificationDelivery` (`Promises`); dead-lettered at the threshold exactly (`ThresholdKept`); drains (`Drains`) |
| `gateway` | 2 directions, 3 + 1 records, one envelope in both logs, one undecodable and one refused record | 1,611,100 | the committed offset passes an undelivered record only if it left a hand without a nack (`Acknowledged`); twice published means the crash window (`OncePublished`) |
| `host` | 4 messages, one at a time or three at a time, 2 instances, 1 unhealthy return | 118,174 | stop() shuts down a host at rest (`Quiesced`); permits and pending count fit the tasks (`PermitsKept`); a parallel host cuts nothing before its deadline (`TasksCutOnlyByTimeout`); the pool's `Exclusive`, `Conserved`, `NoLostWakeup` under the host's cancellations; the pool's shutdown misses only what cancelled recyclings left (`ShutdownReachesAll`); stop() ends although handlers hang (`StopCompletes`) |
| `retry` | 2 workers, 2 rows, 2 attempts, batches of 2, 1 fault | 1,675,559 | counts and statuses claim no more than was done (`OutcomesBacked`); a notification goes out twice for one of four causes only (`RepeatedForCause`); the table comes to rest (`ComesToRest`) |
| `subscriptions` | 2 subscriptions and `start_consuming()`, 2 consumers, 1 retry | 386,094 | no joined consumer is in nobody's care (`NoStrayConsumer`); a subscription has a running loop, with five named exceptions (`Served`); a finished close() leaves only late joins (`ClosedForGood`); unsubscribe() and close() end (`StopsEnd`) |
| `wiring_withheld`, `gateway_ack`, `retry_concurrent`, `subscribe_duplicate` | small instances | - | statements of docstrings and comments that the code does not keep; section 6 |

Why the bounds are enough. The hazards need two actors and one more record than the one in
trouble: two members to race over a partition, two processors or workers for one table, two
directions for the shared lock, three overlapping calls for two late outcomes next to a
probe, three tasks for two instances so that one is parked while another returns. One record
of each kind (out of retries, unconvertible, always rejected, unreadable, undecodable,
refused) together with an ordinary one makes every branch reachable; two subscribers are
needed for one to fail before or after another succeeded. Batches of two out of three rows
leave one row outside a batch. In `wiring` one member is enough because a restart or a rewind
of that member already repeats a record; two members competing for a claim are covered by the
proof. `subscriptions` allows two consumers because a stray one is one more than the
registered; three (2,484,167 states) gave no other answer. `MaxRecycles`, `MaxFaults`,
`MaxConsumers` and `MaxRetries` are bounds on how often something unusual happens. Counters that
matter only up to a bound saturate: `applied` and `published` at 2 ("more than once"), `tries` at
`MaxAttempts`, `retries` of the outbox at `MaxRetries + 1`, `retries` of the wiring at
`MaxAttempts`; in each case the properties do not tell larger values apart. For the safety
properties the bounds do not matter in the end, since section 5 proves them for every value. No run uses
symmetry.

`CHECK_DEADLOCK FALSE` is set where the system may stop: a closed breaker component with no
call left, consumer groups whose members are all down or failed, a host whose handler hangs
while nobody stops it, a retry table at rest, a closed bus.

### Fairness

- `CircuitBreaker`: `TimerWakes` and `TimerRecovers` are weakly fair. `asyncio.sleep` ends, and
  a task queued on an `asyncio.Lock` that is never held across an await gets it. Callers are
  not fair, so recovery is unattended.
- `EventBusConsumer`: a member's loop goes on (callbacks and dead-letter writes end one way or
  another) and the coordinator assigns the partition. `PartitionDrains` holds for behaviours in
  which disruptions and dead-letter failures eventually stop, and excludes a partition that
  stays with a member whose loop has ended by an exception, which the code does not repair.
- `NotificationOutbox`: `Process(p)` is weakly fair, since its awaits are publishes and
  statements with timeouts and its polls end by themselves. `Drains` holds once faults stop,
  unless all processors are stopped, and with fewer unreadable rows than a batch (section 6).
- `RuntimeHost`: the steps of stop() and its timers go on, a task that was created runs its
  first step, a cancellation is delivered, and a cancelled message's cleanup (health check,
  closing an instance, publishing) ends. Nothing is assumed of a handler's `execute()`, of the
  semaphore or of new messages, so `StopCompletes` covers handlers that hang.
- `RetryWorker`: the clock reaches `next_retry_at` (`Due`), and a worker goes on polling and ends
  its calls, which have timeouts (`Work`). `ComesToRest` except when all workers are stopped.
- `BusSubscriptions`: a cancelled loop ends, unsubscribe() and close() go on whenever the loop
  or the lock they wait for is there. asyncio's lock is handed on in the order of asking, which
  is why their waits need no more than weak fairness. Joins may take for ever.
- `GatewayDelivery` states none: its progress depends on a remote broker that may be down for
  ever while the shared lock is held.

## 5. What is proved

TLAPS proves the following for every value of the constants that satisfies the named
`ASSUME`s of the modules (thresholds and budgets positive, log lengths natural numbers, sets
of special records within the log, the absent member not a member). Number and kind of calls,
members, subscribers, processors, workers, tasks, instances, directions, records and envelopes
are arbitrary.

| Theorem | Statement | Argument |
|---|---|---|
| `CircuitBreakerProofs!TypeCorrect`, `BreakerCorrect`, `TimerCorrect`, `AdmissionCorrect`, `LeavesOpenOnlyForCause` | types; `CountersMatchState`, `TimerServesOpening`, `OpenAdmitsNobody`; the action property | The conjunction `BreakerInv` is inductive over the types. The action property follows step by step: a late success closes an OPEN breaker only for a call outside `fresh`, which is `OpenAdmitsNobody`. |
| `EventBusProofs!TypeCorrect`, `DeliveryCorrect`, `CommitCorrect`, `OrderCorrect` | types; `OwnerSkipsNothing`, `CommitRunsAheadOnlyInHand`, `InOrder` | None is inductive alone. `ServedSoFar` relates the subscriber whose turn it is to the fates of the record in hand, so that finishing a record settles it; the committed offset relies on the position, the position on order, and order, for a member that may seek to a stale record, on every member and not just the owner. |
| `EventBusProofs!BusDeliversInOrder` | `Spec => DeliversInOrder` | `InOrder` makes whatever is in hand due; `KindInHand` ties the phase of the loop to the kind of the record, hence the outcome to what the kind allows; and what is let go at an offset loses a head of the log because everything below that offset is accounted for or lost with it (`LetGoAccounts`). |
| `EventBusProofs!NoHolesCorrect` | `NoHoles`: once anything has become of a record, everything has of the ones before it | From the steps of `OrderedDelivery` alone. |
| `EventBusProofs!WiringImplementsBus` | `WSpec => Spec` | Every step of the composition is a step of the bus or leaves it alone; so `DeliveryCorrect` and `BusDeliversInOrder` hold of the composition as well. |
| `EventBusProofs!WiringTypeCorrect`, `AppliedOnce` | types; `AppliedAtMostOnce` | `OnceInv`: a callback under way has its member's turn (`HoldsItsTurn`), what is being dispatched is recorded and not yet applied (`Claimed`), by one member only (`OneDispatchEach`), and only recorded ids are applied. The claim is what an evicted member and its successor compete for. |
| `EventBusProofs!ReturnedCorrect` | `ReturnedForAReason` | `ReturnsForAReason` goes through the ways a callback returns: each names its reason in the same step. No later step, restarts and rewinds included, takes a reason back (`ReasonStep`). |
| `EventBusProofs!BudgetCorrect` | `BudgetStaysSpent` | Action by action: `retries` falls in `DispatchSucceeds`, after a confirmed dead letter, and when the process ends. |
| `NotificationOutboxProofs!TypeCorrect`, `ThresholdCorrect` | types; `ThresholdKept` | `OutboxInv`: row locks are exclusive and only on pending rows (`Exclusive`), uncommitted marks are backed by a publish (`Backed`), uncommitted counts are below the threshold (`Budget`). Rollback discards marks and counts together, which is why they are variables of their own. |
| `NotificationOutboxProofs!OutboxImplementsDelivery` | `Spec => Promises` | Each step maps to a step of `NotificationDelivery` or a stutter. `Exclusive` gives that what is published is not settled, `Backed` that what a commit settles was published. |
| `GatewayDeliveryProofs!TypeCorrect` | types, a record in hand at the right steps, only the lock's holder past it | Leaving the queue of the lock takes it from nobody at its head (`WithoutKeepsOwner`). |
| `GatewayDeliveryProofs!AcknowledgedCorrect` | `Acknowledged` | `Frontier`: committed offset, record in hand, buffer and fetch position are all in front of every `Missing` record (unsettled and not abandoned). A stale buffer after a rejoin is what makes it more than a statement on the position: any buffered record behind a missing one implies that the missing one is buffered or in hand. |
| `GatewayDeliveryProofs!OncePublishedCorrect` | `OncePublished` | `MarkedOrInHand`: an envelope published outside the window is marked, or the holder of the lock is about to mark it; the holder publishes only what has no marker. |
| `HandlerPoolProofs!PoolTypeCorrect`, `ExclusiveCorrect`, `ConservedCorrect`, `NoLostWakeupCorrect` | types; `Exclusive`, `Conserved`, `NoLostWakeup`, of the pool with any callers | `PoolInv` adds: before it is open nobody is inside (`Unopened`); the queue of parked callers is the set of parked callers, each once (`InLine`); a number the factory has not given out is nobody's (`Births`, `Made`), which bounds the instances by `PoolSize + MaxRecycles`. `Tally` counts what each step moves between steps of `checkout()`, so that `Conserved` and `NoLostWakeup` become arithmetic. |
| `HandlerPoolProofs!RosterCorrect` | `Roster`: what is idle or lent is on `_all_instances`, once, and until shutdown begins nothing on it is closed | An instance leaves the list in the step that begins to close it, and a replacement that joins it was never closed. |
| `HandlerPoolProofs!ReachCorrect` | `Reach`: until shutdown is done, the open instances missing from the list are no more than the replacements being made and `lost` | Counting: a recycling that ends badly moves one from the first to the second. |
| `RuntimeHostProofs!HostUsesPool` | `Spec => UsesPool` | Every step of the host is a pool step or leaves the pool alone (`HostStepUsesPool`), so the pool's theorems hold of the host (`HostExclusive`, `HostConserved`, `HostNoLostWakeup`). |
| `RuntimeHostProofs!HostTypeCorrect`, `QuiescedCorrect`, `PermitsKeptCorrect`, `TasksCutCorrect` | types; `Quiesced`, `PermitsKept`, `TasksCutOnlyByTimeout` | `HostInv`: the tasks in the pool are the messages in the stage `pooled` (`TasksInPool`), which ties the two machines together; the loop and the message it handles (`LoopInv`); after the collection nothing is in flight (`Gathered`). |
| `RuntimeHostProofs!ShutdownReachesAllCorrect` | `ShutdownReachesAll` | `HostReach`: the pool is shut down after the last task is gathered, so the list stands still under the iterator, and `Reach` with no replacement in the making is the claim. The pool alone does not promise it. |
| `RuntimeHostProofs!HandlersOpenCorrect` | `HandlersOpen`: no message is executed by an instance whose shutdown() was called | `Roster` before shutdown; an empty pool of callers from then on. |
| `RuntimeHostProofs!WaitsForNobodyCorrect` | `WaitsForNobody`: in its last wait stop() waits only for messages a cancellation is about to reach or has already made return their instance | A cancellation that is due stays due until it arrives; one that has arrived leaves no way back to a handler or to the pool's queue. |
| `RetryWorkerProofs!RetryTypeCorrect`, `OutcomesBackedCorrect` | types; `OutcomesBacked` | `SeenBacked`: what a worker remembers of a row was true once, and the attempt it is at is counted in `tries`; a stale copy is therefore never more than was done, whoever writes it. `Recorded`: a success about to be written was delivered. |
| `RetryWorkerProofs!RepeatedForCauseCorrect` | `RepeatedForCause` | A row nobody is to blame for is in one worker's care at most (`Alone`), and once it was sent it is about to be recorded or is `succeeded` (`Settled`). |
| `BusSubscriptionsProofs!SubscriptionsTypeCorrect`, `NoStrayCorrect`, `ServedCorrect`, `ClosedForGoodCorrect` | types; `NoStrayConsumer`, `Served`, `ClosedForGood` | `SubsInv` (`SubscriptionsCorrect`): consumers are numbered in the order they are made (`Numbered`) and each is joined by one caller (`Joins`); without a retry, the reservation lets one caller join at a time (`OneJoin`) and who joins finds nothing registered; a reservation that nobody holds is one that a given-up join left (`Reserved`), so that a subscription finding it is excused and every other has its consumer (`Expected`); the registered consumer is live and no one that somebody has taken out to stop (`Registered`, `Closing`); and on an open bus its loop runs unless it broke or is being cancelled (`Running`). |
| `BusSubscriptionsProofs!AwaitedEndCorrect` | `AwaitedEnd`: unsubscribe() and close() wait only for loops that have ended or whose cancellation is on its way | Cancelling precedes each wait, and a cancellation is forgotten only with the loop's end. |
| `BusSubscriptionsProofs!ReservationCorrect` | `~retried => NoDuplicate` | `OneJoin`: the retry of start_consuming() alone breaks what its comment promises (section 6, 4). |

Only model-checked: `RecoversUnattended`, `PartitionDrains`, `Drains`, `StopCompletes`, `ComesToRest`
and `StopsEnd`, which are liveness under fairness and out of the provers' reach. What each needs
of safety is proved where it says more than a type: `TimerCorrect` for the first,
`WaitsForNobodyCorrect` for `StopCompletes`, `AwaitedEndCorrect` for `StopsEnd`. Recursive
definitions occur nowhere.

## 6. Where code and text disagree

Each of the first four has a run in which TLC finds the quoted statement violated.

1. `event_bus_subcontract_wiring.py:929` withholds its commit so that "Kafka will redeliver
   this message"; the callback returns, so the bus moves on (`wiring_withheld`).
2. `service_gateway_delivery.py:88` acknowledges "only after durable destination delivery"; a
   supervisor restart loses the record the healthy direction had in hand (`gateway_ack`).
3. `service_retry_worker.py:112` selects with row locks "to prevent multiple worker instances
   from processing the same row concurrently"; the locks end with the statement
   (`retry_concurrent`).
4. `event_bus_kafka.py:2522` reserves keys so that concurrent starts "cannot race and create
   duplicate consumers"; `start_consuming()` reserves again after a failed join without looking
   whether a subscription took the key meanwhile (`subscribe_duplicate`). Until that second try
   the promise is kept (`ReservationCorrect`).

Without a run of its own, but modelled, with its consequence excused by name:

- `event_bus_kafka.py:2571`: "Every failure path discards the pending-key reservation". Some do
  not. While a topic's metadata is waited for, the except clause awaits `consumer.stop()` (1822)
  and `asyncio.sleep()` (1875), where the `except CancelledError` beside it (1800) does not
  reach; an invalid KAFKA_INSTANCE_ID (1589-1605) and a consumer constructor that raises (1753,
  1880) are caught by nothing; and start_consuming() can be cancelled when it has reserved and
  not yet begun to join (2555, 2577). `JoinAbandoned` is these paths. The key then stays in
  `_pending_consumer_keys`, which close() does not clear either: a later subscribe(), even after
  close() and start(), takes somebody to be joining (1437), returns without an error and never
  gets a consumer. `pending => Joining`, which the comment amounts to, fails in three steps
  (`Open`, `Subscribe`, `JoinAbandoned`); a second `Subscribe` is then unserved. What holds is
  `Reserved`: a reservation nobody holds was left behind like this (`leaked`), and `Served`
  excuses the callbacks that find nothing else (`Orphaned`).

Without a run:

- `event_bus_kafka.py:2096` calls a record with retries remaining "still live"; nobody
  publishes it again and the position moves on.
- `event_bus_subcontract_wiring.py:194` calls infrastructure errors retryable; with an
  idempotency store the record was recorded before its dispatch failed and the retry is
  skipped (one of the reasons `ReturnedForAReason` names).
- `transition_notification_outbox.py:124` dead-letters what exceeds the threshold; a row that
  does not validate never gets that far, and a batch of them blocks the outbox.
- A late success closes an OPEN breaker without telling the transition callback
  (`mixin_async_circuit_breaker.py:709`), and HALF_OPEN admits any number of probes.
- Close calls `cancel_active_recovery` once; a failure recorded after it can open the breaker
  and start a recovery task again. `TimerServesOpening` allows for it.
- Comments speak of at-least-once consumption; with auto-commit of the position it is at most
  once around a crash.
- Two wired nodes on one topic share the idempotency domain, so the second skips what the
  first has recorded.
- `runtime_host_process.py:2129` says that messages being processed are allowed to complete; a
  sequential host handles its message inside the consume loop, which unsubscribe() cancels.
- `dlq/plugin_dlq.py:201`: the retry worker's delivery only logs, though the plugin promises to
  publish again; its shutdown() (`:237`) awaits the synchronous `stop()`.
- A join that outlasts close() leaves a consumer on the closed bus (`late`); a second
  subscribe() while the first's join is pending succeeds although that join then fails
  (`excused`); a consume loop that ends by an exception keeps its key registered (`broken`).

## 7. What is not modelled, and why

Of the modelled components:

- Bus: several partitions (independent of each other but for the shared loop),
  `auto_offset_reset=latest` on the first start of a group, which skips what was there before,
  and a subscriber list that changes while a record is being dispatched.
- Subscriptions: several keys (they share only the lock and the flags), a callback that
  unsubscribes itself and a start() in the midst of close() (no caller does either); a
  cancellation of unsubscribe() or close() while it stops the consumer it has taken out of the
  registry (861, 2061), which would leave that consumer to itself. A start() that fails changes
  nothing here.
- Wiring: creating and cleaning up subscriptions, which make a fixed list; the eviction of
  retry counts beyond 10,000 ids; the expiry of the idempotency store, after which a record
  that comes back is new again; consumption metrics.
- Outbox: `store()` outside a transaction in non-strict mode, a missing dead-letter publisher,
  the metrics.
- Gateway: loopback records (marked and committed without a publish), status events,
  heartbeats and staleness times, topic rewriting, several topics and partitions per
  direction, records with null headers (which the transport drops after moving its position).
- Breaker: the transition callback, which is told fire-and-forget, and configuration.

- Runtime host: start-up, the dispatch-engine routes, the local ingress, and the services
  stop() closes after the handlers. What the offset does is `EventBusConsumer`'s matter: in
  parallel mode the callback returns when the task is created, so a message may be committed
  before it is handled, and one that waits for the semaphore is dropped by unsubscribe().
- Retry worker: its circuit breaker only makes a poll fail, which is a poll not taken; writing
  new rows is not its business.

Of the rest: the publishing side of the bus is a retry loop around one call, whose failures
appear as unconfirmed writes. Signing, policies, loading, handlers, tooling and most workflow
nodes are data transformations or sequential adapters in which a model would restate the code.
Six components have some concurrency and were weighed:

- `BatchResponsePublisher`: `_publish_response`, the host's only way to hand it anything, has no
  caller.
- Request-response wiring: every step between two awaits is one dictionary operation; what
  could go wrong is a reused correlation id, and no caller reuses one.
- Scheduler: its sequence number is persisted on stop only, but nothing compares numbers.
- Snapshots: two concurrent publishes of one entity may reach the compacted topic in either
  order; that is one statement rather than a state machine.
- Registration: its timeouts and acknowledgements meet in SQL and contract-declared effects.
- Idempotency stores: an atomic `check_and_record` in `SubcontractDelivery`. The PostgreSQL store
  looks records without a domain up by `IS NULL` (`store_postgres.py:336`), which its unique
  constraint does not cover.

Some hazards of `PROJECT.json` end in what the code really does, so that properties name the
outcome and do not catch it: a late success closes an OPEN breaker, an exception of the consumer
ends its loop for good, a record may be recorded and not done, a restart forgets the retry
counts, and a callback goes unserved because the join it counted on failed or left its
reservation behind. Each says so in its note.

Known hazards outside the list of `PROJECT.json`, because no property covers them: HALF_OPEN
admits every waiting caller at once; the wiring's retry table evicts at 10,000 ids; the shared
idempotency domain; a gateway direction that retries for ever inside the shared lock, or whose
refused record comes back for ever; a null header that the transport drops with its record.

## 8. Running it

    tlc -config MCEventBusConsumer.cfg MCEventBusConsumer
    tlapm EventBusProofs.tla

and the same for the other configurations and proof modules. The longest runs are `retry`
(about two minutes), `consumer_group` and `gateway` (about a minute and a half each); a proof
module takes from seconds to a few minutes.
