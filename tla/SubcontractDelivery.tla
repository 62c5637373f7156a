------------------------- MODULE SubcontractDelivery -------------------------
(***************************************************************************)
(* EventBusSubcontractWiring's dispatch callback, subscribed to the topic  *)
(* of EventBusConsumer: what a contract-wired node sees of a partition.    *)
(*                                                                         *)
(* The callback awaits the idempotency store, the dispatch engine (with    *)
(* the result applier) and, for a record it gives up, the dead-letter      *)
(* topic.  It tells the bus nothing but that it returned or raised:        *)
(* EventBusKafka has no commit_offset, so _commit_offset does nothing.     *)
(* Subscriptions outside Wired are other callbacks on the same topic; they *)
(* matter because their failures make the bus show a record again.         *)
(***************************************************************************)
EXTENDS EventBusConsumer

CONSTANTS
    Wired,              \* subscriptions whose callback is the wiring's
    BadEnvelopes,       \* records that do not deserialize, or have no id
    Dedupe,             \* an idempotency store is configured and enabled
    MaxAttempts,        \* retry_config.max_attempts
    OnContentError,     \* dlq_config: "dlq_and_commit" or "fail_fast"
    OnInfraExhausted

ASSUME WiredAssumption == Wired \subseteq Subs
ASSUME AttemptsAssumption == MaxAttempts \in Nat \ {0}

VARIABLES
    step,        \* [Members -> await the callback under way is at]
    retries,     \* [Members -> _retry_counts by record], up to MaxAttempts
    seen,        \* idempotency store: records recorded under the topic's domain
    applied,     \* [Offsets -> successful dispatches], 2 standing for more
    parked,      \* records the wiring dead-lettered, confirmed
    withheld,    \* records it returned on although the dead letter failed
    skipped      \* records it took for duplicates

wiring == <<step, retries, seen, applied, parked, withheld, skipped>>
allVars == <<vars, wiring>>

DeadLettering == {"dlq_content", "dlq_drop", "dlq_infra"}
Steps == {"none", "dispatching"} \cup DeadLettering

WInit ==
    /\ Init
    /\ step = [m \in Members |-> "none"]
    /\ retries = [m \in Members |-> [o \in Offsets |-> 0]]
    /\ seen = {}
    /\ applied = [o \in Offsets |-> 0]
    /\ parked = {}
    /\ withheld = {}
    /\ skipped = {}

-----------------------------------------------------------------------------
\* It is the turn of a wired callback, at the await st.
At(m, st) == phase[m] = "dispatch" /\ next[m] \in Wired /\ step[m] = st

Goto(m, st) == step' = [step EXCEPT ![m] = st]

Raise(m) == Goto(m, "none") /\ (CallbackRaises(m) \/ CallbackExhausts(m))

Return(m) == Goto(m, "none") /\ CallbackReturns(m)

\* except (JSONDecodeError, ValidationError), except ProtocolConfigurationError.
\* (Mutant: swallow the error.)
ContentErrorSwallowed(m) == Return(m) /\ UNCHANGED retries

ContentError(m) ==
    /\ IF OnContentError = "dlq_and_commit"
         THEN Goto(m, "dlq_content") /\ UNCHANGED vars
         ELSE Raise(m)
    /\ UNCHANGED retries

\* except RuntimeHostError, except Exception: count the attempt, give up when
\* the budget is spent and the policy says so.
InfraError(m) ==
    LET o == current[m]
        spent == retries[m][o] + 1 >= MaxAttempts
    IN  /\ retries' = [retries EXCEPT ![m][o] = IF spent THEN MaxAttempts ELSE @ + 1]
        /\ IF spent /\ OnInfraExhausted = "dlq_and_commit"
             THEN Goto(m, "dlq_infra") /\ UNCHANGED vars
             ELSE Raise(m)

\* Mutant: take one attempt off instead of forgetting them.
ClearRetriesByOne(m) == retries' = [retries EXCEPT ![m][current[m]] = @ - 1]

ClearRetries(m) == retries' = [retries EXCEPT ![m][current[m]] = 0]

\* Deserialization.
Deserialize(m) ==
    /\ At(m, "none")
    /\ current[m] \in BadEnvelopes
    /\ ContentError(m)
    /\ UNCHANGED <<seen, applied, parked, withheld, skipped>>

\* check_and_record, before anything is dispatched.
\* (Mutant: is_processed instead of check_and_record.)
RecordNothing(m) ==
    /\ At(m, "none")
    /\ current[m] \notin BadEnvelopes
    /\ Dedupe => current[m] \notin seen
    /\ Goto(m, "dispatching")
    /\ UNCHANGED <<vars, retries, seen, applied, parked, withheld, skipped>>

Record(m) ==
    /\ At(m, "none")
    /\ current[m] \notin BadEnvelopes
    /\ Dedupe => current[m] \notin seen
    /\ seen' = IF Dedupe THEN seen \cup {current[m]} ELSE seen
    /\ Goto(m, "dispatching")
    /\ UNCHANGED <<vars, retries, applied, parked, withheld, skipped>>

SkipDuplicate(m) ==
    /\ At(m, "none")
    /\ Dedupe /\ current[m] \in seen \ BadEnvelopes
    /\ skipped' = skipped \cup {current[m]}
    /\ Return(m)
    /\ UNCHANGED <<retries, seen, applied, parked, withheld>>

StoreFails(m) ==
    /\ At(m, "none")
    /\ Dedupe /\ current[m] \notin BadEnvelopes
    /\ InfraError(m)
    /\ UNCHANGED <<seen, applied, parked, withheld, skipped>>

\* dispatch() and the result applier.
DispatchSucceeds(m) ==
    /\ At(m, "dispatching")
    /\ applied' = [applied EXCEPT ![current[m]] = IF @ = 0 THEN 1 ELSE 2]
    /\ ClearRetries(m)
    /\ Return(m)
    /\ UNCHANGED <<seen, parked, withheld, skipped>>

DispatchFails(m) ==
    /\ At(m, "dispatching")
    /\ InfraError(m) \/ ContentError(m)
    /\ UNCHANGED <<seen, applied, parked, withheld, skipped>>

\* EnumDispatchStatus.NO_DISPATCHER.
NoDispatcher(m) ==
    /\ At(m, "dispatching")
    /\ Goto(m, "dlq_drop")
    /\ UNCHANGED <<vars, retries, seen, applied, parked, withheld, skipped>>

\* _publish_to_dlq is confirmed: the record is finished with.
WiringDlqConfirmed(m) ==
    /\ \E st \in DeadLettering : At(m, st)
    /\ parked' = parked \cup {current[m]}
    /\ IF step[m] = "dlq_content" THEN UNCHANGED retries ELSE ClearRetries(m)
    /\ Return(m)
    /\ UNCHANGED <<seen, applied, withheld, skipped>>

\* It is not: the callback returns without committing.
\* (Mutant: and forgets the attempts.)
WiringDlqUnconfirmedClears(m) ==
    /\ \E st \in DeadLettering : At(m, st)
    /\ withheld' = withheld \cup {current[m]}
    /\ ClearRetries(m)
    /\ Return(m)
    /\ UNCHANGED <<seen, applied, parked, skipped>>

WiringDlqUnconfirmed(m) ==
    /\ \E st \in DeadLettering : At(m, st)
    /\ withheld' = withheld \cup {current[m]}
    /\ Return(m)
    /\ UNCHANGED <<retries, seen, applied, parked, skipped>>

WiringStep(m) ==
    \/ Deserialize(m)
    \/ Record(m) \/ SkipDuplicate(m) \/ StoreFails(m)
    \/ DispatchSucceeds(m) \/ DispatchFails(m) \/ NoDispatcher(m)
    \/ WiringDlqConfirmed(m) \/ WiringDlqUnconfirmed(m)

-----------------------------------------------------------------------------
\* The rest of the bus.  A callback that is not wired does as it likes; a
\* member that goes down forgets its callback and its retry counts.
OtherCallback(m) ==
    /\ phase[m] = "dispatch" /\ next[m] \notin Wired
    /\ CallbackReturns(m) \/ CallbackRaises(m) \/ CallbackExhausts(m)
    /\ UNCHANGED wiring

BusStep(m) ==
    /\ \/ Fetch(m)
       \/ DlqConfirmed(m) \/ DlqUnconfirmed(m)
       \/ RawDlqConfirmed(m) \/ RawDlqUnconfirmed(m)
       \/ LoopFails(m) \/ Evict(m) \/ Revoke(m)
       \/ Assign(m) \/ AutoCommitTick(m) \/ Restart(m)
    /\ UNCHANGED wiring

Stops(m) ==
    /\ Close(m) \/ Crash(m)
    /\ Goto(m, "none")
    /\ retries' = [retries EXCEPT ![m] = [o \in Offsets |-> 0]]
    /\ UNCHANGED <<seen, applied, parked, withheld, skipped>>

WNext ==
    \E m \in Members : WiringStep(m) \/ OtherCallback(m) \/ BusStep(m) \/ Stops(m)

WSpec == WInit /\ [][WNext]_allVars

-----------------------------------------------------------------------------
WTypeOK ==
    /\ TypeOK
    /\ step \in [Members -> Steps]
    /\ retries \in [Members -> [Offsets -> 0 .. MaxAttempts]]
    /\ seen \subseteq Offsets
    /\ applied \in [Offsets -> 0 .. 2]
    /\ parked \subseteq Offsets
    /\ withheld \subseteq Offsets
    /\ skipped \subseteq Offsets

\* With an idempotency store a record is dispatched to completion at most once,
\* whatever is redelivered, rewound, evicted or restarted in the middle of it,
\* and by whichever member.
AppliedAtMostOnce == Dedupe => \A o \in Offsets : applied[o] <= 1

\* No record passes through a wired callback for nothing: one it returned on
\* was applied, is in the dead-letter topic, or is one of the two kinds the
\* callback knowingly lets go (a dead letter that failed, a duplicate).
ReturnedForAReason ==
    \A o \in Offsets, s \in Wired : <<o, s>> \in handled =>
        applied[o] > 0 \/ o \in parked \cup withheld \cup skipped

\* A record whose attempts are used up stays so until it is applied, is
\* dead-lettered for certain or the process ends: "Leaving the retry count in
\* place means the next redelivery is still "exhausted" and retries the DLQ write".
BudgetStaysSpent ==
    [][\A m \in Members, o \in Offsets :
          retries[m][o] = MaxAttempts /\ retries'[m][o] # MaxAttempts =>
              phase'[m] = "down" \/ o \in parked' \/ applied'[o] > 0]_allVars

\* The no-dispatcher and exhausted branches: "withhold the commit entirely --
\* Kafka will redeliver this message and we retry the DLQ write".
WithheldIsRedelivered ==
    \A m \in Members : owner = m /\ phase[m] = "idle" =>
        \A o \in withheld : o \in parked \/ position[m] <= o

=============================================================================
