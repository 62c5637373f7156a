-------------------------- MODULE EventBusConsumer --------------------------
(***************************************************************************)
(* The consuming side of EventBusKafka: the members of one consumer group  *)
(* on one partition.                                                       *)
(*                                                                         *)
(* Each member is a process with one bus, one aiokafka consumer and one    *)
(* _consume_loop.  Fetching moves the consumer's position past the record  *)
(* before any subscriber sees it.  The loop then awaits every subscriber   *)
(* in turn; a subscriber that raises is either left alone (its header      *)
(* retries are not used up) or dead-lettered, and if a dead-letter write   *)
(* is not confirmed the loop seeks back to the record.  The loop never     *)
(* commits: with enable_auto_commit the client commits the position, at    *)
(* any time and when it stops or gives the partition up.  Crashes, clean   *)
(* closes, evictions and rebalances happen at any await.                   *)
(*                                                                         *)
(* The subscriber list is fixed here: subscribing and unsubscribing, and   *)
(* the consumers they start and stop, are not part of this module.         *)
(***************************************************************************)
EXTENDS Integers

CONSTANTS
    Members,       \* bus instances of the consumer group
    SubCount,      \* subscriptions of the group to the topic, in list order
    LogEnd,        \* offset after the last record of the partition
    Logs,          \* the contents considered, a kind for each offset
    AutoCommit,    \* enable_auto_commit (True by default)
    NoMember

Offsets == 0 .. (LogEnd - 1)
Subs == 1 .. SubCount

\* spent: a record with retry_count >= max_retries; malformed: one that
\* _kafka_msg_to_model raises on.
Kinds == {"fresh", "spent", "malformed"}

ASSUME LogAssumption == LogEnd \in Nat
ASSUME SubAssumption == SubCount \in Nat \ {0}
ASSUME RecordAssumption == Logs \subseteq [Offsets -> Kinds]
ASSUME NoMemberAssumption == NoMember \notin Members

VARIABLES
    log,         \* the records of the partition
    owner,       \* broker: the member the partition is assigned to
    committed,   \* broker: committed offset of the group
    phase,       \* [Members -> where the member's loop is]
    position,    \* [Members -> next offset its consumer fetches]
    current,     \* [Members -> offset in hand, when one is]
    next,        \* [Members -> subscriber whose turn it is]
    unsafe,      \* [Members -> subscribers with an unconfirmed dead letter]
    handled,     \* <<o, s>>: subscriber s's callback returned for o
    raised,      \* <<o, s>>: s raised on o with retries remaining
    dlq,         \* <<o, s>>: o is in the dead-letter topic on account of s
    exposed      \* offsets a crash, close or rebalance found already committed
                 \* although the member still had to deliver them

broker == <<log, owner, committed>>
member == <<phase, position, current, next, unsafe>>
fate == <<handled, raised, dlq, exposed>>
vars == <<log, owner, committed, phase, position, current, next, unsafe,
          handled, raised, dlq, exposed>>

Phases == {"down", "idle", "dispatch", "dlq", "raw_dlq", "failed"}
Working == {"dispatch", "dlq", "raw_dlq"}

Init ==
    /\ log \in Logs
    /\ owner = NoMember
    /\ committed = 0
    /\ phase = [m \in Members |-> "idle"]
    /\ position = [m \in Members |-> 0]
    /\ current = [m \in Members |-> 0]
    /\ next = [m \in Members |-> 1]
    /\ unsafe = [m \in Members |-> {}]
    /\ handled = {}
    /\ raised = {}
    /\ dlq = {}
    /\ exposed = {}

-----------------------------------------------------------------------------
(* One record through _consume_loop.                                       *)

\* getone() returns a record, the position already past it; the loop converts
\* the record and turns to its first subscriber.
\* Mutant: one fetch too many.
FetchPastEnd(m) ==
    /\ owner = m
    /\ phase[m] = "idle"
    /\ position[m] <= LogEnd
    /\ current' = [current EXCEPT ![m] = position[m]]
    /\ position' = [position EXCEPT ![m] = @ + 1]
    /\ phase' = [phase EXCEPT ![m] = "dispatch"]
    /\ next' = [next EXCEPT ![m] = 1]
    /\ unsafe' = [unsafe EXCEPT ![m] = {}]
    /\ UNCHANGED <<broker, fate>>

Fetch(m) ==
    /\ owner = m
    /\ phase[m] = "idle"
    /\ position[m] < LogEnd
    /\ current' = [current EXCEPT ![m] = position[m]]
    /\ position' = [position EXCEPT ![m] = @ + 1]
    /\ phase' = [phase EXCEPT ![m] =
                    IF log[position[m]] = "malformed" THEN "raw_dlq" ELSE "dispatch"]
    /\ next' = [next EXCEPT ![m] = 1]
    /\ unsafe' = [unsafe EXCEPT ![m] = {}]
    /\ UNCHANGED <<broker, fate>>

\* _rewind_after_unpersisted_dlq: consumer.seek() raises, and the error is only
\* logged, when the partition is no longer assigned to this member.
RewindForgotten(m) == UNCHANGED position  \* mutant

Rewind(m) ==
    position' = IF owner = m THEN [position EXCEPT ![m] = current[m]] ELSE position

\* The subscriber whose turn it is has been served, its dead letter unconfirmed
\* if it is in bad.  After the last one the loop decides about the offset.
\* (Mutant: only the last subscriber's dead letter counts.)
ServedLastOnly(m, bad) ==
    /\ unsafe' = [unsafe EXCEPT ![m] = @ \cup bad]
    /\ next' = [next EXCEPT ![m] = @ + 1]
    /\ IF next[m] = SubCount
         THEN /\ phase' = [phase EXCEPT ![m] = "idle"]
              /\ IF bad = {} THEN UNCHANGED position ELSE Rewind(m)
         ELSE /\ phase' = [phase EXCEPT ![m] = "dispatch"]
              /\ UNCHANGED position
    /\ UNCHANGED <<broker, current>>

Served(m, bad) ==
    /\ unsafe' = [unsafe EXCEPT ![m] = @ \cup bad]
    /\ next' = [next EXCEPT ![m] = @ + 1]
    /\ IF next[m] = SubCount
         THEN /\ phase' = [phase EXCEPT ![m] = "idle"]
              /\ IF unsafe[m] \cup bad = {} THEN UNCHANGED position ELSE Rewind(m)
         ELSE /\ phase' = [phase EXCEPT ![m] = "dispatch"]
              /\ UNCHANGED position
    /\ UNCHANGED <<broker, current>>

\* _dispatch_to_subscriber: the callback returns.
CallbackReturns(m) ==
    /\ phase[m] = "dispatch"
    /\ handled' = handled \cup {<<current[m], next[m]>>}
    /\ Served(m, {})
    /\ UNCHANGED <<raised, dlq, exposed>>

\* _dispatch_to_subscriber: the callback raises with retries remaining.
CallbackRaises(m) ==
    /\ phase[m] = "dispatch"
    /\ log[current[m]] = "fresh"
    /\ raised' = raised \cup {<<current[m], next[m]>>}
    /\ Served(m, {})
    /\ UNCHANGED <<handled, dlq, exposed>>

\* _dispatch_to_subscriber: the callback raises, no retries are left, and the
\* loop awaits the dead-letter write.
CallbackExhausts(m) ==
    /\ phase[m] = "dispatch"
    /\ log[current[m]] = "spent"
    /\ phase' = [phase EXCEPT ![m] = "dlq"]
    /\ UNCHANGED <<broker, position, current, next, unsafe, fate>>

\* _publish_to_dlq returns True.
DlqConfirmed(m) ==
    /\ phase[m] = "dlq"
    /\ dlq' = dlq \cup {<<current[m], next[m]>>}
    /\ Served(m, {})
    /\ UNCHANGED <<handled, raised, exposed>>

\* _publish_to_dlq returns False: no producer, an error, or a timeout, after
\* which the record may be in the topic all the same.
DlqUnconfirmed(m) ==
    /\ phase[m] = "dlq"
    /\ dlq' \in {dlq, dlq \cup {<<current[m], next[m]>>}}
    /\ Served(m, {next[m]})
    /\ UNCHANGED <<handled, raised, exposed>>

\* _publish_raw_to_dlq for a record that cannot be converted, on account of
\* every subscriber.
RawDlqConfirmed(m) ==
    /\ phase[m] = "raw_dlq"
    /\ dlq' = dlq \cup ({current[m]} \X Subs)
    /\ phase' = [phase EXCEPT ![m] = "idle"]
    /\ UNCHANGED <<broker, position, current, next, unsafe, handled, raised, exposed>>

\* Mutant: the result of the raw dead-letter write is ignored.
RawDlqIgnored(m) ==
    /\ phase[m] = "raw_dlq"
    /\ phase' = [phase EXCEPT ![m] = "idle"]
    /\ UNCHANGED <<broker, position, current, next, unsafe, fate>>

RawDlqUnconfirmed(m) ==
    /\ phase[m] = "raw_dlq"
    /\ dlq' \in {dlq, dlq \cup ({current[m]} \X Subs)}
    /\ phase' = [phase EXCEPT ![m] = "idle"]
    /\ Rewind(m)
    /\ UNCHANGED <<broker, current, next, unsafe, handled, raised, exposed>>

\* The consumer raises out of the async for: the loop ends, the consumer stays
\* in the group.
LoopFails(m) ==
    /\ phase[m] = "idle"
    /\ phase' = [phase EXCEPT ![m] = "failed"]
    /\ UNCHANGED <<broker, position, current, next, unsafe, fate>>

-----------------------------------------------------------------------------
(* The client library, the broker and the process.                         *)

\* A rebalance gives the free partition to m, which resumes at the committed
\* offset.
Assign(m) ==
    /\ owner = NoMember
    /\ phase[m] # "down"
    /\ owner' = m
    /\ position' = [position EXCEPT ![m] = committed]
    /\ UNCHANGED <<log, committed, phase, current, next, unsafe, fate>>

AutoCommitTick(m) ==
    /\ AutoCommit
    /\ owner = m
    /\ committed' = position[m]
    /\ UNCHANGED <<log, owner, member, fate>>

\* What the group's committed offset c has passed although owner m holds it, or
\* has sought back to it.
Passed(m, c) ==
    {o \in Offsets : o < c /\ (o >= position[m] \/ (phase[m] \in Working /\ o = current[m]))}

\* The partition is taken away without a commit: a missed heartbeat, or
\* max_poll_interval_ms spent on one record.  The loop knows nothing of it.
Evict(m) ==
    /\ owner = m
    /\ owner' = NoMember
    /\ exposed' = exposed \cup Passed(m, committed)
    /\ UNCHANGED <<log, committed, member, handled, raised, dlq>>

\* The position committed when the consumer stops or a rebalance takes the
\* partition while it is alive.
LastCommit(m) == IF AutoCommit THEN position[m] ELSE committed

Revoke(m) ==
    /\ owner = m
    /\ owner' = NoMember
    /\ committed' = LastCommit(m)
    /\ exposed' = exposed \cup Passed(m, LastCommit(m))
    /\ UNCHANGED <<log, member, handled, raised, dlq>>

\* The process and its memory are gone.
GoDown(m) ==
    /\ phase[m] # "down"
    /\ phase' = [phase EXCEPT ![m] = "down"]
    /\ position' = [position EXCEPT ![m] = 0]
    /\ current' = [current EXCEPT ![m] = 0]
    /\ next' = [next EXCEPT ![m] = 1]
    /\ unsafe' = [unsafe EXCEPT ![m] = {}]

\* close(): the loop is cancelled wherever it is, then the consumer stops.
Close(m) ==
    /\ GoDown(m)
    /\ IF owner = m
         THEN /\ owner' = NoMember
              /\ committed' = LastCommit(m)
              /\ exposed' = exposed \cup Passed(m, LastCommit(m))
         ELSE UNCHANGED <<owner, committed, exposed>>
    /\ UNCHANGED <<log, handled, raised, dlq>>

Crash(m) ==
    /\ GoDown(m)
    /\ IF owner = m
         THEN /\ owner' = NoMember
              /\ exposed' = exposed \cup Passed(m, committed)
         ELSE UNCHANGED <<owner, exposed>>
    /\ UNCHANGED <<log, committed, handled, raised, dlq>>

Restart(m) ==
    /\ phase[m] = "down"
    /\ phase' = [phase EXCEPT ![m] = "idle"]
    /\ UNCHANGED <<broker, position, current, next, unsafe, fate>>

-----------------------------------------------------------------------------
Progress(m) ==
    \/ Fetch(m)
    \/ CallbackReturns(m) \/ CallbackRaises(m) \/ CallbackExhausts(m)
    \/ DlqConfirmed(m) \/ DlqUnconfirmed(m)
    \/ RawDlqConfirmed(m) \/ RawDlqUnconfirmed(m)

Disruption(m) ==
    \/ LoopFails(m)
    \/ Evict(m) \/ Revoke(m)
    \/ Close(m) \/ Crash(m)

Next ==
    \E m \in Members :
        \/ Progress(m)
        \/ Disruption(m)
        \/ Assign(m) \/ AutoCommitTick(m) \/ Restart(m)

Spec == Init /\ [][Next]_vars

\* The loop keeps running, callbacks and dead-letter writes end one way or the
\* other, and the group coordinator assigns the partition.
Fairness ==
    /\ \A m \in Members : WF_vars(Progress(m))
    /\ WF_vars(\E m \in Members : Assign(m) /\ phase[m] = "idle")

FairSpec == Spec /\ Fairness

-----------------------------------------------------------------------------
TypeOK ==
    /\ log \in Logs
    /\ owner \in Members \cup {NoMember}
    /\ committed \in 0 .. LogEnd
    /\ phase \in [Members -> Phases]
    /\ position \in [Members -> 0 .. LogEnd]
    /\ current \in [Members -> 0 .. LogEnd]
    /\ next \in [Members -> 1 .. SubCount + 1]
    /\ unsafe \in [Members -> SUBSET Subs]
    /\ handled \subseteq Offsets \X Subs
    /\ raised \subseteq Offsets \X Subs
    /\ dlq \subseteq Offsets \X Subs
    /\ exposed \subseteq Offsets

Settled(o, s) == <<o, s>> \in handled \cup dlq \cup raised
Accounted(o) == o \in exposed \/ \A s \in Subs : Settled(o, s)

\* The owner never leaves a record behind: below its position every record has
\* reached every subscriber (the callback returned, raised with retries left,
\* or was dead-lettered for certain), except the one it has in hand.
OwnerSkipsNothing ==
    \A m \in Members : owner = m =>
        \A o \in Offsets : o < position[m] =>
            Accounted(o) \/ (phase[m] \in Working /\ current[m] = o)

\* The committed offset passes an unaccounted record only while the owner has
\* it in hand or has sought back to it; every record lost otherwise is one a
\* disruption found in exactly that window.
CommitRunsAheadOnlyInHand ==
    \A o \in Offsets : o < committed =>
        \/ Accounted(o)
        \/ \E m \in Members : owner = m /\ o \in Passed(m, committed)

\* Head of line: any member, evicted or not, has a record in hand only after
\* every earlier one is accounted for, so seeking back to it skips nothing.
InOrder ==
    \A m \in Members : phase[m] \in Working =>
        \A o \in Offsets : o < current[m] => Accounted(o)

\* Subscribers get the records in order, and what a crash, close or rebalance loses
\* is the record whose turn it was, with those sought back to behind it: the group
\* implements OrderedDelivery (_consume_loop, lines 2361-2475).
Delivery == INSTANCE OrderedDelivery
            WITH Records <- Offsets, Receivers <- Subs, lost <- exposed

DeliversInOrder == Delivery!Spec

\* Once disruptions stop and the dead-letter topic is back, every record is
\* accounted for: those whose dead letter failed are fetched again and written,
\* and hold up the ones behind them no longer than that.  Except when nobody is
\* left, or when the partition stays with a member whose loop has failed.
Quiet ==
    <>[][~ \E m \in Members :
            Disruption(m) \/ DlqUnconfirmed(m) \/ RawDlqUnconfirmed(m)]_vars

Stuck ==
    \/ \A m \in Members : phase[m] \in {"down", "failed"}
    \/ owner # NoMember /\ phase[owner] = "failed"

PartitionDrains == Quiet => (<>[]Stuck \/ \A o \in Offsets : <>Accounted(o))

=============================================================================
