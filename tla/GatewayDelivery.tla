-------------------------- MODULE GatewayDelivery --------------------------
(***************************************************************************)
(* NodeGatewayDelivery: one process that mirrors two brokers, a polling    *)
(* loop per direction.  A record is checked against a durable store of     *)
(* envelope ids, published at its destination, marked in the store and     *)
(* only then committed at its source, all under one lock for both loops.   *)
(*                                                                         *)
(* Included are the pull transport (KafkaTransport: a prefetch buffer, a   *)
(* commit and a nack of single offsets), the membership watchdog, which    *)
(* cancels a loop and makes its consumer anew, and the supervisor, which   *)
(* after a failure cancels all loops and starts them again on the same     *)
(* consumers.  Both asyncio cancellations cut a loop at the await it is at.*)
(*                                                                         *)
(* One partition per direction.  Backoff times, staleness thresholds and   *)
(* status events are left out, and so are loopback records, which are      *)
(* marked and committed without a publish.                                 *)
(***************************************************************************)
EXTENDS Integers, Sequences

CONSTANTS
    Directions,
    LogEnd,        \* [Directions -> records of its source partition]
    Envelopes,     \* envelope ids
    Envelope,      \* [Records -> Envelopes]
    Undecodable,   \* records that decode_message raises on
    Refused        \* records that fail the validation at the trust boundary

Offsets(d) == 0 .. LogEnd[d] - 1
Records == UNION {{d} \X Offsets(d) : d \in Directions}
Nothing == -1   \* no record in hand

ASSUME LogAssumption == LogEnd \in [Directions -> Nat]
ASSUME EnvelopeAssumption == Envelope \in [Records -> Envelopes]

VARIABLES
    committed,   \* [Directions -> offset the source group is committed at]
    marked,      \* envelope ids in the store
    step,        \* [Directions -> await its loop is at]
    hand,        \* [Directions -> record it handles]
    lock,        \* _delivery_lock: the directions that hold or await it, in turn
    consumer,    \* [Directions -> member of its group, evicted, or gone]
    position,    \* [Directions -> fetch position of the consumer]
    buffer,      \* [Directions -> records _buffer holds]
    supervisor,  \* await _supervise_gateway_delivery is at
    published,   \* [Envelopes -> publishes at a destination]; 2 stands for more
    window,      \* envelopes once published with no marker that lasted
    abandoned    \* records that left a hand unsettled and without a nack

durable == <<committed, marked>>
transport == <<consumer, position, buffer>>
loops == <<step, hand, lock>>
history == <<published, window, abandoned>>
vars == <<committed, marked, step, hand, lock, consumer, position, buffer,
          supervisor, published, window, abandoned>>

Steps == {"poll", "lock", "check", "publish", "mark", "commit", "quarantine", "discard",
          "failed", "cancelled"}
Handling == {"check", "publish", "mark", "commit", "quarantine", "discard"}

Record(d) == <<d, hand[d]>>
InHand(d) == Envelope[Record(d)]
Goto(d, s) == step' = [step EXCEPT ![d] = s]
Owner(d) == lock # <<>> /\ Head(lock) = d

\* A record needs nothing more once its envelope is at the destination, or
\* once it was quarantined.
Settled(r) == r \in Undecodable \/ published[Envelope[r]] > 0
Unsettled(D) == {r \in {Record(d) : d \in D} : ~Settled(r)}

\* The direction is done with its record: it leaves the lock.
Without(d) ==
    LET Place == CHOOSE i \in DOMAIN lock : lock[i] = d
    IN  IF \A i \in DOMAIN lock : lock[i] # d THEN lock
        ELSE [i \in 1 .. Len(lock) - 1 |-> lock[IF i < Place THEN i ELSE i + 1]]
Leave(d, s) ==
    /\ Goto(d, s)
    /\ hand' = [hand EXCEPT ![d] = Nothing]
    /\ lock' = Without(d)

\* _prime: the buffer takes some records from position p on.
Prime(d, p) == \E k \in p .. LogEnd[d] :
    /\ buffer' = [buffer EXCEPT ![d] = p .. k - 1]
    /\ position' = [position EXCEPT ![d] = k]

Init ==
    /\ committed = [d \in Directions |-> 0]
    /\ marked = {}
    /\ step = [d \in Directions |-> "poll"]
    /\ hand = [d \in Directions |-> Nothing]
    /\ lock = <<>>
    /\ consumer = [d \in Directions |-> "member"]
    /\ position = [d \in Directions |-> 0]
    /\ buffer = [d \in Directions |-> {}]
    /\ supervisor = "waiting"
    /\ published = [e \in Envelopes |-> 0]
    /\ window = {}
    /\ abandoned = {}

Bump(e) == [published EXCEPT ![e] = IF @ = 2 THEN 2 ELSE @ + 1]

-----------------------------------------------------------------------------
(* A direction's loop: poll, then deliver_message.                         *)

\* The oldest buffered record, or the next one of the partition.
Take(d, n) ==
    /\ hand' = [hand EXCEPT ![d] = n]
    /\ Goto(d, "lock")
    /\ lock' = Append(lock, d)

Poll(d) ==
    /\ step[d] = "poll"
    /\ \/ /\ buffer[d] # {}
          /\ \E n \in buffer[d] :
                /\ \A k \in buffer[d] : n <= k
                /\ buffer' = [buffer EXCEPT ![d] = @ \ {n}]
                /\ Take(d, n)
          /\ UNCHANGED position
       \/ /\ buffer[d] = {} /\ consumer[d] = "member" /\ position[d] < LogEnd[d]
          /\ position' = [position EXCEPT ![d] = @ + 1]
          /\ Take(d, position[d])
          /\ UNCHANGED buffer
    /\ UNCHANGED <<durable, consumer, supervisor, history>>

\* There is no consumer: a recovery of the watchdog was cut short.
PollRaises(d) ==
    /\ step[d] = "poll" /\ consumer[d] = "gone" /\ buffer[d] = {}
    /\ Goto(d, "failed")
    /\ supervisor' = "backoff"
    /\ UNCHANGED <<durable, hand, lock, transport, history>>

\* decode_message and validation, once the lock is held; a refused record
\* raises at once.  (Mutant: there is no lock.)
EnterUnlocked(d) ==
    /\ step[d] = "lock"
    /\ Record(d) \notin Refused
    /\ Goto(d, IF Record(d) \in Undecodable THEN "quarantine" ELSE "check")
    /\ UNCHANGED <<durable, hand, lock, transport, supervisor, history>>

Enter(d) ==
    /\ step[d] = "lock" /\ Owner(d)
    /\ Record(d) \notin Refused
    /\ Goto(d, IF Record(d) \in Undecodable THEN "quarantine" ELSE "check")
    /\ UNCHANGED <<durable, hand, lock, transport, supervisor, history>>

\* is_processed: a duplicate is committed and not published.
\* (Mutant: it is published again.)
CheckNothing(d) ==
    /\ step[d] = "check"
    /\ Goto(d, "publish")
    /\ UNCHANGED <<durable, hand, lock, transport, supervisor, history>>

Check(d) ==
    /\ step[d] = "check"
    /\ Goto(d, IF InHand(d) \in marked THEN "commit" ELSE "publish")
    /\ UNCHANGED <<durable, hand, lock, transport, supervisor, history>>

Publish(d) ==
    /\ step[d] = "publish"
    /\ published' = Bump(InHand(d))
    /\ Goto(d, "mark")
    /\ UNCHANGED <<durable, hand, lock, transport, supervisor, window, abandoned>>

\* The destination reports a failure but has the record; it is sent again,
\* for as long as that takes.
PublishUnconfirmed(d) ==
    /\ step[d] = "publish"
    /\ published' = Bump(InHand(d))
    /\ window' = window \cup {InHand(d)}
    /\ UNCHANGED <<durable, loops, transport, supervisor, abandoned>>

Mark(d) ==
    /\ step[d] = "mark"
    /\ marked' = marked \cup {InHand(d)}
    /\ Goto(d, "commit")
    /\ UNCHANGED <<committed, hand, lock, transport, supervisor, history>>

\* _quarantine_undecodable_message: the dead-letter write is best effort.
Quarantine(d) ==
    /\ step[d] = "quarantine"
    /\ Goto(d, "discard")
    /\ UNCHANGED <<durable, hand, lock, transport, supervisor, history>>

\* commit() raises on a partition that is not assigned.
Commit(d) ==
    /\ step[d] \in {"commit", "discard"}
    /\ consumer[d] = "member"
    /\ committed' = [committed EXCEPT ![d] = hand[d] + 1]
    /\ Leave(d, "poll")
    /\ UNCHANGED <<marked, transport, supervisor, history>>

\* What an await may have done by the time it raises or is cancelled.  A marker
\* that the store's thread writes after the cancellation counts as written.
Aftermath(d) ==
    \/ /\ step[d] = "publish"
       /\ published' \in {published, Bump(InHand(d))}
       /\ window' = window \cup {InHand(d)}
       /\ UNCHANGED durable
    \/ /\ step[d] = "mark"
       /\ marked' \in {marked, marked \cup {InHand(d)}}
       /\ window' = window \cup {InHand(d)}
       /\ UNCHANGED <<committed, published>>
    \/ /\ step[d] \in {"commit", "discard"} /\ consumer[d] = "member"
       /\ committed' \in {committed, [committed EXCEPT ![d] = hand[d] + 1]}
       /\ UNCHANGED <<marked, published, window>>
    \/ /\ \/ step[d] \notin {"publish", "mark", "commit", "discard"}
          \/ step[d] \in {"commit", "discard"} /\ consumer[d] # "member"
       /\ UNCHANGED <<durable, published, window>>

\* (Mutant: no nack.)
RaisesUnnacked(d) ==
    /\ \/ step[d] = "lock" /\ Owner(d) /\ Record(d) \in Refused
       \/ step[d] \in {"check", "publish", "mark", "commit", "discard"}
    /\ Aftermath(d)
    /\ Leave(d, "failed")
    /\ supervisor' = "backoff"
    /\ UNCHANGED <<transport, abandoned>>

\* An await raises: nack() seeks back to the record, unless the partition is
\* not assigned; the error ends the loop.  A commit after quarantine is not
\* nacked.
Raises(d) ==
    /\ \/ step[d] = "lock" /\ Owner(d) /\ Record(d) \in Refused
       \/ step[d] \in {"check", "publish", "mark", "commit", "discard"}
    /\ Aftermath(d)
    /\ IF step[d] # "discard" /\ consumer[d] = "member"
         THEN Prime(d, hand[d]) /\ UNCHANGED abandoned
         ELSE /\ abandoned' = abandoned \cup Unsettled({d})
              /\ UNCHANGED <<position, buffer>>
    /\ Leave(d, "failed")
    /\ supervisor' = "backoff"
    /\ UNCHANGED consumer

-----------------------------------------------------------------------------
(* Group membership and the watchdog.                                      *)
Evict(d) ==
    /\ consumer[d] = "member"
    /\ consumer' = [consumer EXCEPT ![d] = "evicted"]
    /\ UNCHANGED <<durable, loops, position, buffer, supervisor, history>>

\* The client joins again at the committed offset; _buffer is not told.
Rejoin(d) ==
    /\ consumer[d] = "evicted"
    /\ consumer' = [consumer EXCEPT ![d] = "member"]
    /\ position' = [position EXCEPT ![d] = committed[d]]
    /\ UNCHANGED <<durable, loops, buffer, supervisor, history>>

\* _recover_stalled_direction: the loop is cancelled, its consumer stopped.
WatchdogCancels(d) ==
    /\ step[d] # "cancelled"
    /\ Aftermath(d)
    /\ Leave(d, "cancelled")
    /\ consumer' = [consumer EXCEPT ![d] = "gone"]
    /\ buffer' = [buffer EXCEPT ![d] = {}]
    /\ UNCHANGED <<position, supervisor, abandoned>>

WatchdogRestarts(d) ==
    /\ step[d] = "cancelled"
    /\ consumer' = [consumer EXCEPT ![d] = "member"]
    /\ Prime(d, committed[d])
    /\ Goto(d, "poll")
    /\ UNCHANGED <<durable, hand, lock, supervisor, history>>

-----------------------------------------------------------------------------
(* The process.                                                            *)

\* What the cancellation of every task has done: only the holder of the lock
\* is in the middle of something.
AllCut ==
    IF lock = <<>> THEN UNCHANGED <<durable, published, window>>
    ELSE Aftermath(Head(lock))

LoopsStart ==
    /\ step' = [d \in Directions |-> "poll"]
    /\ hand' = [d \in Directions |-> Nothing]
    /\ lock' = <<>>

\* delivery.stop() and delivery.start(), on the same consumers.
SupervisorRestarts ==
    /\ supervisor = "backoff"
    /\ AllCut
    /\ abandoned' = abandoned \cup Unsettled({d \in Directions : hand[d] # Nothing})
    /\ LoopsStart
    /\ supervisor' = "waiting"
    /\ UNCHANGED transport

\* The process exits or crashes and is started again.
Crash ==
    /\ AllCut
    /\ LoopsStart
    /\ supervisor' = "waiting"
    /\ consumer' = [d \in Directions |-> "member"]
    /\ position' \in [Directions -> UNION {0 .. LogEnd[d] : d \in Directions}]
    /\ \A d \in Directions : position'[d] \in committed'[d] .. LogEnd[d]
    /\ buffer' = [d \in Directions |-> committed'[d] .. position'[d] - 1]
    /\ UNCHANGED abandoned

\* cleanup_expired.
Expire(e) ==
    /\ e \in marked
    /\ marked' = marked \ {e}
    /\ window' = window \cup {e}
    /\ UNCHANGED <<committed, loops, transport, supervisor, published, abandoned>>

-----------------------------------------------------------------------------
Deliver(d) ==
    \/ Poll(d) \/ Enter(d) \/ Check(d) \/ Publish(d) \/ Mark(d)
    \/ Quarantine(d) \/ Commit(d)

Next ==
    \/ \E d \in Directions :
          \/ Deliver(d)
          \/ PollRaises(d) \/ PublishUnconfirmed(d) \/ Raises(d)
          \/ Evict(d) \/ Rejoin(d) \/ WatchdogCancels(d) \/ WatchdogRestarts(d)
    \/ SupervisorRestarts
    \/ Crash
    \/ \E e \in Envelopes : Expire(e)

Spec == Init /\ [][Next]_vars

-----------------------------------------------------------------------------
TypeOK ==
    /\ committed \in [Directions -> Nat]
    /\ position \in [Directions -> Nat]
    /\ buffer \in [Directions -> SUBSET Nat]
    /\ hand \in [Directions -> Int]
    /\ marked \subseteq Envelopes
    /\ step \in [Directions -> Steps]
    /\ lock \in Seq(Directions)
    /\ consumer \in [Directions -> {"member", "evicted", "gone"}]
    /\ supervisor \in {"waiting", "backoff"}
    /\ published \in [Envelopes -> 0 .. 2]
    /\ window \subseteq Envelopes
    /\ abandoned \subseteq Records
    /\ \A d \in Directions :
          /\ committed[d] <= LogEnd[d] /\ position[d] <= LogEnd[d]
          /\ buffer[d] \subseteq Offsets(d) /\ hand[d] \in Offsets(d) \cup {Nothing}
          /\ hand[d] # Nothing <=> step[d] \in Handling \cup {"lock"}
          /\ step[d] \in Handling => Owner(d)

\* _deliver_message_locked: whatever is evicted, cancelled by the watchdog,
\* rejoined over a stale buffer or crashed, the committed offset passes a
\* record that is not settled only if that record left a hand without a nack.
Acknowledged ==
    \A r \in Records : r[2] < committed[r[1]] => Settled(r) \/ r \in abandoned

\* The class docstring's "irreducible publish-to-marker crash window": an
\* envelope in both logs, or redelivered, is published twice only if a publish
\* was once not followed by a marker that lasted.
OncePublished == \A e \in Envelopes : published[e] > 1 => e \in window

\* "acknowledge only after durable destination delivery" (class docstring).
AcknowledgedAfterDelivery ==
    \A r \in Records : r[2] < committed[r[1]] => Settled(r)

=============================================================================
