---------------------- MODULE NotificationOutboxProofs ----------------------
(***************************************************************************)
(* Theorems of NotificationOutbox for any number of notifications and      *)
(* processors, any batch size and any retry threshold.                     *)
(***************************************************************************)
EXTENDS NotificationOutbox, TLAPS

(* The oldest of a set are some of it.                                     *)
LEMMA OldestSubset == ASSUME NEW S PROVE Oldest(S) \subseteq S
  BY DEF Oldest

(* Typed initially.                                                        *)
LEMMA TypedInit == Init => TypeOK
  BY RetryAssumption DEF Init, TypeOK, Loops, InBatch

(* The step to the next row, or to the commit.                             *)
LEMMA NextRowTyped ==
    ASSUME TypeOK, NEW p \in Processors, NEW n \in Rows, NextRow(p, n),
           loop[p] \in InBatch
    PROVE  /\ todo' \in [Processors -> SUBSET Rows] /\ held' = held
           /\ loop' \in [Processors -> Loops]
           /\ loop'[p] \in {"commit", "row"}
           /\ \A q \in Processors : loop'[q] \in InBatch <=> loop[q] \in InBatch
  BY DEF NextRow, Goto, TypeOK, Loops, InBatch

(* The end of a batch.                                                     *)
LEMMA ReleaseTyped ==
    ASSUME TypeOK, NEW p \in Processors, Release(p),
           NEW l \in {"poll", "off"}, Goto(p, l)
    PROVE  /\ todo' \in [Processors -> SUBSET Rows]
           /\ held' \in [Processors -> SUBSET Rows]
           /\ marked' \in [Processors -> SUBSET Rows]
           /\ counted' \in [Processors -> SUBSET Rows]
           /\ tx' \in [Processors -> {"none", "open", "aborted"}]
           /\ loop' \in [Processors -> Loops]
           /\ \A q \in Processors : tx'[q] = "none" <=> loop'[q] \notin InBatch
  BY DEF Release, Goto, TypeOK, Loops, InBatch

(* Handling a row of the batch.                                            *)
LEMMA HandleTyped ==
    ASSUME TypeOK, NEW p \in Processors, NEW n \in Rows, Handle(p, n)
    PROVE  TypeOK'
<1>1. CASE PublishSucceeds(p, n) \/ PublishFails(p, n) \/ DlqPublishSucceeds(p, n)
  BY <1>1
  DEF PublishSucceeds, PublishFails, DlqPublishSucceeds, Goto, table, batch,
      TypeOK, Loops, InBatch
<1>2. CASE DlqPublishFails(p, n)
  BY <1>2, NextRowTyped DEF DlqPublishFails, table, TypeOK, InBatch
<1>3. CASE Mark(p, n) \/ Count(p, n)
  BY <1>3, NextRowTyped DEF Mark, Count, table, topics, TypeOK, InBatch
<1>4. CASE MarkFails(p, n)
  <2>1. CASE loop[p] = "mark"
    BY <1>4, <2>1 DEF MarkFails, Goto, table, topics, TypeOK, Loops, InBatch
  <2>2. CASE loop[p] = "park"
    BY <1>4, <2>2, NextRowTyped DEF MarkFails, table, topics, TypeOK, InBatch
  <2> QED
    BY <1>4, <2>1, <2>2 DEF MarkFails
<1>5. CASE CountFails(p, n)
  BY <1>5, NextRowTyped DEF CountFails, table, topics, TypeOK, InBatch
<1> QED
  BY <1>1, <1>2, <1>3, <1>4, <1>5 DEF Handle

(* Every step keeps the types.                                             *)
LEMMA TypedStep == TypeOK /\ [Next]_vars => TypeOK'
<1> SUFFICES ASSUME TypeOK, [Next]_vars
             PROVE  TypeOK'
  OBVIOUS
<1>1. ASSUME NEW n \in Rows, Store(n)
      PROVE  TypeOK'
  BY <1>1 DEF Store, batch, topics, TypeOK
<1>2. ASSUME NEW p \in Processors, Select(p)
      PROVE  TypeOK'
  <2>1. Oldest(Free) \in SUBSET Rows
    BY OldestSubset DEF Free
  <2> QED
    BY <1>2, <2>1 DEF Select, table, topics, TypeOK, Loops, InBatch
<1>3. ASSUME NEW p \in Processors, Commit(p)
      PROVE  TypeOK'
  <2>1. row' \in [Rows -> {"absent", "pending", "processed", "deleted"}]
        /\ retries' \in [Rows -> 0 .. MaxRetries + 1]
    BY <1>3, RetryAssumption DEF Commit, Apply, table, TypeOK
  <2> QED
    BY <1>3, <2>1, ReleaseTyped DEF Commit, topics, TypeOK
<1>4. ASSUME NEW p \in Processors, BatchFails(p) \/ Killed(p)
      PROVE  TypeOK'
  <2>1. running' \in [Processors -> {"yes", "no"}]
    BY <1>4 DEF BatchFails, Killed, TypeOK
  <2> QED
    BY <1>4, <2>1, ReleaseTyped DEF BatchFails, Killed, table, topics, TypeOK
<1>5. ASSUME NEW p \in Processors, Start(p) \/ Stop(p) \/ LoopEnds(p)
      PROVE  TypeOK'
  BY <1>5 DEF Start, Stop, LoopEnds, Goto, table, batch, topics, TypeOK, Loops, InBatch
<1>6. CASE CleanupProcessed
  BY <1>6 DEF CleanupProcessed, batch, topics, TypeOK
<1>7. CASE UNCHANGED vars
  BY <1>7 DEF vars, TypeOK
<1> QED
  BY <1>1, <1>2, <1>3, <1>4, <1>5, <1>6, <1>7, HandleTyped DEF Next, Process

(* Every variable of the outbox keeps its type, and a processor has a      *)
(* transaction exactly while it is in a batch.                             *)
THEOREM TypeCorrect == Spec => []TypeOK
  BY TypedInit, TypedStep, PTL DEF Spec

-----------------------------------------------------------------------------
(* The inductive invariant.  A row belongs to at most one batch, only      *)
(* while it is pending, and to none between batches.                       *)
Exclusive ==
    /\ \A p \in Processors : todo[p] \cup marked[p] \cup counted[p] \subseteq held[p]
    /\ \A p \in Processors : \A n \in held[p] : row[n] = "pending"
    /\ \A p, q \in Processors : p # q => held[p] \cap held[q] = {}
    /\ \A p \in Processors : loop[p] \notin InBatch => held[p] = {}

(* What a transaction has marked was published first.                      *)
Backed ==
    /\ \A p \in Processors : marked[p] \subseteq delivered \cup deadLettered
    /\ \A p \in Processors, n \in Rows : Turn(p, n) =>
          /\ loop[p] = "mark" => n \in delivered
          /\ loop[p] = "park" => n \in deadLettered

(* What a transaction has counted, or is about to, was below the threshold.*)
Budget ==
    /\ \A p \in Processors : \A n \in counted[p] : ~MoveToDlq(n)
    /\ \A p \in Processors, n \in Rows :
          Turn(p, n) /\ loop[p] \in {"mark", "count"} => ~MoveToDlq(n)

OutboxInv == Exclusive /\ Backed /\ Budget /\ ThresholdKept

(* The invariant holds initially.                                          *)
LEMMA InvInit == Init => OutboxInv
  BY RetryAssumption
  DEF Init, OutboxInv, Exclusive, Backed, Budget, ThresholdKept, Turn, MoveToDlq

(* What handling a row changes: the batch it is in, and nothing committed. *)
LEMMA HandleChanges ==
    ASSUME TypeOK, NEW p \in Processors, NEW n \in Rows, Handle(p, n)
    PROVE  /\ UNCHANGED table /\ held' = held
           /\ n \in todo[p] /\ Turn(p, n)
           /\ \A q \in Processors \ {p} :
                 /\ todo'[q] = todo[q] /\ marked'[q] = marked[q]
                 /\ counted'[q] = counted[q] /\ loop'[q] = loop[q]
           /\ todo'[p] \subseteq todo[p]
           /\ marked'[p] \subseteq marked[p] \cup {n}
           /\ counted'[p] \subseteq counted[p] \cup {n}
           /\ delivered \subseteq delivered' /\ deadLettered \subseteq deadLettered'
           /\ loop'[p] \in InBatch
<1> USE DEF TypeOK, InBatch
<1>1. CASE PublishSucceeds(p, n) \/ PublishFails(p, n) \/ DlqPublishSucceeds(p, n)
  BY <1>1 DEF PublishSucceeds, PublishFails, DlqPublishSucceeds, Goto, batch, Turn
<1>2. CASE DlqPublishFails(p, n) \/ Mark(p, n) \/ Count(p, n) \/ CountFails(p, n)
  BY <1>2 DEF DlqPublishFails, Mark, Count, CountFails, NextRow, Goto, topics, Turn
<1>3. CASE MarkFails(p, n)
  BY <1>3 DEF MarkFails, NextRow, Goto, topics, Turn
<1> QED
  BY <1>1, <1>2, <1>3 DEF Handle

(* Two rows cannot both have the turn.                                     *)
LEMMA OneTurn ==
    ASSUME NEW p \in Processors, NEW n \in Rows, NEW k \in Rows, Turn(p, n), Turn(p, k)
    PROVE  n = k
  BY RowAssumption DEF Turn, Rows

(* Where the loop of p is after handling row n.                            *)
LEMMA HandleMoves ==
    ASSUME TypeOK, OutboxInv, NEW p \in Processors, NEW n \in Rows, Handle(p, n)
    PROVE  /\ loop'[p] = "mark" => todo' = todo /\ n \in delivered' /\ ~MoveToDlq(n)
           /\ loop'[p] = "park" => todo' = todo /\ n \in deadLettered'
           /\ loop'[p] = "count" => todo' = todo /\ ~MoveToDlq(n)
           /\ n \in marked'[p] \ marked[p] => n \in delivered \cup deadLettered
           /\ n \in counted'[p] \ counted[p] => ~MoveToDlq(n)
           /\ deadLettered' # deadLettered =>
                 deadLettered' = deadLettered \cup {n} /\ MoveToDlq(n)
<1> USE DEF TypeOK
<1>1. CASE PublishSucceeds(p, n) \/ PublishFails(p, n) \/ DlqPublishSucceeds(p, n)
  BY <1>1 DEF PublishSucceeds, PublishFails, DlqPublishSucceeds, Goto, batch
<1>2. CASE DlqPublishFails(p, n) \/ CountFails(p, n)
  BY <1>2 DEF DlqPublishFails, CountFails, NextRow, Goto, topics
<1>3. CASE Mark(p, n)
  <2>1. n \in delivered \cup deadLettered
    BY <1>3 DEF Mark, OutboxInv, Backed
  <2> QED
    BY <1>3, <2>1 DEF Mark, NextRow, Goto, topics
<1>4. CASE Count(p, n)
  <2>1. ~MoveToDlq(n)
    BY <1>4 DEF Count, OutboxInv, Budget
  <2> QED
    BY <1>4, <2>1 DEF Count, NextRow, Goto, topics
<1>5. CASE MarkFails(p, n)
  <2>1. loop[p] = "mark" => ~MoveToDlq(n)
    BY <1>5 DEF MarkFails, OutboxInv, Budget
  <2> QED
    BY <1>5, <2>1 DEF MarkFails, NextRow, Goto, topics
<1> QED
  BY <1>1, <1>2, <1>3, <1>4, <1>5 DEF Handle

(* Handling a row keeps the invariant.                                     *)
LEMMA HandleSafe ==
    ASSUME TypeOK, OutboxInv, NEW p \in Processors, NEW n \in Rows, Handle(p, n)
    PROVE  OutboxInv'
<1>1. /\ row' = row /\ retries' = retries /\ held' = held /\ Turn(p, n)
      /\ \A q \in Processors \ {p} :
            /\ todo'[q] = todo[q] /\ marked'[q] = marked[q]
            /\ counted'[q] = counted[q] /\ loop'[q] = loop[q]
      /\ todo'[p] \subseteq todo[p]
      /\ marked'[p] \subseteq marked[p] \cup {n}
      /\ counted'[p] \subseteq counted[p] \cup {n}
      /\ delivered \subseteq delivered' /\ deadLettered \subseteq deadLettered'
      /\ loop'[p] \in InBatch
  BY HandleChanges DEF table
<1>2. \A k \in Rows : MoveToDlq(k)' <=> MoveToDlq(k)
  BY <1>1 DEF MoveToDlq
<1>3. \A q \in Processors \ {p}, k \in Rows : Turn(q, k)' <=> Turn(q, k)
  BY <1>1 DEF Turn
<1>4. ASSUME NEW k \in Rows, Turn(p, k)', loop'[p] \in {"mark", "park", "count"}
      PROVE  k = n
  <2>1. todo' = todo
    BY <1>4, HandleMoves
  <2> QED
    BY <1>1, <1>4, <2>1, OneTurn DEF Turn
<1>5. Exclusive'
  BY <1>1 DEF OutboxInv, Exclusive, Turn
<1>6. Backed'
  <2>1. \A q \in Processors : marked'[q] \subseteq delivered' \cup deadLettered'
    BY <1>1, HandleMoves DEF OutboxInv, Backed
  <2>2. ASSUME NEW q \in Processors, NEW k \in Rows, Turn(q, k)'
        PROVE  /\ loop'[q] = "mark" => k \in delivered'
               /\ loop'[q] = "park" => k \in deadLettered'
    <3>1. CASE q = p
      BY <1>4, <2>2, <3>1, HandleMoves
    <3>2. CASE q # p
      BY <1>1, <1>3, <2>2, <3>2 DEF OutboxInv, Backed
    <3> QED
      BY <3>1, <3>2
  <2> QED
    BY <2>1, <2>2 DEF Backed
<1>7. Budget'
  <2>1. ASSUME NEW q \in Processors, NEW k \in counted'[q]
        PROVE  ~MoveToDlq(k)'
    <3>1. k \in Rows
      BY HandleTyped DEF TypeOK
    <3>2. ~MoveToDlq(k)
      BY <1>1, <2>1, HandleMoves DEF OutboxInv, Budget
    <3> QED
      BY <1>2, <3>1, <3>2
  <2>2. ASSUME NEW q \in Processors, NEW k \in Rows,
               Turn(q, k)', loop'[q] \in {"mark", "count"}
        PROVE  ~MoveToDlq(k)'
    <3>1. CASE q = p
      BY <1>2, <1>4, <2>2, <3>1, HandleMoves
    <3>2. CASE q # p
      BY <1>1, <1>2, <1>3, <2>2, <3>2 DEF OutboxInv, Budget
    <3> QED
      BY <3>1, <3>2
  <2> QED
    BY <2>1, <2>2 DEF Budget
<1>8. ThresholdKept'
  <2>1. CASE deadLettered' = deadLettered
    BY <1>1, <2>1 DEF OutboxInv, ThresholdKept
  <2>2. CASE deadLettered' # deadLettered
    <3>1. deadLettered' = deadLettered \cup {n} /\ MoveToDlq(n)
      BY <2>2, HandleMoves
    <3>2. ASSUME NEW k \in Rows \ Unreadable
          PROVE  retries'[k] <= MaxRetries /\ (k \in deadLettered' => retries'[k] = MaxRetries)
      <4>1. retries'[k] = retries[k] /\ retries[k] <= MaxRetries
            /\ (k \in deadLettered => retries[k] = MaxRetries)
        BY <1>1 DEF OutboxInv, ThresholdKept
      <4>2. retries[k] \in Int
        BY DEF TypeOK
      <4>3. k = n => retries[k] >= MaxRetries
        BY <3>1 DEF MoveToDlq
      <4> QED
        BY <3>1, <4>1, <4>2, <4>3, RetryAssumption
    <3> QED
      BY <3>2 DEF ThresholdKept
  <2> QED
    BY <2>1, <2>2
<1> QED
  BY <1>5, <1>6, <1>7, <1>8 DEF OutboxInv

(* A transaction that ends, with no effect on the table, keeps it.         *)
LEMMA ReleaseSafe ==
    ASSUME TypeOK, OutboxInv, NEW p \in Processors, Release(p),
           NEW l \in {"poll", "off"}, Goto(p, l), UNCHANGED <<table, topics>>
    PROVE  OutboxInv'
<1>1. /\ row' = row /\ retries' = retries
      /\ delivered' = delivered /\ deadLettered' = deadLettered
  BY DEF table, topics
<1>2. /\ todo'[p] = {} /\ held'[p] = {} /\ marked'[p] = {} /\ counted'[p] = {}
      /\ \A q \in Processors \ {p} :
            /\ todo'[q] = todo[q] /\ held'[q] = held[q] /\ marked'[q] = marked[q]
            /\ counted'[q] = counted[q] /\ loop'[q] = loop[q]
  BY DEF Release, Goto, TypeOK
<1>3. \A q \in Processors, k \in Rows : Turn(q, k)' => q # p /\ Turn(q, k)
  BY <1>2 DEF Turn
<1>4. Exclusive'
  BY <1>1, <1>2 DEF OutboxInv, Exclusive
<1>5. Backed'
  BY <1>1, <1>2, <1>3 DEF OutboxInv, Backed
<1>6. Budget'
  BY <1>1, <1>2, <1>3 DEF OutboxInv, Budget, MoveToDlq
<1> QED
  BY <1>1, <1>4, <1>5, <1>6 DEF OutboxInv, ThresholdKept

(* A step that touches no batch and no count, and no pending row.          *)
LEMMA OutsideSafe ==
    ASSUME TypeOK, OutboxInv, UNCHANGED <<retries, batch, topics>>,
           \A n \in Rows : row[n] = "pending" => row'[n] = "pending",
           \A q \in Processors : loop'[q] = loop[q] \/ {loop[q], loop'[q]} \cap InBatch = {}
    PROVE  OutboxInv'
<1>1. /\ retries' = retries /\ todo' = todo /\ held' = held /\ marked' = marked
      /\ counted' = counted /\ delivered' = delivered /\ deadLettered' = deadLettered
  BY DEF batch, topics
<1>2. Exclusive'
  BY <1>1 DEF OutboxInv, Exclusive, TypeOK
<1>3. Backed'
  BY <1>1 DEF OutboxInv, Backed, Turn, InBatch
<1>4. Budget'
  BY <1>1 DEF OutboxInv, Budget, Turn, MoveToDlq, InBatch
<1> QED
  BY <1>1, <1>2, <1>3, <1>4 DEF OutboxInv, ThresholdKept

(* A batch is taken from pending rows nobody has locked.                   *)
LEMMA SelectSafe ==
    ASSUME TypeOK, OutboxInv, NEW p \in Processors, Select(p)
    PROVE  OutboxInv'
<1> DEFINE B == Oldest(Free)
<1>1. B \subseteq Free
  BY OldestSubset
<1>2. \A n \in B : n \in Rows /\ row[n] = "pending" /\ \A q \in Processors : n \notin held[q]
  BY <1>1 DEF Free, Locked
<1> HIDE DEF B
<1>3. /\ row' = row /\ retries' = retries /\ marked' = marked /\ counted' = counted
      /\ delivered' = delivered /\ deadLettered' = deadLettered
      /\ todo'[p] = B /\ held'[p] = B /\ loop'[p] = "row"
      /\ \A q \in Processors \ {p} :
            todo'[q] = todo[q] /\ held'[q] = held[q] /\ loop'[q] = loop[q]
  BY DEF Select, TypeOK, table, topics, B
<1>4. marked[p] = {} /\ counted[p] = {}
  BY DEF Select, OutboxInv, Exclusive, InBatch
<1>5. Exclusive'
  <2>1. \A q \in Processors : todo'[q] \cup marked'[q] \cup counted'[q] \subseteq held'[q]
    BY <1>3, <1>4 DEF OutboxInv, Exclusive
  <2>2. \A q \in Processors : \A n \in held'[q] : row'[n] = "pending"
    BY <1>2, <1>3 DEF OutboxInv, Exclusive
  <2>3. \A q, r \in Processors : q # r => held'[q] \cap held'[r] = {}
    BY <1>2, <1>3 DEF OutboxInv, Exclusive
  <2>4. \A q \in Processors : loop'[q] \notin InBatch => held'[q] = {}
    BY <1>3 DEF OutboxInv, Exclusive, InBatch
  <2> QED
    BY <2>1, <2>2, <2>3, <2>4 DEF Exclusive
<1>6. Backed'
  BY <1>3 DEF OutboxInv, Backed, Turn
<1>7. Budget'
  BY <1>3 DEF OutboxInv, Budget, Turn, MoveToDlq
<1> QED
  BY <1>3, <1>5, <1>6, <1>7 DEF OutboxInv, ThresholdKept

(* A commit touches no row of another batch, counts only rows below the    *)
(* threshold, and leaves dead-lettered ones at it.                         *)
LEMMA ApplySafe ==
    ASSUME TypeOK, OutboxInv, NEW p \in Processors, Commit(p), tx[p] = "open"
    PROVE  OutboxInv'
<1>1. /\ delivered' = delivered /\ deadLettered' = deadLettered
      /\ row' = [n \in Rows |-> IF n \in marked[p] THEN "processed" ELSE row[n]]
      /\ retries' = [n \in Rows |->
            IF n \in counted[p] /\ retries[n] <= MaxRetries THEN retries[n] + 1 ELSE retries[n]]
  BY DEF Commit, Apply, topics
<1>2. /\ todo'[p] = {} /\ held'[p] = {} /\ marked'[p] = {} /\ counted'[p] = {}
      /\ \A q \in Processors \ {p} :
            /\ todo'[q] = todo[q] /\ held'[q] = held[q] /\ marked'[q] = marked[q]
            /\ counted'[q] = counted[q] /\ loop'[q] = loop[q]
  BY DEF Commit, Release, Goto, TypeOK
<1>3. \A q \in Processors, k \in Rows : Turn(q, k)' => q # p /\ Turn(q, k)
  BY <1>2 DEF Turn
<1>4. ASSUME NEW q \in Processors \ {p}, NEW k \in Rows, k \in held[q]
      PROVE  row'[k] = row[k] /\ retries'[k] = retries[k]
  <2>1. k \notin marked[p] /\ k \notin counted[p]
    BY <1>4 DEF OutboxInv, Exclusive
  <2> QED
    BY <1>1, <2>1
<1>5. Exclusive'
  BY <1>2, <1>4 DEF OutboxInv, Exclusive, TypeOK
<1>6. Backed'
  BY <1>1, <1>2, <1>3 DEF OutboxInv, Backed
<1>7. Budget'
  <2>1. ASSUME NEW q \in Processors, NEW k \in counted'[q]
        PROVE  ~MoveToDlq(k)'
    <3>1. q # p /\ k \in counted[q] /\ k \in held[q] /\ k \in Rows
      BY <1>2, <2>1 DEF OutboxInv, Exclusive, TypeOK
    <3> QED
      BY <1>4, <3>1 DEF OutboxInv, Budget, MoveToDlq
  <2>2. ASSUME NEW q \in Processors, NEW k \in Rows,
               Turn(q, k)', loop'[q] \in {"mark", "count"}
        PROVE  ~MoveToDlq(k)'
    <3>1. q # p /\ Turn(q, k) /\ k \in held[q] /\ loop'[q] = loop[q]
      BY <1>2, <1>3, <2>2 DEF OutboxInv, Exclusive, Turn
    <3> QED
      BY <1>4, <2>2, <3>1 DEF OutboxInv, Budget, MoveToDlq
  <2> QED
    BY <2>1, <2>2 DEF Budget
<1>8. ThresholdKept'
  <2> SUFFICES ASSUME NEW k \in Rows \ Unreadable
               PROVE  /\ retries'[k] <= MaxRetries
                      /\ k \in deadLettered => retries'[k] = MaxRetries
    BY <1>1 DEF ThresholdKept
  <2>1. CASE k \in counted[p]
    <3>1. ~(retries[k] >= MaxRetries)
      BY <2>1 DEF OutboxInv, Budget, MoveToDlq
    <3> QED
      BY <1>1, <3>1, RetryAssumption DEF OutboxInv, ThresholdKept, TypeOK
  <2>2. CASE k \notin counted[p]
    BY <1>1, <2>2 DEF OutboxInv, ThresholdKept
  <2> QED
    BY <2>1, <2>2
<1> QED
  BY <1>5, <1>6, <1>7, <1>8 DEF OutboxInv

(* Every step keeps the invariant.                                         *)
LEMMA InvStep == TypeOK /\ OutboxInv /\ [Next]_vars => OutboxInv'
<1> SUFFICES ASSUME TypeOK, OutboxInv, [Next]_vars
             PROVE  OutboxInv'
  OBVIOUS
<1>1. ASSUME NEW n \in Rows, Store(n)
      PROVE  OutboxInv'
  BY <1>1, OutsideSafe DEF Store, batch, topics, TypeOK
<1>2. ASSUME NEW p \in Processors, Commit(p)
      PROVE  OutboxInv'
  <2>1. CASE tx[p] = "open"
    BY <1>2, <2>1, ApplySafe
  <2>2. CASE tx[p] # "open"
    BY <1>2, <2>2, ReleaseSafe DEF Commit, table, topics
  <2> QED
    BY <2>1, <2>2
<1>3. ASSUME NEW p \in Processors, BatchFails(p) \/ Killed(p)
      PROVE  OutboxInv'
  BY <1>3, ReleaseSafe DEF BatchFails, Killed, table, topics
<1>4. ASSUME NEW p \in Processors, Start(p) \/ Stop(p) \/ LoopEnds(p)
      PROVE  OutboxInv'
  <2>1. UNCHANGED <<retries, batch, topics>> /\ row' = row
    BY <1>4 DEF Start, Stop, LoopEnds, table
  <2>2. \A q \in Processors : loop'[q] = loop[q] \/ {loop[q], loop'[q]} \cap InBatch = {}
    BY <1>4 DEF Start, Stop, LoopEnds, Goto, TypeOK, InBatch
  <2> QED
    BY <2>1, <2>2, OutsideSafe
<1>5. CASE CleanupProcessed
  <2>1. \A n \in Rows : row[n] = "pending" => row'[n] = "pending"
    BY <1>5 DEF CleanupProcessed
  <2> QED
    BY <1>5, <2>1, OutsideSafe DEF CleanupProcessed
<1>6. CASE UNCHANGED vars
  BY <1>6, OutsideSafe DEF vars, batch, topics
<1> QED
  BY <1>1, <1>2, <1>3, <1>4, <1>5, <1>6, HandleSafe, SelectSafe DEF Next, Process

(* _should_move_to_dlq: a notification is dead-lettered after exactly      *)
(* max_retries committed failures, whatever is rolled back, killed or      *)
(* taken over by another processor in between.                             *)
THEOREM ThresholdCorrect == Spec => []ThresholdKept
<1>1. OutboxInv => ThresholdKept
  BY DEF OutboxInv
<1> QED
  BY <1>1, TypedInit, TypedStep, InvInit, InvStep, PTL DEF Spec

-----------------------------------------------------------------------------
(* The refinement.  What the outbox has promised and settled:              *)
promised == {n \in Rows : row[n] # "absent"}
settled == {n \in Rows : row[n] \in {"processed", "deleted"}}

(* A step that touches neither the rows nor the topics is a stutter.       *)
LEMMA Stutter ==
    ASSUME row' = row, UNCHANGED topics
    PROVE  UNCHANGED Delivery!dvars
  BY DEF topics, Delivery!dvars

(* Publishing is Deliver or DeadLetter, of a row that is not yet settled   *)
(* since the processor still has it locked.                                *)
LEMMA HandleSimulates ==
    ASSUME TypeOK, OutboxInv, NEW p \in Processors, NEW n \in Rows, Handle(p, n)
    PROVE  [Delivery!Next]_(Delivery!dvars)
<1>1. row' = row /\ n \in promised \ settled
  <2>1. n \in todo[p] /\ row' = row
    BY HandleChanges DEF table
  <2>2. row[n] = "pending"
    BY <2>1 DEF OutboxInv, Exclusive
  <2> QED
    BY <2>1, <2>2 DEF promised, settled
<1>2. promised' = promised /\ settled' = settled
  BY <1>1 DEF promised, settled
<1>3. CASE PublishSucceeds(p, n) \/ PublishFails(p, n)
  <2>1. deadLettered' = deadLettered /\ delivered' \in {delivered, delivered \cup {n}}
    BY <1>3 DEF PublishSucceeds, PublishFails
  <2>2. CASE delivered' = delivered
    BY <1>1, <2>1, <2>2, Stutter DEF topics
  <2>3. CASE delivered' = delivered \cup {n}
    <3>1. Delivery!Deliver(n)
      BY <1>1, <1>2, <2>1, <2>3 DEF Delivery!Deliver, promised, settled
    <3> QED
      BY <3>1 DEF Delivery!Next
  <2> QED
    BY <2>1, <2>2, <2>3
<1>4. CASE DlqPublishSucceeds(p, n) \/ DlqPublishFails(p, n)
  <2>1. delivered' = delivered /\ deadLettered' \in {deadLettered, deadLettered \cup {n}}
    BY <1>4 DEF DlqPublishSucceeds, DlqPublishFails
  <2>2. CASE deadLettered' = deadLettered
    BY <1>1, <2>1, <2>2, Stutter DEF topics
  <2>3. CASE deadLettered' = deadLettered \cup {n}
    <3>1. Delivery!DeadLetter(n)
      BY <1>1, <1>2, <2>1, <2>3 DEF Delivery!DeadLetter, promised, settled
    <3> QED
      BY <3>1 DEF Delivery!Next
  <2> QED
    BY <2>1, <2>2, <2>3
<1>5. CASE Mark(p, n) \/ MarkFails(p, n) \/ Count(p, n) \/ CountFails(p, n)
  BY <1>1, <1>5, Stutter DEF Mark, MarkFails, Count, CountFails, topics
<1> QED
  BY <1>3, <1>4, <1>5 DEF Handle

(* A commit settles what the transaction has marked: all of it published.  *)
LEMMA CommitSimulates ==
    ASSUME TypeOK, OutboxInv, NEW p \in Processors, Commit(p)
    PROVE  [Delivery!Next]_(Delivery!dvars)
<1>1. UNCHANGED topics
  BY DEF Commit
<1>2. CASE tx[p] # "open"
  BY <1>1, <1>2, Stutter DEF Commit, table
<1>3. CASE tx[p] = "open"
  <2>1. row' = [n \in Rows |-> IF n \in marked[p] THEN "processed" ELSE row[n]]
    BY <1>3 DEF Commit, Apply
  <2>2. \A n \in marked[p] : n \in Rows /\ row[n] = "pending" /\ n \in delivered \cup deadLettered
    BY DEF OutboxInv, Exclusive, Backed, TypeOK
  <2>3. promised' = promised /\ settled' = settled \cup marked[p]
    BY <2>1, <2>2 DEF promised, settled
  <2>4. marked[p] \in SUBSET Rows /\ marked[p] \subseteq promised \cap (delivered \cup deadLettered)
    BY <2>2 DEF promised
  <2>5. \E S \in SUBSET Rows : Delivery!Settle(S)
    BY <1>1, <2>3, <2>4 DEF Delivery!Settle, promised, settled, topics
  <2> QED
    BY <2>5 DEF Delivery!Next
<1> QED
  BY <1>2, <1>3

(* Every step of the outbox is a step of what it promises, or a stutter.   *)
LEMMA StepSimulates ==
    ASSUME TypeOK, OutboxInv, [Next]_vars
    PROVE  [Delivery!Next]_(Delivery!dvars)
<1>1. ASSUME NEW n \in Rows, Store(n)
      PROVE  [Delivery!Next]_(Delivery!dvars)
  <2>1. promised' = promised \cup {n} /\ settled' = settled /\ n \notin promised
    BY <1>1 DEF Store, TypeOK, promised, settled
  <2>2. Delivery!Promise(n)
    BY <1>1, <2>1 DEF Store, topics, Delivery!Promise, promised, settled
  <2> QED
    BY <2>2 DEF Delivery!Next
<1>2. ASSUME NEW p \in Processors,
             Select(p) \/ BatchFails(p) \/ Killed(p) \/ Start(p) \/ Stop(p) \/ LoopEnds(p)
      PROVE  [Delivery!Next]_(Delivery!dvars)
  BY <1>2, Stutter DEF Select, BatchFails, Killed, Start, Stop, LoopEnds, table
<1>3. CASE CleanupProcessed
  <2>1. promised' = promised /\ settled' = settled
    BY <1>3 DEF CleanupProcessed, promised, settled
  <2> QED
    BY <1>3, <2>1 DEF CleanupProcessed, topics, Delivery!dvars, promised, settled
<1>4. CASE UNCHANGED vars
  BY <1>4, Stutter DEF vars, topics
<1> QED
  BY <1>1, <1>2, <1>3, <1>4, HandleSimulates, CommitSimulates DEF Next, Process

(* The outbox keeps its promise: nothing it is done with was neither       *)
(* published nor dead-lettered, nothing that was not stored is published,  *)
(* and nothing is published once it is done with it.                       *)
THEOREM OutboxImplementsDelivery == Spec => Promises
<1>1. Init => Delivery!Init
  BY DEF Init, Delivery!Init
<1>2. TypeOK /\ OutboxInv /\ [Next]_vars => [Delivery!Next]_(Delivery!dvars)
  BY StepSimulates
<1> QED
  BY <1>1, <1>2, TypedInit, TypedStep, InvInit, InvStep, PTL
  DEF Spec, Promises, Delivery!Spec

=============================================================================
