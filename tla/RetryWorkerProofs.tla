------------------------- MODULE RetryWorkerProofs -------------------------
(***************************************************************************)
(* Theorems of RetryWorker for every table, every number of workers and    *)
(* any number of faults: the columns never claim more than was done, and   *)
(* a notification that went out twice did so for one of the causes the     *)
(* module names.                                                           *)
(***************************************************************************)
EXTENDS RetryWorker, TLAPS

-----------------------------------------------------------------------------
(* The inductive invariant.                                                *)

(* What a worker read is no more than was begun, and the attempt it is at  *)
(* was counted among those begun.                                          *)
SeenBacked ==
    \A w \in Workers : \A n \in Rows :
       /\ seen[w][n] =< tries[n]
       /\ seen[w][n] =< MaxAttempts
       /\ row[w] = n => seen[w][n] + 1 =< tries[n] /\ seen[w][n] + 1 =< MaxAttempts

(* A success is recorded of a delivery that went through.                  *)
Recorded == \A w \in Workers : at[w] = "recording" => row[w] \in sent

(* The row in hand is not one still to come.                               *)
RowApart == \A w \in Workers : row[w] \notin batch[w]

(* A row that nothing happened to is in one worker's care at most.         *)
Alone ==
    \A n \in Rows \ blamed : \A v, w \in Workers :
       n \in InCare(v) /\ n \in InCare(w) => v = w

(* If its notification went out, a worker is about to write that down, or  *)
(* it is written down and the row is in nobody's care.                     *)
Settled ==
    \A n \in (Rows \ blamed) \cap sent :
       \/ \E w \in Workers : at[w] = "recording" /\ row[w] = n
       \/ status[n] # "failed" /\ \A w \in Workers : n \notin InCare(w)

Backed == OutcomesBacked /\ SeenBacked /\ Recorded
Caused == RepeatedForCause /\ RowApart /\ Alone /\ Settled

-----------------------------------------------------------------------------
(* Every step keeps the types.                                             *)
LEMMA TypeStep == TypeOK /\ [Next]_vars => TypeOK'
<1> SUFFICES ASSUME TypeOK, [Next]_vars
             PROVE  TypeOK'
  OBVIOUS
<1> USE NoRowAssumption, MaxFaultsAssumption DEF TypeOK, table, worker, observed, Places
<1>1. ASSUME NEW n \in Rows, Due(n)
      PROVE  TypeOK'
  BY <1>1 DEF Due
<1>2. ASSUME NEW w \in Workers, Poll(w)
      PROVE  TypeOK'
  <2>1. PICK S \in SUBSET Eligible : Fetch(w, S)
    BY <1>2 DEF Poll
  <2>2. S \subseteq Rows
    BY <2>1 DEF Eligible
  <2>3. batch' \in [Workers -> SUBSET Rows]
    BY <2>1, <2>2 DEF Fetch
  <2>4. seen' \in [Workers -> [Rows -> Nat]]
    <3>1. [n \in Rows |-> IF n \in S THEN count[n] ELSE 0] \in [Rows -> Nat]
      OBVIOUS
    <3> QED
      BY <2>1, <3>1 DEF Fetch
  <2>5. blamed' \subseteq Rows
    BY <2>1, <2>2 DEF Fetch
  <2> QED
    BY <2>1, <2>3, <2>4, <2>5 DEF Fetch
<1>3. ASSUME NEW w \in Workers, NEW n \in Rows,
             MoveToDlq(w, n) \/ MoveToDlqFails(w, n) \/ Attempt(w, n)
      PROVE  TypeOK'
  <2>1. CASE MoveToDlq(w, n)
    BY <2>1 DEF MoveToDlq
  <2>2. CASE MoveToDlqFails(w, n)
    BY <2>2 DEF MoveToDlqFails
  <2>3. CASE Attempt(w, n)
    BY <2>3 DEF Attempt
  <2> QED
    BY <1>3, <2>1, <2>2, <2>3
<1>4. ASSUME NEW w \in Workers, row[w] \in Rows, NEW o \in {"failed", "succeeded"}, Update(w, o)
      PROVE  /\ status' \in [Rows -> {"failed", "succeeded", "dlq"}]
             /\ count' \in [Rows -> Nat] /\ ready' \subseteq Rows
  BY <1>4 DEF Update
<1>5. ASSUME NEW w \in Workers, row[w] \in Rows, RowDone(w)
      PROVE  /\ at' \in [Workers -> Places] /\ batch' \in [Workers -> SUBSET Rows]
             /\ row' \in [Workers -> Rows \cup {NoRow}]
             /\ seen' \in [Workers -> [Rows -> Nat]] /\ stopping' \subseteq Workers
             /\ \A v \in Workers : row'[v] = NoRow <=> at'[v] \in {"between", "stopped"}
  BY <1>5 DEF RowDone
<1>6. ASSUME NEW w \in Workers, Delivered(w) \/ DeliveryFails(w)
      PROVE  TypeOK'
  BY <1>6 DEF Delivered, DeliveryFails, GoesThrough
<1>7. ASSUME NEW w \in Workers, RecordSuccess(w)
      PROVE  TypeOK'
  <2>1. row[w] \in Rows
    BY <1>7 DEF RecordSuccess
  <2> QED
    BY <1>7, <2>1, <1>4, <1>5 DEF RecordSuccess
<1>8. ASSUME NEW w \in Workers, RecordFailure(w)
      PROVE  TypeOK'
  <2>1. row[w] \in Rows
    BY <1>8 DEF RecordFailure
  <2> QED
    BY <1>8, <2>1, <1>4, <1>5 DEF RecordFailure
<1>9. ASSUME NEW w \in Workers, RecordSuccessFails(w)
      PROVE  TypeOK'
  <2>1. row[w] \in Rows
    BY <1>9 DEF RecordSuccessFails
  <2>2. /\ status' \in [Rows -> {"failed", "succeeded", "dlq"}]
        /\ count' \in [Rows -> Nat] /\ ready' \subseteq Rows
    BY <1>9, <2>1, <1>4 DEF RecordSuccessFails
  <2> QED
    BY <1>9, <2>1, <2>2 DEF RecordSuccessFails
<1>10. ASSUME NEW w \in Workers, RecordFailureFails(w)
       PROVE  TypeOK'
  <2>1. row[w] \in Rows
    BY <1>10 DEF RecordFailureFails
  <2>2. /\ status' \in [Rows -> {"failed", "succeeded", "dlq"}]
        /\ count' \in [Rows -> Nat] /\ ready' \subseteq Rows
    BY <1>10, <2>1, <1>4 DEF RecordFailureFails
  <2> QED
    BY <1>10, <2>1, <2>2, <1>5 DEF RecordFailureFails
<1>11. ASSUME NEW w \in Workers, Crash(w)
       PROVE  TypeOK'
  BY <1>11 DEF Crash, GoesThrough
<1>12. ASSUME NEW w \in Workers, Stop(w) \/ RunEnds(w)
       PROVE  TypeOK'
  BY <1>12 DEF Stop, RunEnds
<1>13. CASE UNCHANGED vars
  BY <1>13 DEF vars
<1> QED
  BY <1>1, <1>2, <1>3, <1>6, <1>7, <1>8, <1>9, <1>10, <1>11, <1>12, <1>13
  DEF Next, Work, Fault

(* Arithmetic, for leaves that are otherwise about sets.                   *)
LEMMA Squeezed ==
    ASSUME NEW a \in Nat, NEW b \in Nat, a >= b, a =< b
    PROVE  a = b
  OBVIOUS

(* What the columns and the copies of them say was done.                   *)
LEMMA BackedStep == TypeOK /\ TypeOK' /\ Backed /\ [Next]_vars => Backed'
<1> SUFFICES ASSUME TypeOK, TypeOK', Backed, [Next]_vars
             PROVE  Backed'
  OBVIOUS
<1> USE NoRowAssumption, MaxAttemptsAssumption
    DEF TypeOK, Backed, OutcomesBacked, SeenBacked, Recorded, table, worker, observed
<1>1. ASSUME NEW n \in Rows, Due(n)
      PROVE  Backed'
  BY <1>1 DEF Due
<1>2. ASSUME NEW w \in Workers, Poll(w)
      PROVE  Backed'
  <2>1. PICK S \in SUBSET Eligible : Fetch(w, S)
    BY <1>2 DEF Poll
  <2>2. OutcomesBacked' /\ Recorded'
    BY <2>1 DEF Fetch
  <2>3. row[w] = NoRow
    BY <2>1 DEF Fetch
  <2>4. \A n \in Rows : seen'[w][n] \in {count[n], 0}
    BY <2>1 DEF Fetch
  <2>5. \A v \in Workers \ {w} : seen'[v] = seen[v]
    BY <2>1 DEF Fetch
  <2>6. UNCHANGED <<row, tries>>
    BY <2>1 DEF Fetch
  <2>7. ASSUME NEW v \in Workers, NEW n \in Rows
        PROVE  /\ seen'[v][n] =< tries[n]
               /\ seen'[v][n] =< MaxAttempts
               /\ row[v] = n => seen'[v][n] + 1 =< tries[n] /\ seen'[v][n] + 1 =< MaxAttempts
    <3>1. CASE v = w
      <4>1. /\ seen'[w][n] \in {count[n], 0} /\ tries[n] \in Nat
            /\ count[n] =< tries[n] /\ count[n] =< MaxAttempts
        BY <2>4
      <4> QED
        BY <2>3, <3>1, <4>1
    <3>2. CASE v # w
      BY <2>5, <3>2
    <3> QED
      BY <3>1, <3>2
  <2> QED
    BY <2>2, <2>6, <2>7
<1>3. ASSUME NEW w \in Workers, NEW n \in Rows, MoveToDlq(w, n)
      PROVE  Backed'
  <2>1. seen[w][n] = MaxAttempts /\ seen[w][n] =< tries[n] /\ n \in Rows
    <3>1. seen[w][n] >= MaxAttempts
      BY <1>3 DEF MoveToDlq
    <3>2. seen[w][n] \in Nat /\ seen[w][n] =< MaxAttempts /\ seen[w][n] =< tries[n]
      OBVIOUS
    <3> HIDE DEF TypeOK, Backed, OutcomesBacked, SeenBacked, Recorded
    <3>3. seen[w][n] = MaxAttempts
      BY <3>1, <3>2, Squeezed
    <3> QED
      BY <3>2, <3>3
  <2>2. /\ \A r \in Rows : count'[r] = IF r = n THEN seen[w][n] ELSE count[r]
        /\ \A r \in Rows : status'[r] = IF r = n THEN "dlq" ELSE status[r]
        /\ UNCHANGED <<tries, sent, at, row>>
    BY <1>3 DEF MoveToDlq
  <2>3. OutcomesBacked'
    BY <2>1, <2>2
  <2>4. Recorded'
    BY <2>2
  <2>5. SeenBacked'
    BY <1>3 DEF MoveToDlq
  <2> QED
    BY <2>3, <2>4, <2>5
<1>4. ASSUME NEW w \in Workers, NEW n \in Rows, MoveToDlqFails(w, n)
      PROVE  Backed'
  BY <1>4 DEF MoveToDlqFails
<1>5. ASSUME NEW w \in Workers, NEW n \in Rows, Attempt(w, n)
      PROVE  Backed'
  <2>1. \A r \in Rows : tries'[r] >= tries[r]
    BY <1>5 DEF Attempt
  <2>2. seen[w][n] + 1 =< tries'[n] /\ seen[w][n] + 1 =< MaxAttempts
    BY <1>5 DEF Attempt
  <2>3. OutcomesBacked' /\ Recorded'
    BY <1>5, <2>1 DEF Attempt
  <2>4. SeenBacked'
    BY <1>5, <2>1, <2>2 DEF Attempt
  <2> QED
    BY <2>3, <2>4
<1>6. ASSUME NEW w \in Workers, Delivered(w) \/ DeliveryFails(w)
      PROVE  Backed'
  BY <1>6 DEF Delivered, DeliveryFails, GoesThrough
<1>7. ASSUME NEW w \in Workers, row[w] \in Rows, UNCHANGED tries, NEW o \in {"failed", "succeeded"},
             o = "succeeded" => at[w] = "recording", sent' = sent, Update(w, o)
      PROVE  OutcomesBacked'
  BY <1>7 DEF Update
<1>8. ASSUME NEW w \in Workers, RowDone(w), UNCHANGED tries, sent' = sent
      PROVE  SeenBacked' /\ Recorded'
  BY <1>8 DEF RowDone
<1>9. ASSUME UNCHANGED <<table, tries, sent>>
      PROVE  OutcomesBacked'
  BY <1>9
<1>10. ASSUME NEW w \in Workers, RecordSuccess(w) \/ RecordFailure(w)
       PROVE  Backed'
  <2>1. row[w] \in Rows /\ RowDone(w) /\ UNCHANGED <<tries, sent>>
    BY <1>10 DEF RecordSuccess, RecordFailure
  <2>2. OutcomesBacked'
    BY <1>10, <2>1, <1>7 DEF RecordSuccess, RecordFailure
  <2> QED
    BY <2>1, <2>2, <1>8
<1>11. ASSUME NEW w \in Workers, RecordSuccessFails(w)
       PROVE  Backed'
  <2>1. row[w] \in Rows /\ UNCHANGED <<tries, sent, row, seen>>
    BY <1>11 DEF RecordSuccessFails
  <2>2. OutcomesBacked'
    BY <1>11, <2>1, <1>7, <1>9 DEF RecordSuccessFails
  <2>3. SeenBacked' /\ Recorded'
    BY <1>11, <2>1 DEF RecordSuccessFails
  <2> QED
    BY <2>2, <2>3
<1>12. ASSUME NEW w \in Workers, RecordFailureFails(w)
       PROVE  Backed'
  <2>1. row[w] \in Rows /\ RowDone(w) /\ UNCHANGED <<tries, sent>>
    BY <1>12 DEF RecordFailureFails
  <2>2. OutcomesBacked'
    BY <1>12, <2>1, <1>7, <1>9 DEF RecordFailureFails
  <2> QED
    BY <2>1, <2>2, <1>8
<1>13. ASSUME NEW w \in Workers, Crash(w)
       PROVE  Backed'
  BY <1>13 DEF Crash, GoesThrough
<1>14. ASSUME NEW w \in Workers, Stop(w) \/ RunEnds(w)
       PROVE  Backed'
  BY <1>14 DEF Stop, RunEnds
<1>15. CASE UNCHANGED vars
  BY <1>15 DEF vars
<1> QED
  BY <1>1, <1>2, <1>3, <1>4, <1>5, <1>6, <1>10, <1>11, <1>12, <1>13, <1>14, <1>15
  DEF Next, Work, Fault

(* A row in care that nothing happened to has not gone out, unless its     *)
(* worker is about to write that down.                                     *)
LEMMA CareIsFresh ==
    ASSUME Alone, Settled, NEW n \in Rows \ blamed, NEW w \in Workers, n \in InCare(w),
           ~(at[w] = "recording" /\ row[w] = n), \A v \in Workers : row[v] = n => n \in InCare(v)
    PROVE  n \notin sent
<1> SUFFICES ASSUME n \in sent
             PROVE  FALSE
  OBVIOUS
<1>1. PICK v \in Workers : at[v] = "recording" /\ row[v] = n
  BY DEF Settled
<1>2. v = w
  BY <1>1 DEF Alone
<1> QED
  BY <1>1, <1>2

(* A step of one worker.                                                   *)
LEMMA WorkerKeeps ==
    ASSUME Alone, Settled, NEW w \in Workers, blamed \subseteq blamed',
           \A v \in Workers \ {w} : at'[v] = at[v] /\ row'[v] = row[v] /\ batch'[v] = batch[v],
           \A n \in (Rows \ blamed') \cap InCare(w)' :
              n \in InCare(w) \/ \A v \in Workers \ {w} : n \notin InCare(v),
           \A n \in (Rows \ blamed') \cap sent' :
              \/ at'[w] = "recording" /\ row'[w] = n
              \/ status'[n] # "failed" /\ \A v \in Workers : n \notin InCare(v)'
              \/ /\ n \in sent /\ status'[n] = status[n]
                 /\ ~(at[w] = "recording" /\ row[w] = n)
                 /\ n \in InCare(w)' => n \in InCare(w)
    PROVE  Alone' /\ Settled'
<1>1. \A v \in Workers \ {w} : InCare(v)' = InCare(v)
  BY DEF InCare
<1>2. ASSUME NEW n \in Rows \ blamed', NEW u \in Workers, NEW v \in Workers,
             n \in InCare(u)', n \in InCare(v)'
      PROVE  u = v
  <2>1. n \in Rows \ blamed
    OBVIOUS
  <2>2. \A x, y \in Workers : n \in InCare(x) /\ n \in InCare(y) => x = y
    BY <2>1 DEF Alone
  <2> QED
    BY <1>1, <1>2, <2>2
<1>3. ASSUME NEW n \in (Rows \ blamed') \cap sent'
      PROVE  \/ \E v \in Workers : at'[v] = "recording" /\ row'[v] = n
             \/ status'[n] # "failed" /\ \A v \in Workers : n \notin InCare(v)'
  <2>1. CASE /\ n \in sent /\ status'[n] = status[n]
             /\ ~(at[w] = "recording" /\ row[w] = n)
             /\ n \in InCare(w)' => n \in InCare(w)
    <3>1. \/ \E v \in Workers : at[v] = "recording" /\ row[v] = n
          \/ status[n] # "failed" /\ \A v \in Workers : n \notin InCare(v)
      BY <2>1 DEF Settled
    <3> QED
      BY <1>1, <2>1, <3>1
  <2> QED
    BY <2>1
<1> QED
  BY <1>2, <1>3 DEF Alone, Settled

(* Every step keeps what RepeatedForCause rests on.                        *)
LEMMA CausedStep == TypeOK /\ TypeOK' /\ Caused /\ [Next]_vars => Caused'
<1> SUFFICES ASSUME TypeOK, TypeOK', Caused, [Next]_vars
             PROVE  Caused'
  OBVIOUS
<1> USE NoRowAssumption DEF table, worker, observed
<1>a. /\ Alone /\ Settled /\ sentTwice \subseteq blamed /\ \A v \in Workers : row[v] \notin batch[v]
      /\ row \in [Workers -> Rows \cup {NoRow}] /\ batch \in [Workers -> SUBSET Rows]
      /\ at \in [Workers -> Places] /\ status \in [Rows -> {"failed", "succeeded", "dlq"}]
      /\ \A v \in Workers : row[v] = NoRow <=> at[v] \in {"between", "stopped"}
  BY DEF Caused, RepeatedForCause, RowApart, TypeOK
<1>b. ASSUME sentTwice' \subseteq blamed', \A v \in Workers : row'[v] \notin batch'[v],
             Alone' /\ Settled'
      PROVE  Caused'
  BY <1>b DEF Caused, RepeatedForCause, RowApart
<1>c. ASSUME NEW n \in Rows \ blamed, NEW w \in Workers,
             n \in batch[w] \/ (row[w] = n /\ at[w] # "recording")
      PROVE  n \notin sent
  <2>1. \A v \in Workers : row[v] = n => n \in InCare(v)
    BY DEF InCare
  <2>2. n \in InCare(w) /\ ~(at[w] = "recording" /\ row[w] = n)
    BY <1>a, <1>c DEF InCare
  <2> QED
    BY <1>a, <2>1, <2>2, CareIsFresh
<1>1. ASSUME NEW n \in Rows, Due(n)
      PROVE  Caused'
  BY <1>1 DEF Due, Caused, RepeatedForCause, RowApart, Alone, Settled, InCare
<1>2. ASSUME NEW w \in Workers, Poll(w)
      PROVE  Caused'
  <2>1. PICK S \in SUBSET Eligible : Fetch(w, S)
    BY <1>2 DEF Poll
  <2>2. /\ UNCHANGED <<status, at, row, sent, sentTwice>>
        /\ batch' = [batch EXCEPT ![w] = S] /\ blamed \subseteq blamed'
        /\ at[w] = "between" /\ batch[w] = {} /\ S \subseteq Rows
    BY <2>1 DEF Fetch, Eligible, TypeOK
  <2>3. \A n \in S \ blamed' : \A v \in Workers \ {w} : n \notin InCare(v)
    BY <2>1 DEF Fetch
  <2>4. row[w] = NoRow /\ InCare(w) = {} /\ InCare(w)' = S
    BY <1>a, <2>2 DEF InCare
  <2>5. \A n \in S \ blamed' : n \notin sent
    <3> SUFFICES ASSUME NEW n \in S \ blamed', n \in sent
                 PROVE  FALSE
      OBVIOUS
    <3>1. status[n] = "failed" /\ n \in Rows \ blamed
      BY <2>2 DEF Eligible
    <3>2. PICK v \in Workers : at[v] = "recording" /\ row[v] = n
      BY <1>a, <3>1 DEF Settled
    <3>3. v # w /\ n \in InCare(v)
      BY <2>2, <3>1, <3>2 DEF InCare
    <3> QED
      BY <2>3, <3>3
  <2>6. Alone' /\ Settled'
    BY <1>a, <2>2, <2>3, <2>4, <2>5, WorkerKeeps
  <2>7. \A v \in Workers : row'[v] \notin batch'[v]
    BY <1>a, <2>2, <2>4
  <2> QED
    BY <1>a, <1>b, <2>2, <2>6, <2>7
<1>3. ASSUME NEW w \in Workers, NEW n \in Rows,
             MoveToDlq(w, n) \/ MoveToDlqFails(w, n)
      PROVE  Caused'
  <2>1. /\ n \in batch[w] /\ batch' = [batch EXCEPT ![w] = @ \ {n}]
        /\ UNCHANGED <<at, row, sent, sentTwice, blamed>>
        /\ \A r \in Rows \ {n} : status'[r] = status[r]
        /\ at[w] = "between"
    BY <1>a, <1>3 DEF MoveToDlq, MoveToDlqFails
  <2>2. n \in blamed \/ n \notin sent
    BY <1>c, <2>1
  <2>3. InCare(w)' = InCare(w) \ {n}
    BY <1>a, <2>1 DEF InCare
  <2>4. Alone' /\ Settled'
    BY <1>a, <2>1, <2>2, <2>3, WorkerKeeps
  <2> QED
    BY <1>a, <1>b, <2>1, <2>4
<1>4. ASSUME NEW w \in Workers, NEW n \in Rows, Attempt(w, n)
      PROVE  Caused'
  <2>1. /\ n \in batch[w] /\ batch' = [batch EXCEPT ![w] = @ \ {n}]
        /\ row' = [row EXCEPT ![w] = n]
        /\ at[w] = "between" /\ at' = [at EXCEPT ![w] = "delivering"]
        /\ UNCHANGED <<status, sent, sentTwice, blamed>>
    BY <1>4 DEF Attempt
  <2>2. row[w] = NoRow /\ InCare(w)' = InCare(w)
    BY <1>a, <2>1 DEF InCare
  <2>3. Alone' /\ Settled'
    BY <1>a, <2>1, <2>2, WorkerKeeps
  <2> QED
    BY <1>a, <1>b, <2>1, <2>3
<1>5. ASSUME NEW w \in Workers, Delivered(w) \/ DeliveryFails(w)
      PROVE  Caused'
  <2>1. /\ UNCHANGED <<status, batch, row>> /\ blamed \subseteq blamed'
        /\ at[w] = "delivering" /\ \E to \in {"recording", "failing"} : at' = [at EXCEPT ![w] = to]
        /\ \/ at'[w] = "recording" /\ blamed' = blamed /\ GoesThrough(row[w])
           \/ UNCHANGED <<sent, sentTwice, blamed>>
           \/ GoesThrough(row[w]) /\ blamed' = blamed \cup {row[w]}
    BY <1>a, <1>5 DEF Delivered, DeliveryFails
  <2>2. row[w] \in Rows /\ InCare(w)' = InCare(w)
    BY <1>a, <2>1 DEF InCare
  <2>3. row[w] \in blamed \/ row[w] \notin sent
    BY <1>c, <2>1, <2>2
  <2>4. sentTwice' \subseteq blamed'
    BY <1>a, <2>1, <2>3 DEF GoesThrough
  <2>5. \A n \in (Rows \ blamed') \cap sent' :
           n \in sent \/ (at'[w] = "recording" /\ row'[w] = n)
    BY <2>1 DEF GoesThrough
  <2>6. Alone' /\ Settled'
    BY <1>a, <2>1, <2>2, <2>5, WorkerKeeps
  <2> QED
    BY <1>a, <1>b, <2>1, <2>4, <2>6
<1>6. ASSUME NEW w \in Workers, row[w] \in Rows, RowDone(w),
             \A r \in Rows \ {row[w]} : status'[r] = status[r],
             \/ at[w] = "recording" /\ status'[row[w]] = "succeeded"
             \/ at[w] = "failing",
             UNCHANGED <<sent, sentTwice, blamed>>
      PROVE  Caused'
  <2>1. /\ row' = [row EXCEPT ![w] = NoRow] /\ at' = [at EXCEPT ![w] = "between"]
        /\ batch' = batch
    BY <1>6 DEF RowDone
  <2>2. InCare(w)' = InCare(w) \ {row[w]} /\ row[w] \in InCare(w)
    BY <1>a, <1>6, <2>1 DEF InCare
  <2>3. at[w] = "failing" => row[w] \in blamed \/ row[w] \notin sent
    BY <1>6, <1>c
  <2>4. row[w] \notin blamed => \A v \in Workers : row[w] \notin InCare(v)'
    <3>1. \A v \in Workers \ {w} : InCare(v)' = InCare(v)
      BY <1>a, <2>1 DEF InCare
    <3> QED
      BY <1>a, <1>6, <2>2, <3>1 DEF Alone
  <2>5. Alone' /\ Settled'
    BY <1>a, <1>6, <2>1, <2>2, <2>3, <2>4, WorkerKeeps
  <2> QED
    BY <1>a, <1>b, <1>6, <2>1, <2>5
<1>7. ASSUME NEW w \in Workers, RecordSuccess(w) \/ RecordFailure(w)
      PROVE  Caused'
  BY <1>a, <1>6, <1>7 DEF RecordSuccess, RecordFailure, Update
<1>8. ASSUME NEW w \in Workers, RecordSuccessFails(w)
      PROVE  Caused'
  <2>1. /\ UNCHANGED <<batch, row, sent, sentTwice>> /\ at[w] = "recording"
        /\ at' = [at EXCEPT ![w] = "failing"]
        /\ \A r \in Rows \ {row[w]} : status'[r] = status[r]
        /\ blamed' = blamed \cup {row[w]}
    BY <1>a, <1>8 DEF RecordSuccessFails, Update
  <2>2. InCare(w)' = InCare(w)
    BY <2>1 DEF InCare
  <2>3. Alone' /\ Settled'
    BY <1>a, <2>1, <2>2, WorkerKeeps
  <2> QED
    BY <1>a, <1>b, <2>1, <2>3
<1>9. ASSUME NEW w \in Workers, RecordFailureFails(w)
      PROVE  Caused'
  BY <1>a, <1>6, <1>9 DEF RecordFailureFails, Update
<1>10. ASSUME NEW w \in Workers, Crash(w)
       PROVE  Caused'
  <2>1. /\ row' = [row EXCEPT ![w] = NoRow] /\ batch' = [batch EXCEPT ![w] = {}]
        /\ at' = [at EXCEPT ![w] = "between"]
        /\ status' = status /\ blamed' = blamed \cup ({row[w]} \ {NoRow})
    BY <1>10 DEF Crash
  <2>2. /\ sent' \subseteq sent \cup ({row[w]} \ {NoRow})
        /\ sentTwice' \subseteq sentTwice \cup ({row[w]} \ {NoRow})
    BY <1>a, <1>10 DEF Crash, GoesThrough
  <2>3. InCare(w)' = {}
    BY <1>a, <2>1 DEF InCare
  <2>4. Alone' /\ Settled'
    BY <1>a, <2>1, <2>2, <2>3, WorkerKeeps
  <2> QED
    BY <1>a, <1>b, <2>1, <2>2, <2>4
<1>11. ASSUME NEW w \in Workers, Stop(w) \/ RunEnds(w)
       PROVE  Caused'
  <2>1. /\ UNCHANGED <<batch, row, status, sent, sentTwice, blamed>>
        /\ at' = at \/ (at[w] = "between" /\ at' = [at EXCEPT ![w] = "stopped"])
    BY <1>11 DEF Stop, RunEnds
  <2>2. InCare(w)' = InCare(w)
    BY <2>1 DEF InCare
  <2>3. Alone' /\ Settled'
    <3>1. CASE at' = at
      BY <2>1, <3>1, <1>a DEF Alone, Settled, InCare
    <3>2. CASE at[w] = "between" /\ at' = [at EXCEPT ![w] = "stopped"]
      BY <1>a, <2>1, <2>2, <3>2, WorkerKeeps
    <3> QED
      BY <2>1, <3>1, <3>2
  <2> QED
    BY <1>a, <1>b, <2>1, <2>3
<1>12. CASE UNCHANGED vars
  BY <1>12 DEF vars, Caused, RepeatedForCause, RowApart, Alone, Settled, InCare
<1> QED
  BY <1>1, <1>2, <1>3, <1>4, <1>5, <1>7, <1>8, <1>9, <1>10, <1>11, <1>12
  DEF Next, Work, Fault

-----------------------------------------------------------------------------
(* The inductive invariants hold initially.                                *)
LEMMA RetryInit == Init => TypeOK /\ Backed /\ Caused
<1> SUFFICES ASSUME Init
             PROVE  TypeOK /\ Backed /\ Caused
  OBVIOUS
<1> USE NoRowAssumption, MaxAttemptsAssumption, MaxFaultsAssumption DEF Init
<1>1. TypeOK
  BY DEF TypeOK, Places
<1>2. Backed
  BY DEF Backed, OutcomesBacked, SeenBacked, Recorded
<1>3. Caused
  BY DEF Caused, RepeatedForCause, RowApart, Alone, Settled, InCare
<1> QED
  BY <1>1, <1>2, <1>3

(* The inductive invariant holds in every state.                           *)
THEOREM RetryCorrect == Spec => [](TypeOK /\ Backed /\ Caused)
<1>1. TypeOK /\ Backed /\ Caused /\ [Next]_vars => (TypeOK /\ Backed /\ Caused)'
  BY TypeStep, BackedStep, CausedStep
<1> QED
  BY <1>1, RetryInit, PTL DEF Spec

(* Type correctness; a worker has a row in hand exactly while it delivers  *)
(* or records.                                                             *)
THEOREM RetryTypeCorrect == Spec => []TypeOK
  BY RetryCorrect, PTL

(* _move_to_dlq(), _update_attempt_status(): no count and no status claims *)
(* more than was done, whichever workers overwrite each other's rows.      *)
THEOREM OutcomesBackedCorrect == Spec => []OutcomesBacked
<1>1. Backed => OutcomesBacked
  BY DEF Backed
<1> QED
  BY <1>1, RetryCorrect, PTL

(* poll_and_retry(): a notification goes out twice for one of the four     *)
(* named causes only, for any number of workers and rows.                  *)
THEOREM RepeatedForCauseCorrect == Spec => []RepeatedForCause
<1>1. Caused => RepeatedForCause
  BY DEF Caused
<1> QED
  BY <1>1, RetryCorrect, PTL

=============================================================================
