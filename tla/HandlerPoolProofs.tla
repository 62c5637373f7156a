------------------------- MODULE HandlerPoolProofs -------------------------
(***************************************************************************)
(* Theorems of HandlerPool for every finite set of callers and every pool  *)
(* size: an instance is in one place at a time, the pool's places are      *)
(* conserved, no wake-up is lost, the list of instances names what it      *)
(* should, and shutdown() misses no more than recycling left.              *)
(***************************************************************************)
EXTENDS HandlerPool, FiniteSetTheorems, SequenceTheorems, TLAPS

-----------------------------------------------------------------------------
(* Lemmas on lists and on counting.                                        *)

Entries(s) == {s[k] : k \in 1 .. Len(s)}

NoTwice(s) == \A j, k \in 1 .. Len(s) : s[j] = s[k] => j = k

(* Removing an entry leaves a list of the other entries.                   *)
LEMMA WithoutIs ==
    ASSUME NEW S, NEW s \in Seq(S), NEW e
    PROVE  /\ Without(s, e) \in Seq(S)
           /\ Entries(Without(s, e)) \subseteq Entries(s)
           /\ Entries(s) \subseteq Entries(Without(s, e)) \cup {e}
           /\ NoTwice(s) => /\ NoTwice(Without(s, e))
                            /\ e \notin Entries(Without(s, e))
<1>1. CASE ~ \E k \in DOMAIN s : s[k] = e
  BY <1>1, LenProperties DEF Without, Entries
<1>2. CASE \E k \in DOMAIN s : s[k] = e
  <2> DEFINE n == Len(s) - 1
             at == CHOOSE k \in DOMAIN s : s[k] = e
             t == [k \in 1 .. n |-> IF k < at THEN s[k] ELSE s[k + 1]]
  <2>1. Len(s) \in Nat /\ DOMAIN s = 1 .. Len(s) /\ \A k \in 1 .. Len(s) : s[k] \in S
    BY LenProperties
  <2>2. at \in 1 .. Len(s) /\ s[at] = e
    BY <1>2, <2>1
  <2>3. n \in Nat /\ Len(s) = n + 1
    BY <2>1, <2>2
  <2>4. Without(s, e) = t
    BY <1>2 DEF Without
  <2> HIDE DEF at, n
  <2>5. t \in [1 .. n -> S]
    BY <2>1, <2>2, <2>3
  <2>6. t \in Seq(S) /\ Len(t) = n
    BY <2>3, <2>5, SeqDef
  <2>7. \A k \in 1 .. n : \/ k < at /\ t[k] = s[k]
                          \/ k >= at /\ t[k] = s[k + 1]
    BY <2>1, <2>2, <2>3
  <2> HIDE DEF t
  <2>8. Entries(t) \subseteq Entries(s)
    BY <2>1, <2>2, <2>3, <2>6, <2>7 DEF Entries
  <2>9. ASSUME NoTwice(s)
        PROVE  NoTwice(t) /\ e \notin Entries(t)
    <3>1. ASSUME NEW j \in 1 .. n, NEW k \in 1 .. n, t[j] = t[k]
          PROVE  j = k
      BY <2>1, <2>2, <2>3, <2>7, <2>9, <3>1 DEF NoTwice
    <3>2. ASSUME NEW k \in 1 .. n
          PROVE  t[k] # e
      BY <2>1, <2>2, <2>3, <2>7, <2>9 DEF NoTwice
    <3> QED
      BY <2>6, <3>1, <3>2 DEF NoTwice, Entries
  <2>10. ASSUME NEW j \in 1 .. Len(s), j # at
         PROVE  s[j] \in Entries(t)
    <3>1. CASE j < at
      BY <2>2, <2>3, <2>6, <2>7, <3>1 DEF Entries
    <3>2. CASE j > at
      <4>1. j - 1 \in 1 .. n /\ j - 1 >= at /\ (j - 1) + 1 = j
        BY <2>2, <2>3, <3>2
      <4>2. t[j - 1] = s[j]
        BY <2>2, <2>3, <2>7, <4>1
      <4> QED
        BY <2>6, <4>1, <4>2 DEF Entries
    <3> QED
      BY <2>2, <2>10, <3>1, <3>2
  <2>11. Entries(s) \subseteq Entries(t) \cup {e}
    BY <2>2, <2>10 DEF Entries
  <2> QED
    BY <2>4, <2>6, <2>8, <2>9, <2>11
<1> QED
  BY <1>1, <1>2

(* Appending a new entry.                                                  *)
LEMMA AppendIs ==
    ASSUME NEW S, NEW s \in Seq(S), NEW e \in S
    PROVE  /\ Append(s, e) \in Seq(S)
           /\ Entries(Append(s, e)) = Entries(s) \cup {e}
           /\ Append(s, e) # <<>>
           /\ NoTwice(s) /\ e \notin Entries(s) => NoTwice(Append(s, e))
<1> DEFINE t == Append(s, e)
<1>1. /\ t \in Seq(S) /\ Len(s) \in Nat /\ Len(t) = Len(s) + 1
      /\ \A k \in 1 .. Len(s) : t[k] = s[k]
      /\ t[Len(s) + 1] = e
  BY LenProperties, AppendProperties
<1> HIDE DEF t
<1>2. Entries(t) = Entries(s) \cup {e}
  BY <1>1 DEF Entries
<1>3. t # <<>>
  BY <1>1
<1>4. NoTwice(s) /\ e \notin Entries(s) => NoTwice(t)
  BY <1>1 DEF NoTwice, Entries
<1> QED
  BY <1>1, <1>2, <1>3, <1>4 DEF t

(* Taking the first entry.                                                 *)
LEMMA TailIs ==
    ASSUME NEW S, NEW s \in Seq(S), s # <<>>
    PROVE  /\ Head(s) \in S /\ Head(s) \in Entries(s)
           /\ Tail(s) \in Seq(S)
           /\ Entries(Tail(s)) \subseteq Entries(s)
           /\ NoTwice(s) => NoTwice(Tail(s)) /\ Head(s) \notin Entries(Tail(s))
<1> DEFINE t == Tail(s)
<1>1. /\ Len(s) \in Nat \ {0} /\ t \in Seq(S) /\ Len(t) = Len(s) - 1
      /\ Head(s) = s[1] /\ Head(s) \in S
      /\ \A k \in 1 .. Len(t) : t[k] = s[k + 1]
  BY EmptySeq, LenProperties, HeadTailProperties
<1> HIDE DEF t
<1>2. Head(s) \in Entries(s) /\ Entries(t) \subseteq Entries(s)
  BY <1>1 DEF Entries
<1>3. NoTwice(s) => NoTwice(t) /\ Head(s) \notin Entries(t)
  BY <1>1 DEF NoTwice, Entries
<1> QED
  BY <1>1, <1>2, <1>3 DEF t

(* The entries of a list are of its element type.                          *)
LEMMA EntriesIn ==
    ASSUME NEW S, NEW s \in Seq(S)
    PROVE  Entries(s) \subseteq S
  BY LenProperties DEF Entries

(* Counting: one more, one less.                                           *)
LEMMA OneMore ==
    ASSUME NEW A, IsFiniteSet(A), NEW c
    PROVE  /\ Cardinality(A) \in Nat
           /\ c \notin A => Cardinality(A \cup {c}) = Cardinality(A) + 1
           /\ c \in A => Cardinality(A \ {c}) = Cardinality(A) - 1
           /\ c \in A => A \cup {c} = A
           /\ c \notin A => A \ {c} = A
<1>1. Cardinality(A) \in Nat
  BY FS_CardinalityType
<1>2. c \notin A => Cardinality(A \cup {c}) = Cardinality(A) + 1
  BY FS_AddElement
<1>3. c \in A => Cardinality(A \ {c}) = Cardinality(A) - 1
  BY FS_RemoveElement
<1>4. (c \in A => A \cup {c} = A) /\ (c \notin A => A \ {c} = A)
  OBVIOUS
<1> QED
  BY <1>1, <1>2, <1>3, <1>4

-----------------------------------------------------------------------------
(* The inductive invariant.                                                *)

(* Nothing happens to the pool before initialize() is through.             *)
Unopened ==
    /\ initialized => opener = "done"
    /\ opener # "done" =>
          /\ closer = "idle" /\ recycles = 0 /\ lost = 0
          /\ born < PoolSize /\ pool = 1 .. born
          /\ \A c \in Clients : pc[c] = "idle"

(* Every caller in the queue is parked, and queues once.                   *)
InLine ==
    NoTwice(getters) /\ \A c \in Entries(getters) : pc[c] = "parked"

(* A recycling that has not made its replacement yet may still make one.   *)
Births == opener = "done" => born + Cardinality(At({"closing"})) =< PoolSize + recycles

(* What is idle or in hand was made before.                                *)
Made ==
    /\ pool \subseteq 1 .. born
    /\ \A c \in Holders : held[c] \in 1 .. born

PoolInv ==
    Unopened /\ InLine /\ Births /\ Made /\ Exclusive /\ Conserved /\ NoLostWakeup

(* The callers at given steps can be counted.                              *)
LEMMA AtFinite ==
    ASSUME NEW steps
    PROVE  /\ IsFiniteSet(At(steps)) /\ Cardinality(At(steps)) \in Nat
           /\ Cardinality(At(steps)') \in Nat
<1>1. At(steps) \in SUBSET Clients /\ At(steps)' \in SUBSET Clients
  BY DEF At
<1> QED
  BY <1>1, ClientsAssumption, FS_Subset, FS_CardinalityType

One(p) == IF p THEN 1 ELSE 0

(* A caller that moves on: who holds what, and how many do.                *)
LEMMA Moves ==
    ASSUME PoolTypeOK, NEW c \in Clients, NEW to \in Steps, NEW steps \in SUBSET Steps,
           pc' = [pc EXCEPT ![c] = to]
    PROVE  /\ pc' \in [Clients -> Steps]
           /\ At(steps)' = IF to \in steps THEN At(steps) \cup {c} ELSE At(steps) \ {c}
           /\ Cardinality(At(steps))' =
                 Cardinality(At(steps)) + One(to \in steps) - One(pc[c] \in steps)
<1> USE DEF PoolTypeOK
<1>1. pc' \in [Clients -> Steps]
  OBVIOUS
<1>2. At(steps)' = IF to \in steps THEN At(steps) \cup {c} ELSE At(steps) \ {c}
  BY DEF At
<1>3. pc[c] \in steps <=> c \in At(steps)
  BY DEF At
<1>4. IsFiniteSet(At(steps)) /\ Cardinality(At(steps)) \in Nat
  BY AtFinite
<1>5. CASE pc[c] \in steps
  <2>1. /\ At(steps) \cup {c} = At(steps)
        /\ Cardinality(At(steps) \ {c}) = Cardinality(At(steps)) - 1
    BY <1>3, <1>4, <1>5, OneMore
  <2>2. CASE to \in steps
    <3>1. At(steps)' = At(steps)
      BY <1>2, <2>1, <2>2
    <3>2. Cardinality(At(steps)') = Cardinality(At(steps))
      BY <3>1
    <3> QED
      BY <1>1, <1>2, <1>4, <1>5, <2>1, <2>2, <3>2 DEF One
  <2>3. CASE to \notin steps
    <3>1. At(steps)' = At(steps) \ {c}
      BY <1>2, <2>1, <2>3
    <3>2. Cardinality(At(steps)') = Cardinality(At(steps) \ {c})
      BY <3>1
    <3> QED
      BY <1>1, <1>2, <1>4, <1>5, <2>1, <2>3, <3>2 DEF One
  <2> QED
    BY <1>1, <1>2, <2>2, <2>3
<1>6. CASE pc[c] \notin steps
  <2>1. /\ At(steps) \ {c} = At(steps)
        /\ Cardinality(At(steps) \cup {c}) = Cardinality(At(steps)) + 1
    BY <1>3, <1>4, <1>6, OneMore
  <2>2. CASE to \in steps
    <3>1. At(steps)' = At(steps) \cup {c}
      BY <1>2, <2>1, <2>2
    <3>2. Cardinality(At(steps)') = Cardinality(At(steps) \cup {c})
      BY <3>1
    <3> QED
      BY <1>1, <1>2, <1>4, <1>6, <2>1, <2>2, <3>2 DEF One
  <2>3. CASE to \notin steps
    <3>1. At(steps)' = At(steps)
      BY <1>2, <2>1, <2>3
    <3>2. Cardinality(At(steps)') = Cardinality(At(steps))
      BY <3>1
    <3> QED
      BY <1>1, <1>2, <1>4, <1>6, <2>1, <2>3, <3>2 DEF One
  <2> QED
    BY <1>1, <1>2, <2>2, <2>3
<1> QED
  BY <1>1, <1>2, <1>5, <1>6

Holding == {"using", "checking", "closing", "creating"}

(* The three numbers the invariant speaks of.                              *)
LEMMA Tally ==
    ASSUME PoolTypeOK, NEW c \in Clients, NEW to \in Steps \ {"woken"},
           pc' = [pc EXCEPT ![c] = to]
    PROVE  /\ pc' \in [Clients -> Steps]
           /\ Cardinality(Holders) \in Nat
           /\ Cardinality(At({"closing"})) \in Nat
           /\ Cardinality(At({"woken"})) \in Nat
           /\ Cardinality(At({"woken"})') \in Nat
           /\ (to \in Holding /\ pc[c] \in Holding) =>
                 Holders' = Holders /\ Cardinality(Holders') = Cardinality(Holders)
           /\ (to \in Holding /\ pc[c] \notin Holding) =>
                 /\ Holders' = Holders \cup {c} /\ c \notin Holders
                 /\ Cardinality(Holders') = Cardinality(Holders) + 1
           /\ (to \notin Holding /\ pc[c] \in Holding) =>
                 /\ Holders' = Holders \ {c} /\ c \in Holders
                 /\ Cardinality(Holders') = Cardinality(Holders) - 1
           /\ (to \notin Holding /\ pc[c] \notin Holding) =>
                 /\ Holders' = Holders /\ c \notin Holders
                 /\ Cardinality(Holders') = Cardinality(Holders)
           /\ (to = "closing" /\ pc[c] # "closing") =>
                 Cardinality(At({"closing"})') = Cardinality(At({"closing"})) + 1
           /\ (to # "closing" /\ pc[c] = "closing") =>
                 Cardinality(At({"closing"})') = Cardinality(At({"closing"})) - 1
           /\ (to # "closing" /\ pc[c] # "closing") =>
                 Cardinality(At({"closing"})') = Cardinality(At({"closing"}))
           /\ pc[c] = "woken" =>
                 Cardinality(At({"woken"})') = Cardinality(At({"woken"})) - 1
           /\ pc[c] # "woken" =>
                 Cardinality(At({"woken"})') = Cardinality(At({"woken"}))
<1>1. /\ to \in Steps /\ Holding \in SUBSET Steps
      /\ {"closing"} \in SUBSET Steps /\ {"woken"} \in SUBSET Steps
  BY DEF Steps, Holding
<1>2. Holders = At(Holding) /\ Holders' = At(Holding)'
  BY DEF Holders, Holding
<1>3. /\ Cardinality(At(Holding)) \in Nat
      /\ Cardinality(At({"closing"})) \in Nat
      /\ Cardinality(At({"woken"})) \in Nat
      /\ Cardinality(At({"woken"})') \in Nat
  BY AtFinite
<1>4. c \in At(Holding) <=> pc[c] \in Holding
  BY DEF At
<1>5. /\ pc' \in [Clients -> Steps]
      /\ At(Holding)' = IF to \in Holding THEN At(Holding) \cup {c} ELSE At(Holding) \ {c}
      /\ Cardinality(At(Holding)') =
            Cardinality(At(Holding)) + One(to \in Holding) - One(pc[c] \in Holding)
  BY <1>1, Moves
<1>6. Cardinality(At({"closing"})') =
         Cardinality(At({"closing"})) + One(to \in {"closing"}) - One(pc[c] \in {"closing"})
  <2> DEFINE steps == {"closing"}
  <2>1. steps \in SUBSET Steps
    BY <1>1
  <2> HIDE DEF steps
  <2>2. Cardinality(At(steps)') =
           Cardinality(At(steps)) + One(to \in steps) - One(pc[c] \in steps)
    BY <1>1, <2>1, Moves
  <2> QED
    BY <2>2 DEF steps
<1>7. Cardinality(At({"woken"})') =
         Cardinality(At({"woken"})) + One(to \in {"woken"}) - One(pc[c] \in {"woken"})
  <2> DEFINE steps == {"woken"}
  <2>1. steps \in SUBSET Steps
    BY <1>1
  <2> HIDE DEF steps
  <2>2. Cardinality(At(steps)') =
           Cardinality(At(steps)) + One(to \in steps) - One(pc[c] \in steps)
    BY <1>1, <2>1, Moves
  <2> QED
    BY <2>2 DEF steps
<1>8. /\ (to \in Holding /\ pc[c] \in Holding) =>
            Holders' = Holders /\ Cardinality(Holders') = Cardinality(Holders)
      /\ (to \in Holding /\ pc[c] \notin Holding) =>
            /\ Holders' = Holders \cup {c} /\ c \notin Holders
            /\ Cardinality(Holders') = Cardinality(Holders) + 1
      /\ (to \notin Holding /\ pc[c] \in Holding) =>
            /\ Holders' = Holders \ {c} /\ c \in Holders
            /\ Cardinality(Holders') = Cardinality(Holders) - 1
      /\ (to \notin Holding /\ pc[c] \notin Holding) =>
            /\ Holders' = Holders /\ c \notin Holders
            /\ Cardinality(Holders') = Cardinality(Holders)
  BY <1>2, <1>3, <1>4, <1>5 DEF One
<1>9. /\ (to = "closing" /\ pc[c] # "closing") =>
            Cardinality(At({"closing"})') = Cardinality(At({"closing"})) + 1
      /\ (to # "closing" /\ pc[c] = "closing") =>
            Cardinality(At({"closing"})') = Cardinality(At({"closing"})) - 1
      /\ (to # "closing" /\ pc[c] # "closing") =>
            Cardinality(At({"closing"})') = Cardinality(At({"closing"}))
  BY <1>3, <1>6 DEF One
<1>10. /\ pc[c] = "woken" =>
             Cardinality(At({"woken"})') = Cardinality(At({"woken"})) - 1
       /\ pc[c] # "woken" =>
             Cardinality(At({"woken"})') = Cardinality(At({"woken"}))
  BY <1>3, <1>7 DEF One
<1> QED
  BY <1>2, <1>3, <1>5, <1>8, <1>9, <1>10

(* A caller that leaves its instance wakes the first in line, if any.      *)
LEMMA Leaves ==
    ASSUME PoolTypeOK, InLine, NEW c \in Clients, pc[c] # "parked", pc[c] # "idle",
           LeaveAndWake(c)
    PROVE  /\ pc' \in [Clients -> Steps] /\ getters' \in Seq(Clients)
           /\ InLine'
           /\ Holders' = Holders \ {c}
           /\ At({"closing"})' = At({"closing"}) \ {c}
           /\ getters = <<>> => getters' = <<>>
           /\ getters # <<>> =>
                 Cardinality(At({"woken"}))' =
                    IF pc[c] = "woken" THEN Cardinality(At({"woken"}))
                                       ELSE Cardinality(At({"woken"})) + 1
<1> USE DEF PoolTypeOK
<1>1. CASE getters = <<>>
  <2>1. pc' = [pc EXCEPT ![c] = "idle"] /\ getters' = getters
    BY <1>1 DEF LeaveAndWake
  <2>2. InLine'
    BY <1>1, <2>1, EmptySeq DEF InLine, NoTwice, Entries
  <2>3. /\ Holders' = Holders \ {c}
        /\ At({"closing"})' = At({"closing"}) \ {c}
    BY <2>1 DEF Holders, At
  <2>4. pc' \in [Clients -> Steps]
    BY <2>1 DEF Steps
  <2> QED
    BY <1>1, <2>1, <2>2, <2>3, <2>4
<1>2. CASE getters # <<>>
  <2> DEFINE h == Head(getters)
             mid == [pc EXCEPT ![c] = "idle"]
  <2>1. /\ pc' = [mid EXCEPT ![h] = "woken"]
        /\ getters' = Tail(getters)
    BY <1>2 DEF LeaveAndWake
  <2>2. /\ h \in Clients /\ pc[h] = "parked" /\ h # c
        /\ getters' \in Seq(Clients)
        /\ Entries(getters') \subseteq Entries(getters) \ {h}
        /\ NoTwice(getters')
    BY <1>2, <2>1, TailIs DEF InLine
  <2>3. c \notin Entries(getters) /\ Entries(getters) \subseteq Clients
    BY EntriesIn DEF InLine
  <2> HIDE DEF h
  <2>4. mid \in [Clients -> Steps] /\ pc' \in [Clients -> Steps]
    BY <2>1, <2>2 DEF Steps
  <2>5. InLine'
    <3>1. \A d \in Entries(getters') : d # h /\ d # c /\ d \in Clients /\ pc[d] = "parked"
      BY <2>2, <2>3 DEF InLine
    <3>2. \A d \in Entries(getters') : pc'[d] = "parked"
      BY <2>1, <2>2, <3>1
    <3> QED
      BY <2>2, <3>2 DEF InLine
  <2>6. /\ Holders' = Holders \ {c}
        /\ At({"closing"})' = At({"closing"}) \ {c}
    BY <2>1, <2>2 DEF Holders, At
  <2>7. Cardinality(At({"woken"}))' =
           IF pc[c] = "woken" THEN Cardinality(At({"woken"}))
                              ELSE Cardinality(At({"woken"})) + 1
    <3> DEFINE rest == At({"woken"}) \ {c}
    <3>1. IsFiniteSet(rest) /\ IsFiniteSet(At({"woken"}))
      BY AtFinite, FS_Subset
    <3>2. At({"woken"})' = rest \cup {h} /\ h \notin rest
      BY <2>1, <2>2 DEF At
    <3>3. pc[c] = "woken" <=> c \in At({"woken"})
      BY DEF At
    <3>4. /\ Cardinality(rest) \in Nat /\ Cardinality(At({"woken"})) \in Nat
          /\ c \in At({"woken"}) => Cardinality(rest) = Cardinality(At({"woken"})) - 1
          /\ c \notin At({"woken"}) => Cardinality(rest) = Cardinality(At({"woken"}))
      BY <3>1, AtFinite, FS_CardinalityType, OneMore
    <3> HIDE DEF rest
    <3>5. Cardinality(rest \cup {h}) = Cardinality(rest) + 1
      BY <3>1, <3>2, OneMore
    <3>6. Cardinality(At({"woken"})') = Cardinality(rest) + 1
      BY <3>2, <3>5
    <3> QED
      BY <3>3, <3>4, <3>6
  <2> QED
    BY <1>2, <2>2, <2>4, <2>5, <2>6, <2>7
<1> QED
  BY <1>1, <1>2

(* The invariant holds initially.                                          *)
LEMMA PoolInvInit == PoolInit => PoolTypeOK /\ PoolInv
<1> SUFFICES ASSUME PoolInit
             PROVE  PoolTypeOK /\ PoolInv
  OBVIOUS
<1> USE DEF PoolInit
<1>1. At({"closing"}) = {} /\ Holders = {}
  BY DEF At, Holders
<1>2. PoolTypeOK
  <2>1. \A c \in Clients : held[c] # NoInstance <=> c \in Holders
    BY <1>1
  <2>2. pc \in [Clients -> Steps] /\ held \in [Clients -> Instances \cup {NoInstance}]
    BY DEF Steps
  <2>3. getters \in Seq(Clients) /\ allInstances \in Seq(Instances)
    BY EmptySeq
  <2>4. 0 \in 0 .. MaxRecycles /\ 0 \in 0 .. (PoolSize + MaxRecycles)
    BY PoolSizeAssumption, RecyclesAssumption
  <2> QED
    BY <2>1, <2>2, <2>3, <2>4 DEF PoolTypeOK
<1>3. InLine
  BY EmptySeq DEF InLine, NoTwice, Entries
<1>4. Unopened /\ Births /\ Made /\ Exclusive /\ Conserved /\ NoLostWakeup
  BY <1>1, PoolSizeAssumption
  DEF Unopened, Births, Made, Exclusive, Conserved, NoLostWakeup
<1> QED
  BY <1>2, <1>3, <1>4 DEF PoolInv

-----------------------------------------------------------------------------
(* The steps keep the invariant.  An instance leaves the pool with a       *)
(* caller, or a caller with no instance joins the queue.                   *)

(* The idle instances can be counted.                                      *)
LEMMA PoolFinite ==
    ASSUME PoolTypeOK
    PROVE  IsFiniteSet(pool) /\ Cardinality(pool) \in Nat
<1>1. IsFiniteSet(Instances)
  BY PoolSizeAssumption, RecyclesAssumption, FS_Interval DEF Instances
<1> QED
  BY <1>1, FS_Subset, FS_CardinalityType DEF PoolTypeOK

Others == <<allInstances, initialized, shuttingDown, recycles, born, closed,
            opener, closer, cursor, lost>>

(* Take: the instance moves from the pool into the caller's hands.         *)
LEMMA TakeKeeps ==
    ASSUME PoolTypeOK, PoolInv, NEW c \in Clients, pc[c] \in {"idle", "woken"},
           opener = "done", Take(c), UNCHANGED Others
    PROVE  (PoolTypeOK /\ PoolInv)'
<1> PICK i \in pool : /\ pool' = pool \ {i}
                      /\ held' = [held EXCEPT ![c] = i]
                      /\ pc' = [pc EXCEPT ![c] = "using"]
                      /\ UNCHANGED getters
  BY DEF Take
<1>1. /\ pc' \in [Clients -> Steps]
      /\ Holders' = Holders \cup {c}
      /\ Cardinality(Holders)' = Cardinality(Holders) + 1
      /\ Cardinality(At({"closing"}))' = Cardinality(At({"closing"}))
      /\ Cardinality(At({"woken"}))' \in Nat /\ Cardinality(At({"woken"})) \in Nat
      /\ Cardinality(At({"woken"}))' =< Cardinality(At({"woken"}))
      /\ Cardinality(At({"woken"}))' >= Cardinality(At({"woken"})) - 1
  <2>1. "using" \in Steps \ {"woken"} /\ pc' = [pc EXCEPT ![c] = "using"]
    BY DEF Steps
  <2>2. "using" \in Holding /\ pc[c] \notin Holding /\ pc[c] # "closing"
    BY DEF Holding
  <2>3. /\ pc' \in [Clients -> Steps]
        /\ Holders' = Holders \cup {c}
        /\ Cardinality(Holders') = Cardinality(Holders) + 1
        /\ Cardinality(At({"closing"})') = Cardinality(At({"closing"}))
    BY <2>1, <2>2, Tally
  <2>4. /\ Cardinality(At({"woken"})') \in Nat /\ Cardinality(At({"woken"})) \in Nat
        /\ pc[c] = "woken" =>
              Cardinality(At({"woken"})') = Cardinality(At({"woken"})) - 1
        /\ pc[c] # "woken" =>
              Cardinality(At({"woken"})') = Cardinality(At({"woken"}))
    BY <2>1, Tally
  <2> QED
    BY <2>3, <2>4
<1> USE DEF PoolTypeOK, Others
<1>2. i # NoInstance /\ i \in Instances /\ i \in 1 .. born
  BY NoInstanceAssumption DEF Instances, PoolInv, Made
<1>3. /\ Cardinality(pool') = Cardinality(pool) - 1 /\ Cardinality(pool) \in Nat
  BY PoolFinite, OneMore
<1>4. c \notin Holders
  BY DEF Holders, At
<1>5. PoolTypeOK'
  BY <1>2, <1>1, <1>4
<1>6. Unopened' /\ Made' /\ Exclusive'
  BY <1>2, <1>1, <1>4 DEF PoolInv, Unopened, Made, Exclusive
<1>7. InLine'
  BY EntriesIn DEF PoolInv, InLine
<1>8. Births' /\ Conserved'
  BY <1>1, <1>3, AtFinite DEF PoolInv, Births, Conserved, Holders
<1>9. NoLostWakeup'
  BY <1>1, <1>3 DEF PoolInv, NoLostWakeup
<1> QED
  BY <1>5, <1>6, <1>7, <1>8, <1>9 DEF PoolInv

(* Park: the queue grows while there is nothing to get.                    *)
LEMMA ParkKeeps ==
    ASSUME PoolTypeOK, PoolInv, NEW c \in Clients, pc[c] \in {"idle", "woken"},
           opener = "done", Park(c), UNCHANGED Others
    PROVE  (PoolTypeOK /\ PoolInv)'
<1> USE DEF PoolTypeOK, Others
<1>1. /\ pool = {} /\ pool' = pool /\ held' = held
      /\ getters' = Append(getters, c)
      /\ pc' = [pc EXCEPT ![c] = "parked"]
  BY DEF Park
<1>2. /\ pc' \in [Clients -> Steps]
      /\ Holders' = Holders \ {c}
      /\ Cardinality(Holders)' = Cardinality(Holders)
      /\ Cardinality(At({"closing"}))' = Cardinality(At({"closing"}))
      /\ Cardinality(At({"woken"}))' \in Nat
  <2>1. "parked" \in Steps \ {"woken"} /\ pc' = [pc EXCEPT ![c] = "parked"]
    BY <1>1 DEF Steps
  <2> QED
    BY <2>1, Tally DEF Holding
<1>3. c \notin Holders
  BY DEF Holders, At
<1>4. c \notin Entries(getters) /\ Entries(getters) \subseteq Clients
  BY EntriesIn DEF PoolInv, InLine
<1>5. /\ getters' \in Seq(Clients) /\ NoTwice(getters')
      /\ Entries(getters') = Entries(getters) \cup {c}
  BY <1>1, <1>4, AppendIs DEF PoolInv, InLine
<1>6. PoolTypeOK'
  BY <1>1, <1>2, <1>3, <1>5
<1>7. Unopened' /\ Made' /\ Exclusive'
  BY <1>1, <1>2, <1>3 DEF PoolInv, Unopened, Made, Exclusive
<1>8. InLine'
  BY <1>1, <1>4, <1>5 DEF PoolInv, InLine
<1>9. Births' /\ Conserved'
  BY <1>1, <1>2, AtFinite DEF PoolInv, Births, Conserved
<1>10. NoLostWakeup'
  <2>1. Cardinality(pool') = 0
    BY <1>1, FS_EmptySet
  <2> QED
    BY <1>2, <2>1 DEF NoLostWakeup
<1> QED
  BY <1>6, <1>7, <1>8, <1>9, <1>10 DEF PoolInv

(* Finish, CancelUsing: the caller turns to the return of its instance.    *)
LEMMA FinishKeeps ==
    ASSUME PoolTypeOK, PoolInv, NEW c \in Clients, pc[c] = "using",
           pc' = [pc EXCEPT ![c] = "checking"],
           UNCHANGED <<pool, getters, held, Others>>
    PROVE  (PoolTypeOK /\ PoolInv)'
<1>1. "checking" \in Steps \ {"woken"} /\ {"using", "checking"} \subseteq Holding
  BY DEF Steps, Holding
<1>2. /\ pc' \in [Clients -> Steps]
      /\ Holders' = Holders
      /\ Cardinality(Holders') = Cardinality(Holders)
      /\ Cardinality(At({"closing"})') = Cardinality(At({"closing"}))
      /\ Cardinality(At({"woken"})') = Cardinality(At({"woken"}))
  BY <1>1, Tally
<1> USE DEF PoolTypeOK, Others, PoolInv
<1>3. PoolTypeOK'
  BY <1>2
<1>4. Unopened' /\ Made' /\ Exclusive'
  BY <1>2 DEF Unopened, Made, Exclusive
<1>5. InLine'
  BY EntriesIn DEF InLine
<1>6. Births' /\ Conserved' /\ NoLostWakeup'
  BY <1>2 DEF Births, Conserved, NoLostWakeup
<1> QED
  BY <1>3, <1>4, <1>5, <1>6

(* ReplaceFails, CancelReturn: the caller leaves, its place with it.       *)
LEMMA GiveUpKeeps ==
    ASSUME PoolTypeOK, PoolInv, NEW c \in Clients,
           pc[c] \in {"checking", "closing", "creating"},
           pc' = [pc EXCEPT ![c] = "idle"],
           held' = [held EXCEPT ![c] = NoInstance],
           lost' = lost + 1,
           UNCHANGED <<pool, getters, allInstances, initialized, shuttingDown,
                       recycles, born, closed, opener, closer, cursor>>
    PROVE  (PoolTypeOK /\ PoolInv)'
<1>1. "idle" \in Steps \ {"woken"} /\ "idle" \notin Holding /\ pc[c] \in Holding
  BY DEF Steps, Holding
<1>2. /\ pc' \in [Clients -> Steps]
      /\ Holders' = Holders \ {c} /\ c \in Holders
      /\ Cardinality(Holders) \in Nat
      /\ Cardinality(Holders') = Cardinality(Holders) - 1
      /\ Cardinality(At({"closing"})) \in Nat
      /\ Cardinality(At({"woken"})') = Cardinality(At({"woken"}))
  BY <1>1, Tally
<1>3. \/ Cardinality(At({"closing"})') = Cardinality(At({"closing"}))
      \/ Cardinality(At({"closing"})') = Cardinality(At({"closing"})) - 1
  BY <1>1, Tally
<1> USE DEF PoolTypeOK, PoolInv
<1>4. PoolTypeOK'
  BY <1>2
<1>5. opener = "done"
  BY <1>1 DEF Unopened, Holding
<1>6. Unopened' /\ Made' /\ Exclusive'
  BY <1>2, <1>5 DEF Unopened, Made, Exclusive
<1>7. InLine'
  BY <1>2, EntriesIn DEF InLine
<1>8. Births'
  <2>1. Cardinality(At({"closing"})') =< Cardinality(At({"closing"}))
    BY <1>2, <1>3
  <2>2. Cardinality(At({"closing"})') \in Int
    BY <1>2, <1>3
  <2> QED
    BY <1>2, <1>5, <2>1, <2>2, PoolSizeAssumption DEF Births
<1>9. Conserved' /\ NoLostWakeup'
  BY <1>2, PoolFinite, PoolSizeAssumption DEF Conserved, NoLostWakeup
<1> QED
  BY <1>4, <1>6, <1>7, <1>8, <1>9

(* PutBack: the instance is idle again and the first in line wakes.        *)
LEMMA PutBackKeeps ==
    ASSUME PoolTypeOK, PoolInv, NEW c \in Clients,
           pc[c] \in {"checking", "creating"}, PutBack(c, held[c]),
           allInstances' \in Seq(Instances),
           UNCHANGED <<initialized, shuttingDown, recycles, born, closed, opener,
                       closer, cursor, lost>>
    PROVE  (PoolTypeOK /\ PoolInv)'
<1>1. /\ pool' = pool \cup {held[c]}
      /\ held' = [held EXCEPT ![c] = NoInstance]
      /\ LeaveAndWake(c)
  BY DEF PutBack
<1>2. /\ pc' \in [Clients -> Steps] /\ getters' \in Seq(Clients)
      /\ InLine'
      /\ Holders' = Holders \ {c}
      /\ At({"closing"})' = At({"closing"}) \ {c}
      /\ getters = <<>> => getters' = <<>>
      /\ getters # <<>> =>
            Cardinality(At({"woken"}))' = Cardinality(At({"woken"})) + 1
  BY <1>1, Leaves DEF PoolInv
<1>3. c \in Holders /\ c \notin At({"closing"})
  BY DEF Holders, At
<1>4. /\ held[c] \in Instances /\ held[c] # NoInstance /\ held[c] \notin pool
      /\ held[c] \in 1 .. born
  BY <1>3 DEF PoolTypeOK, PoolInv, Exclusive, Made
<1>5. /\ Cardinality(pool') = Cardinality(pool) + 1 /\ Cardinality(pool) \in Nat
  BY <1>1, <1>4, PoolFinite, OneMore
<1>6. /\ Cardinality(Holders') = Cardinality(Holders) - 1
      /\ Cardinality(Holders) \in Nat
  <2>1. IsFiniteSet(Holders) /\ Cardinality(Holders) \in Nat
    BY AtFinite DEF Holders
  <2> QED
    BY <1>2, <1>3, <2>1, OneMore
<1>7. Cardinality(At({"woken"})) \in Nat
  BY AtFinite
<1>8. At({"closing"})' = At({"closing"})
  BY <1>2, <1>3
<1> USE DEF PoolTypeOK, PoolInv
<1>9. PoolTypeOK'
  BY <1>1, <1>2, <1>4
<1>10. opener = "done"
  BY DEF Unopened
<1>11. Unopened'
  BY <1>10 DEF Unopened
<1>12. \A d \in Holders' : d \in Holders /\ d # c /\ held'[d] = held[d]
  BY <1>1, <1>2 DEF Holders, At
<1>13. Made'
  BY <1>1, <1>4, <1>12 DEF Made
<1>14. Exclusive'
  BY <1>1, <1>3, <1>12 DEF Exclusive
<1>15. Births'
  BY <1>8 DEF Births
<1>16. Conserved'
  BY <1>5, <1>6, PoolSizeAssumption DEF Conserved
<1>17. NoLostWakeup'
  BY <1>2, <1>5, <1>7 DEF NoLostWakeup
<1> QED
  BY <1>2, <1>9, <1>11, <1>15, <1>16, <1>13, <1>14, <1>17


(* Recycle: one more replacement is to come.                               *)
LEMMA RecycleKeeps ==
    ASSUME PoolTypeOK, PoolInv, NEW c \in Clients, Recycle(c)
    PROVE  (PoolTypeOK /\ PoolInv)'
<1>1. "closing" \in Steps \ {"woken"} /\ {"checking", "closing"} \subseteq Holding
  BY DEF Steps, Holding
<1>2. pc[c] = "checking" /\ pc' = [pc EXCEPT ![c] = "closing"]
  BY DEF Recycle
<1>3. /\ pc' \in [Clients -> Steps]
      /\ Holders' = Holders
      /\ Cardinality(Holders') = Cardinality(Holders)
      /\ Cardinality(At({"closing"})) \in Nat
      /\ Cardinality(At({"closing"})') = Cardinality(At({"closing"})) + 1
      /\ Cardinality(At({"woken"})') = Cardinality(At({"woken"}))
  BY <1>1, <1>2, Tally
<1>4. c \in Holders
  BY <1>2 DEF Holders, At
<1>5. held[c] \in Instances
  BY <1>4 DEF PoolTypeOK
<1>6. allInstances' \in Seq(Instances)
  BY WithoutIs DEF Recycle, PoolTypeOK
<1> USE DEF PoolTypeOK, PoolInv, Recycle
<1>7. PoolTypeOK'
  BY <1>3, <1>5, <1>6, RecyclesAssumption
<1>8. opener = "done"
  BY <1>2 DEF Unopened
<1>9. Unopened' /\ Made' /\ Exclusive'
  BY <1>3, <1>8 DEF Unopened, Made, Exclusive
<1>10. InLine'
  BY <1>2, EntriesIn DEF InLine
<1>11. Births'
  BY <1>3, <1>8, PoolSizeAssumption DEF Births
<1>12. Conserved' /\ NoLostWakeup'
  BY <1>3 DEF Conserved, NoLostWakeup
<1> QED
  BY <1>7, <1>9, <1>10, <1>11, <1>12

(* Replace: there are fewer instances than the pool and its recyclings     *)
(* allow for, so the new one has a number of its own.                      *)
LEMMA ReplaceKeeps ==
    ASSUME PoolTypeOK, PoolInv, NEW c \in Clients, Replace(c)
    PROVE  (PoolTypeOK /\ PoolInv)'
<1>1. "creating" \in Steps \ {"woken"} /\ {"creating", "closing"} \subseteq Holding
  BY DEF Steps, Holding
<1>2. /\ pc[c] = "closing" /\ pc' = [pc EXCEPT ![c] = "creating"]
      /\ born' = born + 1 /\ held' = [held EXCEPT ![c] = born + 1]
  BY DEF Replace
<1>3. /\ pc' \in [Clients -> Steps]
      /\ Holders' = Holders
      /\ Cardinality(Holders') = Cardinality(Holders)
      /\ Cardinality(At({"closing"})') = Cardinality(At({"closing"})) - 1
      /\ Cardinality(At({"woken"})') = Cardinality(At({"woken"}))
  BY <1>1, <1>2, Tally
<1>4. c \in Holders
  BY <1>2 DEF Holders, At
<1>5. /\ Cardinality(At({"closing"})) \in Nat
      /\ Cardinality(At({"closing"})') \in Nat
  BY AtFinite
<1>6. opener = "done"
  BY <1>2 DEF PoolInv, Unopened
<1>7. born' \in 0 .. (PoolSize + MaxRecycles) /\ Births'
  BY <1>2, <1>3, <1>5, <1>6, PoolSizeAssumption, RecyclesAssumption
  DEF PoolTypeOK, PoolInv, Births, Replace
<1>8. born' \in Instances /\ born' # NoInstance
  BY <1>2, <1>7, NoInstanceAssumption, PoolSizeAssumption, RecyclesAssumption
  DEF Instances, PoolTypeOK
<1> USE DEF PoolTypeOK, PoolInv, Replace
<1>9. PoolTypeOK'
  BY <1>2, <1>3, <1>4, <1>7, <1>8
<1>10. Unopened' /\ Made'
  BY <1>2, <1>3, <1>6 DEF Unopened, Made
<1>11. \A d \in Holders : held'[d] = IF d = c THEN born + 1 ELSE held[d]
  BY <1>2 DEF Holders, At
<1>12. Exclusive'
  BY <1>3, <1>11 DEF Exclusive, Made
<1>13. InLine'
  BY <1>2, EntriesIn DEF InLine
<1>14. Conserved' /\ NoLostWakeup'
  BY <1>3, <1>6 DEF Conserved, NoLostWakeup
<1> QED
  BY <1>7, <1>9, <1>10, <1>12, <1>13, <1>14

(* The cancelled caller was waiting; no instance moves.                    *)
LEMMA CancelWaitingKeeps ==
    ASSUME PoolTypeOK, PoolInv, NEW c \in Clients,
           CancelParked(c) \/ CancelWoken(c),
           UNCHANGED <<allInstances, initialized, shuttingDown, recycles, born,
                       closed, opener, closer, cursor>>
    PROVE  (PoolTypeOK /\ PoolInv)'
<1>1. UNCHANGED <<pool, held, lost>> /\ pc[c] \in {"parked", "woken"}
  BY DEF CancelParked, CancelWoken
<1>2. opener = "done"
  BY <1>1 DEF PoolInv, Unopened
<1>3. ASSUME /\ pc' \in [Clients -> Steps] /\ getters' \in Seq(Clients)
             /\ InLine'
             /\ Holders' = Holders
             /\ Cardinality(At({"closing"})') = Cardinality(At({"closing"}))
             /\ NoLostWakeup'
      PROVE  (PoolTypeOK /\ PoolInv)'
  <2>1. PoolTypeOK'
    BY <1>1, <1>3 DEF PoolTypeOK
  <2>2. Unopened' /\ Made' /\ Exclusive'
    BY <1>1, <1>2, <1>3 DEF PoolInv, Unopened, Made, Exclusive
  <2>3. Births' /\ Conserved'
    BY <1>1, <1>3 DEF PoolInv, Births, Conserved
  <2> QED
    BY <1>3, <2>1, <2>2, <2>3 DEF PoolInv
<1>4. "idle" \in Steps \ {"woken"} /\ "idle" \notin Holding /\ pc[c] \notin Holding
  BY <1>1 DEF Steps, Holding
<1>5. CASE CancelParked(c)
  <2>1. pc[c] = "parked" /\ pc' = [pc EXCEPT ![c] = "idle"] /\ getters' = Without(getters, c)
    BY <1>5 DEF CancelParked
  <2>2. /\ pc' \in [Clients -> Steps]
        /\ Holders' = Holders
        /\ Cardinality(At({"closing"})') = Cardinality(At({"closing"}))
        /\ Cardinality(At({"woken"})') = Cardinality(At({"woken"}))
    BY <1>4, <2>1, Tally
  <2>3. /\ getters' \in Seq(Clients) /\ NoTwice(getters')
        /\ Entries(getters') \subseteq Entries(getters) \ {c}
    BY <2>1, WithoutIs DEF PoolTypeOK, PoolInv, InLine
  <2>4. InLine'
    BY <2>1, <2>3, EntriesIn DEF PoolTypeOK, PoolInv, InLine
  <2>5. getters = <<>> => getters' = <<>>
    BY <2>1, EmptySeq DEF Without
  <2>6. NoLostWakeup'
    BY <1>1, <2>2, <2>5 DEF PoolInv, NoLostWakeup
  <2> QED
    BY <1>3, <2>2, <2>3, <2>4, <2>6
<1>6. CASE CancelWoken(c) /\ pool = {}
  <2>1. pc' = [pc EXCEPT ![c] = "idle"] /\ getters' = getters
    BY <1>6 DEF CancelWoken
  <2>2. pc[c] = "woken"
    BY <1>6 DEF CancelWoken
  <2>3. /\ pc' \in [Clients -> Steps]
        /\ Holders' = Holders
        /\ Cardinality(At({"closing"})') = Cardinality(At({"closing"}))
        /\ Cardinality(At({"woken"})') \in Nat
    BY <1>4, <2>1, <2>2, Tally
  <2>4. InLine'
    BY <2>1, <2>2, EntriesIn DEF PoolTypeOK, PoolInv, InLine
  <2>5. NoLostWakeup'
    BY <1>1, <1>6, <2>3, FS_EmptySet DEF NoLostWakeup
  <2> QED
    BY <1>3, <2>1, <2>3, <2>4, <2>5 DEF PoolTypeOK
<1>7. CASE CancelWoken(c) /\ pool # {}
  <2>1. pc[c] = "woken" /\ LeaveAndWake(c)
    BY <1>7 DEF CancelWoken
  <2>2. c \notin Holders /\ c \notin At({"closing"})
    BY <2>1 DEF Holders, At
  <2>3. /\ pc' \in [Clients -> Steps] /\ getters' \in Seq(Clients)
        /\ InLine'
        /\ Holders' = Holders \ {c}
        /\ At({"closing"})' = At({"closing"}) \ {c}
        /\ getters = <<>> => getters' = <<>>
        /\ getters # <<>> =>
              Cardinality(At({"woken"}))' = Cardinality(At({"woken"}))
    BY <2>1, Leaves DEF PoolInv
  <2>4. Holders' = Holders /\ At({"closing"})' = At({"closing"})
    BY <2>2, <2>3
  <2>5. Cardinality(At({"closing"})') = Cardinality(At({"closing"}))
    BY <2>4
  <2>6. NoLostWakeup'
    BY <1>1, <2>3 DEF PoolInv, NoLostWakeup
  <2> QED
    BY <1>3, <2>3, <2>4, <2>5, <2>6
<1> QED
  BY <1>5, <1>6, <1>7


(* initialize(): the pool fills up, and opens full.                        *)
LEMMA OpenKeeps ==
    ASSUME PoolTypeOK, PoolInv, OpenOne \/ OpenFails
    PROVE  (PoolTypeOK /\ PoolInv)'
<1>1. /\ opener = "idle" /\ closer = "idle" /\ lost = 0 /\ recycles = 0
      /\ born < PoolSize /\ pool = 1 .. born /\ ~initialized
      /\ \A c \in Clients : pc[c] = "idle"
  BY DEF OpenOne, OpenFails, PoolInv, Unopened
<1>2. UNCHANGED <<getters, recycles, closer, pc, held, lost>>
  BY DEF OpenOne, OpenFails
<1>3. Holders = {} /\ Holders' = {} /\ At({"closing"})' = {} /\ At({"woken"})' = At({"woken"})
  BY <1>1, <1>2 DEF Holders, At
<1>4. InLine'
  BY <1>2 DEF PoolInv, InLine
<1>5. \/ OpenFails
      \/ /\ born' = born + 1 /\ pool' = 1 .. (born + 1)
         /\ allInstances' \in Seq(Instances)
         /\ OpenOne
  <2>1. ASSUME OpenOne
        PROVE  /\ born' = born + 1 /\ pool' = 1 .. (born + 1)
               /\ allInstances' \in Seq(Instances)
    <3>1. born' = born + 1 /\ born \in Nat
      BY <2>1 DEF OpenOne, PoolTypeOK
    <3>2. born' \in Instances
      BY <1>1, <3>1, PoolSizeAssumption, RecyclesAssumption DEF Instances
    <3>3. allInstances' \in Seq(Instances)
      BY <2>1, <3>2, AppendIs DEF OpenOne, PoolTypeOK
    <3>4. pool' = 1 .. (born + 1)
      BY <1>1, <2>1, <3>1 DEF OpenOne
    <3> QED
      BY <3>1, <3>3, <3>4
  <2> QED
    BY <2>1
<1>6. PoolTypeOK'
  <2>1. CASE OpenFails
    BY <1>3, <2>1 DEF PoolTypeOK, OpenFails
  <2>2. CASE OpenOne
    <3>1. /\ born' = born + 1 /\ pool' = 1 .. (born + 1) /\ born \in Nat
          /\ allInstances' \in Seq(Instances)
      BY <1>5, <2>2 DEF PoolTypeOK, OpenFails, OpenOne
    <3>2. born' \in 0 .. (PoolSize + MaxRecycles) /\ pool' \subseteq Instances
      BY <1>1, <3>1, PoolSizeAssumption, RecyclesAssumption DEF Instances
    <3> QED
      BY <1>1, <1>2, <1>3, <2>2, <3>1, <3>2 DEF PoolTypeOK, OpenOne
  <2> QED
    BY <1>5, <2>1, <2>2
<1>7. Unopened' /\ Made' /\ Exclusive'
  BY <1>1, <1>2, <1>3, <1>5, PoolSizeAssumption
  DEF PoolTypeOK, Unopened, Made, Exclusive, OpenOne, OpenFails
<1>8. Births'
  <2>1. Cardinality(At({"closing"})') = 0
    BY <1>3, FS_EmptySet
  <2> QED
    BY <1>1, <1>2, <1>5, <2>1, PoolSizeAssumption
    DEF PoolTypeOK, Births, OpenOne, OpenFails
<1>9. Conserved'
  <2>1. CASE OpenFails
    BY <2>1 DEF Conserved, OpenFails
  <2>2. CASE OpenOne
    <3>1. born \in Nat /\ born' = born + 1 /\ pool' = 1 .. born'
      BY <1>5, <2>2 DEF PoolTypeOK, OpenFails, OpenOne
    <3>2. Cardinality(pool') = born + 1
      BY <3>1, FS_Interval
    <3>3. Cardinality(Holders') = 0
      BY <1>3, FS_EmptySet
    <3>4. opener' = "done" => born' = PoolSize
      BY <2>2 DEF OpenOne
    <3> QED
      BY <1>1, <1>2, <3>1, <3>2, <3>3, <3>4 DEF Conserved
  <2> QED
    BY <1>5, <2>1, <2>2
<1>10. NoLostWakeup'
  <2>1. getters = <<>>
    <3> SUFFICES ASSUME getters # <<>>
                 PROVE  FALSE
      OBVIOUS
    <3>1. Head(getters) \in Clients /\ pc[Head(getters)] = "parked"
      BY TailIs DEF PoolTypeOK, PoolInv, InLine
    <3> QED
      BY <1>1, <3>1
  <2> QED
    BY <1>2, <2>1 DEF NoLostWakeup
<1> QED
  BY <1>4, <1>6, <1>7, <1>8, <1>9, <1>10 DEF PoolInv

(* shutdown(): the callers stay where they are.                            *)
LEMMA ShutdownKeeps ==
    ASSUME PoolTypeOK, PoolInv, Shutdown \/ ShutdownOne \/ ShutdownEnds
    PROVE  (PoolTypeOK /\ PoolInv)'
<1>1. /\ UNCHANGED <<getters, recycles, born, opener, pc, held, lost>>
      /\ pool' \in {pool, {}} /\ initialized' \in {initialized, FALSE}
      /\ closer' # "done" => pool' = pool /\ closer # "done"
  BY DEF Shutdown, ShutdownOne, ShutdownEnds
<1>2. Holders' = Holders /\ \A steps : At(steps)' = At(steps)
  BY <1>1 DEF Holders, At
<1>3. opener = "done"
  <2>1. CASE Shutdown
    BY <2>1 DEF Shutdown, PoolInv, Unopened
  <2>2. CASE closer = "closing"
    BY <2>2 DEF PoolInv, Unopened
  <2> QED
    BY <2>1, <2>2 DEF ShutdownOne, ShutdownEnds
<1>4. PoolTypeOK'
  <2>1. CASE Shutdown
    BY <1>2, <2>1 DEF Shutdown, PoolTypeOK
  <2>2. CASE ShutdownOne
    <3>1. allInstances[cursor] \in Instances
      BY <2>2, ElementOfSeq DEF ShutdownOne, PoolTypeOK
    <3> QED
      BY <1>2, <2>2, <3>1 DEF ShutdownOne, PoolTypeOK
  <2>3. CASE ShutdownEnds
    BY <1>2, <2>3, EmptySeq DEF ShutdownEnds, PoolTypeOK
  <2> QED
    BY <2>1, <2>2, <2>3
<1>5. Unopened' /\ Made' /\ Exclusive'
  BY <1>1, <1>2, <1>3 DEF PoolInv, Unopened, Made, Exclusive
<1>6. InLine' /\ Births' /\ Conserved'
  BY <1>1, <1>2 DEF PoolInv, InLine, Births, Conserved
<1>7. NoLostWakeup'
  <2>1. Cardinality(pool') = Cardinality(pool) \/ Cardinality(pool') = 0
    BY <1>1, FS_EmptySet
  <2>2. Cardinality(At({"woken"})) \in Nat
    BY AtFinite
  <2> QED
    BY <1>1, <1>2, <2>1, <2>2 DEF PoolInv, NoLostWakeup
<1> QED
  BY <1>4, <1>5, <1>6, <1>7 DEF PoolInv


(* Every step of callers, initialize() and shutdown() keeps it.            *)
LEMMA PoolStep == PoolTypeOK /\ PoolInv /\ [PoolNext]_poolVars => (PoolTypeOK /\ PoolInv)'
<1> SUFFICES ASSUME PoolTypeOK, PoolInv, [PoolNext]_poolVars
             PROVE  (PoolTypeOK /\ PoolInv)'
  OBVIOUS
<1>1. CASE OpenOne \/ OpenFails
  BY <1>1, OpenKeeps
<1>2. ASSUME NEW c \in Clients, Checkout(c)
      PROVE  (PoolTypeOK /\ PoolInv)'
  <2>1. opener = "done" /\ pc[c] \in {"idle", "woken"} /\ UNCHANGED Others
    BY <1>2 DEF Checkout, PoolInv, Unopened, Others
  <2> QED
    BY <1>2, <2>1, TakeKeeps, ParkKeeps DEF Checkout
<1>3. ASSUME NEW c \in Clients, Resume(c)
      PROVE  (PoolTypeOK /\ PoolInv)'
  <2>1. opener = "done" /\ pc[c] \in {"idle", "woken"} /\ UNCHANGED Others
    BY <1>3 DEF Resume, PoolInv, Unopened, Others
  <2> QED
    BY <1>3, <2>1, TakeKeeps, ParkKeeps DEF Resume
<1>4. ASSUME NEW c \in Clients, Finish(c)
      PROVE  (PoolTypeOK /\ PoolInv)'
  BY <1>4, FinishKeeps DEF Finish, Others
<1>5. ASSUME NEW c \in Clients, ReturnHealthy(c)
      PROVE  (PoolTypeOK /\ PoolInv)'
  BY <1>5, PutBackKeeps DEF ReturnHealthy, PoolTypeOK
<1>6. ASSUME NEW c \in Clients, Recycle(c) \/ Replace(c)
      PROVE  (PoolTypeOK /\ PoolInv)'
  BY <1>6, RecycleKeeps, ReplaceKeeps
<1>7. ASSUME NEW c \in Clients, ReturnReplaced(c)
      PROVE  (PoolTypeOK /\ PoolInv)'
  <2>1. held[c] \in Instances
    BY <1>7 DEF ReturnReplaced, PoolTypeOK, Holders, At
  <2>2. allInstances' \in Seq(Instances)
    BY <1>7, <2>1, AppendIs DEF ReturnReplaced, PoolTypeOK
  <2> QED
    BY <1>7, <2>2, PutBackKeeps DEF ReturnReplaced
<1>8. ASSUME NEW c \in Clients, ReplaceFails(c)
      PROVE  (PoolTypeOK /\ PoolInv)'
  BY <1>8, GiveUpKeeps DEF ReplaceFails
<1>9. ASSUME NEW c \in Clients, Cancel(c)
      PROVE  (PoolTypeOK /\ PoolInv)'
  <2>1. CASE CancelParked(c) \/ CancelWoken(c)
    BY <1>9, <2>1, CancelWaitingKeeps DEF Cancel
  <2>2. CASE CancelUsing(c)
    BY <1>9, <2>2, FinishKeeps DEF Cancel, CancelUsing, Others
  <2>3. CASE CancelReturn(c)
    BY <1>9, <2>3, GiveUpKeeps DEF Cancel, CancelReturn
  <2> QED
    BY <1>9, <2>1, <2>2, <2>3 DEF Cancel
<1>10. CASE Shutdown \/ ShutdownOne \/ ShutdownEnds
  BY <1>10, ShutdownKeeps
<1>11. CASE UNCHANGED poolVars
  <2>1. Holders' = Holders /\ \A steps : At(steps)' = At(steps)
    BY <1>11 DEF poolVars, Holders, At
  <2>2. PoolTypeOK' /\ Unopened' /\ InLine' /\ Made' /\ Exclusive'
    BY <1>11, <2>1 DEF poolVars, PoolTypeOK, PoolInv, Unopened, InLine, Made, Exclusive
  <2>3. Births' /\ Conserved' /\ NoLostWakeup'
    BY <1>11, <2>1 DEF poolVars, PoolInv, Births, Conserved, NoLostWakeup
  <2> QED
    BY <2>2, <2>3 DEF PoolInv
<1> QED
  BY <1>1, <1>2, <1>3, <1>4, <1>5, <1>6, <1>7, <1>8, <1>9, <1>10, <1>11
  DEF PoolNext, ClientStep

-----------------------------------------------------------------------------
(* The inductive invariant holds in every state of the pool.               *)
THEOREM PoolCorrect == PoolSpec => [](PoolTypeOK /\ PoolInv)
  BY PoolInvInit, PoolStep, PTL DEF PoolSpec

(* Type correctness; a caller has an instance in hand exactly between its  *)
(* checkout and the end of its return.                                     *)
THEOREM PoolTypeCorrect == PoolSpec => []PoolTypeOK
  BY PoolCorrect, PTL

(* checkout(): no instance is with two callers, or idle and with a caller, *)
(* for any number of callers and cancellations.                            *)
THEOREM ExclusiveCorrect == PoolSpec => []Exclusive
<1>1. PoolTypeOK /\ PoolInv => Exclusive
  BY DEF PoolInv
<1> QED
  BY <1>1, PoolCorrect, PTL

(* The places of an open pool are idle, in hand, or given up by a return   *)
(* that did not come to its end.                                           *)
THEOREM ConservedCorrect == PoolSpec => []Conserved
<1>1. PoolTypeOK /\ PoolInv => Conserved
  BY DEF PoolInv
<1> QED
  BY <1>1, PoolCorrect, PTL

(* asyncio.Queue as checkout() uses it loses no wake-up.                   *)
THEOREM NoLostWakeupCorrect == PoolSpec => []NoLostWakeup
<1>1. PoolTypeOK /\ PoolInv => NoLostWakeup
  BY DEF PoolInv
<1> QED
  BY <1>1, PoolCorrect, PTL

-----------------------------------------------------------------------------
(* What shutdown() can reach.                                              *)

\* The instances that shutdown() has not closed and will not come by.
Unlisted == {i \in 1 .. born : i \notin closed /\ i \notin Entries(allInstances)}

\* The callers that wait for their replacement to be initialized.
Making == At({"creating"})

(* Instances outside the list are replacements being made, or were left by *)
(* a caller that was cancelled while it made one.                          *)
Listed ==
    closer # "done" =>
       /\ \A c \in Making : held[c] \in Unlisted
       /\ Cardinality(Unlisted) =< lost + Cardinality(Making)

Reach ==
    /\ closed \cup Entries(allInstances) \subseteq 1 .. born
    /\ Listed

(* Both sets can be counted.                                               *)
LEMMA ReachFinite ==
    ASSUME PoolTypeOK
    PROVE  /\ IsFiniteSet(Unlisted) /\ Cardinality(Unlisted) \in Nat
           /\ IsFiniteSet(Making) /\ Cardinality(Making) \in Nat
           /\ \A S \in SUBSET Unlisted : Cardinality(S) =< Cardinality(Unlisted)
<1>1. Unlisted \in SUBSET (1 .. born)
  BY DEF Unlisted
<1>2. IsFiniteSet(1 .. born)
  BY FS_Interval DEF PoolTypeOK
<1> QED
  BY <1>1, <1>2, AtFinite, FS_Subset, FS_CardinalityType DEF Making

(* A step at which nobody begins or ends a replacement, and which leaves   *)
(* those in the making unlisted.                                           *)
LEMMA MakingSame ==
    ASSUME PoolTypeOK, Listed, PoolTypeOK', closer' # "done" => closer # "done",
           Making' = Making, \A d \in Making : held'[d] = held[d],
           Unlisted' \subseteq Unlisted, \A d \in Making : held[d] \in Unlisted',
           lost' = lost
    PROVE  Listed'
<1>1. Cardinality(Unlisted') =< Cardinality(Unlisted)
  BY ReachFinite
<1>2. Cardinality(Unlisted') \in Nat
  BY ReachFinite, FS_Subset, FS_CardinalityType
<1>3. Cardinality(Making') = Cardinality(Making)
  OBVIOUS
<1> QED
  BY <1>1, <1>2, <1>3, ReachFinite DEF Listed, PoolTypeOK

(* A caller that leaves and wakes another is not making a replacement      *)
(* afterwards.                                                             *)
LEMMA LeavesMaking ==
    ASSUME PoolTypeOK, InLine, NEW c \in Clients, LeaveAndWake(c)
    PROVE  Making' = Making \ {c}
<1>1. getters # <<>> => Head(getters) \in Clients /\ pc[Head(getters)] = "parked"
  BY TailIs DEF PoolTypeOK, InLine
<1> QED
  BY <1>1 DEF LeaveAndWake, PoolTypeOK, Making, At

(* A caller that moves and makes no replacement before or after.           *)
LEMMA WalksMaking ==
    ASSUME PoolTypeOK, NEW c \in Clients, pc[c] # "creating",
           NEW to \in Steps \ {"creating"}, pc' = [pc EXCEPT ![c] = to]
    PROVE  Making' = Making /\ c \notin Making
  BY DEF Making, At, PoolTypeOK

(* The steps of callers that touch no list.                                *)
LEMMA WalkReach ==
    ASSUME PoolTypeOK, PoolInv, Reach, PoolTypeOK', NEW c \in Clients,
           \/ Checkout(c) \/ Resume(c) \/ Finish(c) \/ ReturnHealthy(c)
           \/ Cancel(c) /\ ~CancelReturn(c)
    PROVE  Reach'
<1>1. UNCHANGED <<allInstances, born, closed, closer, lost>>
  BY DEF Checkout, Resume, Finish, ReturnHealthy, Cancel, CancelParked, CancelWoken,
         CancelUsing
<1>2. Unlisted' = Unlisted
  BY <1>1 DEF Unlisted
<1>3. Making' = Making /\ c \notin Making
  <2>1. CASE ReturnHealthy(c) \/ (CancelWoken(c) /\ pool # {})
    <3>1. LeaveAndWake(c) /\ pc[c] # "creating"
      BY <2>1 DEF ReturnHealthy, PutBack, CancelWoken
    <3>2. Making' = Making \ {c}
      BY <3>1, LeavesMaking DEF PoolInv
    <3> QED
      BY <3>1, <3>2 DEF Making, At
  <2>2. CASE ~(ReturnHealthy(c) \/ (CancelWoken(c) /\ pool # {}))
    <3>1. \/ Checkout(c) \/ Resume(c) \/ Finish(c) \/ CancelParked(c) \/ CancelUsing(c)
          \/ CancelWoken(c) /\ pool = {}
      BY <2>2 DEF Cancel
    <3>2. pc[c] # "creating"
      BY <3>1 DEF Checkout, Resume, Finish, CancelParked, CancelWoken, CancelUsing
    <3>3. \/ pc' = [pc EXCEPT ![c] = "using"] \/ pc' = [pc EXCEPT ![c] = "parked"]
          \/ pc' = [pc EXCEPT ![c] = "checking"] \/ pc' = [pc EXCEPT ![c] = "idle"]
      BY <3>1 DEF Checkout, Resume, Take, Park, Finish, CancelParked, CancelWoken, CancelUsing
    <3> QED
      BY <3>2, <3>3, WalksMaking DEF Steps
  <2> QED
    BY <2>1, <2>2
<1>4. \A d \in Making : held'[d] = held[d]
  BY <1>3 DEF Checkout, Resume, Take, Park, Finish, ReturnHealthy, PutBack, Cancel,
              CancelParked, CancelWoken, CancelUsing, PoolTypeOK, Making, At
<1>5. Listed'
  BY <1>1, <1>2, <1>3, <1>4, ReachFinite DEF Reach, Listed
<1> QED
  BY <1>1, <1>5 DEF Reach

(* An unhealthy instance leaves the list and is closed.                    *)
LEMMA RecycleReach ==
    ASSUME PoolTypeOK, PoolInv, Reach, PoolTypeOK', NEW c \in Clients, Recycle(c)
    PROVE  Reach'
<1>1. /\ pc[c] = "checking" /\ pc' = [pc EXCEPT ![c] = "closing"]
      /\ allInstances' = Without(allInstances, held[c])
      /\ closed' = closed \cup {held[c]}
      /\ UNCHANGED <<born, held, closer, lost>>
  BY DEF Recycle
<1>2. Making' = Making /\ c \notin Making /\ c \in Holders /\ Making \subseteq Holders
  BY <1>1, WalksMaking DEF Steps, Making, Holders, At
<1>3. held[c] \in 1 .. born /\ \A d \in Making : held[d] # held[c]
  BY <1>2 DEF PoolInv, Made, Exclusive
<1>4. /\ Entries(allInstances') \subseteq Entries(allInstances)
      /\ Entries(allInstances) \subseteq Entries(allInstances') \cup {held[c]}
  BY <1>1, WithoutIs DEF PoolTypeOK
<1>5. /\ Unlisted' \subseteq Unlisted
      /\ \A i \in Unlisted : i # held[c] => i \in Unlisted'
  BY <1>1, <1>4 DEF Unlisted
<1>6. closed' \cup Entries(allInstances') \subseteq 1 .. born'
  BY <1>1, <1>3, <1>4 DEF Reach
<1>7. Listed'
  <2>1. CASE closer' = "done"
    BY <2>1 DEF Listed
  <2>2. CASE closer # "done"
    <3>1. \A d \in Making : held[d] \in Unlisted'
      BY <1>3, <1>5, <2>2 DEF Reach, Listed
    <3> QED
      BY <1>1, <1>2, <1>5, <3>1, MakingSame DEF Reach
  <2> QED
    BY <1>1, <2>1, <2>2
<1> QED
  BY <1>6, <1>7 DEF Reach

(* The factory makes a replacement: it is listed only when it is ready.    *)
LEMMA ReplaceReach ==
    ASSUME PoolTypeOK, PoolInv, Reach, PoolTypeOK', NEW c \in Clients, Replace(c)
    PROVE  Reach'
<1>1. /\ pc[c] = "closing" /\ pc' = [pc EXCEPT ![c] = "creating"]
      /\ born' = born + 1 /\ held' = [held EXCEPT ![c] = born + 1]
      /\ UNCHANGED <<allInstances, closed, closer, lost>>
  BY DEF Replace
<1>2. Making' = Making \cup {c} /\ c \notin Making
  BY <1>1 DEF Making, At, PoolTypeOK
<1>3. born \in Nat /\ born + 1 \notin closed \cup Entries(allInstances)
  BY DEF PoolTypeOK, Reach
<1>4. Unlisted' = Unlisted \cup {born + 1} /\ born + 1 \notin Unlisted
  BY <1>1, <1>3 DEF Unlisted
<1>5. \A d \in Making : held'[d] = held[d]
  BY <1>1, <1>2 DEF PoolTypeOK, Making, At
<1>6. held'[c] = born + 1
  BY <1>1 DEF PoolTypeOK
<1>7. Cardinality(Unlisted') = Cardinality(Unlisted) + 1
  BY <1>4, ReachFinite, OneMore
<1>8. Cardinality(Making') = Cardinality(Making) + 1
  BY <1>2, ReachFinite, OneMore
<1>9. Listed'
  BY <1>1, <1>2, <1>4, <1>5, <1>6, <1>7, <1>8, ReachFinite DEF Reach, Listed, PoolTypeOK
<1>10. closed' \cup Entries(allInstances') \subseteq 1 .. born'
  BY <1>1, <1>3 DEF Reach
<1> QED
  BY <1>9, <1>10 DEF Reach

(* The replacement is ready and listed.                                    *)
LEMMA ReturnReach ==
    ASSUME PoolTypeOK, PoolInv, Reach, PoolTypeOK', NEW c \in Clients, ReturnReplaced(c)
    PROVE  Reach'
<1>1. /\ pc[c] = "creating" /\ LeaveAndWake(c)
      /\ held' = [held EXCEPT ![c] = NoInstance]
      /\ allInstances' = Append(allInstances, held[c])
      /\ UNCHANGED <<born, closed, closer, lost>>
  BY DEF ReturnReplaced, PutBack
<1>2. Making' = Making \ {c} /\ c \in Making /\ Making \subseteq Holders
  BY <1>1, LeavesMaking DEF PoolInv, Making, Holders, At
<1>3. held[c] \in 1 .. born /\ \A d \in Making : held[d] = held[c] => d = c
  BY <1>2 DEF PoolInv, Made, Exclusive
<1>4. held[c] \in Instances
  BY <1>2 DEF PoolTypeOK
<1>5. Entries(allInstances') = Entries(allInstances) \cup {held[c]}
  BY <1>1, <1>4, AppendIs DEF PoolTypeOK
<1>6. Unlisted' = Unlisted \ {held[c]}
  BY <1>1, <1>5 DEF Unlisted
<1>7. \A d \in Making' : held'[d] = held[d]
  BY <1>1, <1>2 DEF PoolTypeOK, Making, At
<1>8. Cardinality(Making') = Cardinality(Making) - 1
  BY <1>2, ReachFinite, OneMore
<1>9. held[c] \in Unlisted => Cardinality(Unlisted') = Cardinality(Unlisted) - 1
  BY <1>6, ReachFinite, OneMore
<1>10. Listed'
  BY <1>1, <1>2, <1>3, <1>6, <1>7, <1>8, <1>9, ReachFinite DEF Reach, Listed, PoolTypeOK
<1>11. closed' \cup Entries(allInstances') \subseteq 1 .. born'
  BY <1>1, <1>3, <1>5 DEF Reach
<1> QED
  BY <1>10, <1>11 DEF Reach

(* A failed recycling or a cancelled return leaves at most the replacement *)
(* it was making.                                                          *)
LEMMA GiveUpReach ==
    ASSUME PoolTypeOK, PoolInv, Reach, PoolTypeOK', NEW c \in Clients,
           ReplaceFails(c) \/ (Cancel(c) /\ CancelReturn(c))
    PROVE  Reach'
<1>1. /\ pc' = [pc EXCEPT ![c] = "idle"] /\ held' = [held EXCEPT ![c] = NoInstance]
      /\ lost' = lost + 1
      /\ UNCHANGED <<allInstances, born, closed, closer>>
  BY DEF ReplaceFails, Cancel, CancelReturn
<1>2. Making' = Making \ {c}
  BY <1>1 DEF Making, At, PoolTypeOK
<1>3. Unlisted' = Unlisted
  BY <1>1 DEF Unlisted
<1>4. \A d \in Making' : held'[d] = held[d]
  BY <1>1, <1>2 DEF PoolTypeOK, Making, At
<1>5. Cardinality(Making') \in {Cardinality(Making), Cardinality(Making) - 1}
  BY <1>2, ReachFinite, OneMore
<1>6. Listed'
  BY <1>1, <1>2, <1>3, <1>4, <1>5, ReachFinite DEF Reach, Listed, PoolTypeOK
<1> QED
  BY <1>1, <1>6 DEF Reach

(* initialize() lists what it makes; shutdown() closes what is listed.     *)
LEMMA ControlReach ==
    ASSUME PoolTypeOK, PoolInv, Reach, PoolTypeOK',
           \/ OpenOne \/ OpenFails \/ Shutdown \/ ShutdownOne \/ ShutdownEnds
    PROVE  Reach'
<1>1. UNCHANGED <<pc, held, lost>>
  BY DEF OpenOne, OpenFails, Shutdown, ShutdownOne, ShutdownEnds
<1>2. Making' = Making
  BY <1>1 DEF Making, At
<1>3. CASE OpenOne
  <2>1. /\ born' = born + 1 /\ allInstances' = Append(allInstances, born + 1)
        /\ UNCHANGED <<closed, closer>>
    BY <1>3 DEF OpenOne
  <2>2. born \in Nat /\ born + 1 \in Instances
    BY <2>1 DEF PoolTypeOK, Instances
  <2>3. Entries(allInstances') = Entries(allInstances) \cup {born + 1}
    BY <2>1, <2>2, AppendIs DEF PoolTypeOK
  <2>4. Unlisted' = Unlisted
    BY <2>1, <2>2, <2>3 DEF Unlisted
  <2>5. Listed'
    BY <1>1, <1>2, <2>1, <2>4 DEF Reach, Listed
  <2>6. closed' \cup Entries(allInstances') \subseteq 1 .. born'
    BY <2>1, <2>2, <2>3 DEF Reach
  <2> QED
    BY <2>5, <2>6 DEF Reach
<1>4. CASE OpenFails \/ Shutdown
  <2>1. UNCHANGED <<allInstances, born, closed>> /\ (closer' # "done" => closer # "done")
    BY <1>4 DEF OpenFails, Shutdown
  <2>2. Unlisted' = Unlisted
    BY <2>1 DEF Unlisted
  <2> QED
    BY <1>1, <1>2, <2>1, <2>2 DEF Reach, Listed
<1>5. CASE ShutdownOne
  <2>1. /\ closed' = closed \cup {allInstances[cursor]}
        /\ cursor \in 1 .. Len(allInstances)
        /\ UNCHANGED <<allInstances, born, closer>>
    BY <1>5 DEF ShutdownOne, PoolTypeOK
  <2>2. allInstances[cursor] \in Entries(allInstances)
    BY <2>1 DEF Entries
  <2>3. Unlisted' = Unlisted
    BY <2>1, <2>2 DEF Unlisted
  <2> QED
    BY <1>1, <1>2, <2>1, <2>2, <2>3 DEF Reach, Listed
<1>6. CASE ShutdownEnds
  <2>1. closer' = "done" /\ allInstances' = <<>> /\ UNCHANGED <<born, closed>>
    BY <1>6 DEF ShutdownEnds
  <2>2. Entries(allInstances') = {}
    BY <2>1 DEF Entries
  <2> QED
    BY <2>1, <2>2 DEF Reach, Listed
<1> QED
  BY <1>3, <1>4, <1>5, <1>6

(* Nothing is made yet.                                                    *)
LEMMA ReachInit == PoolInit => Reach
<1> SUFFICES ASSUME PoolInit
             PROVE  Reach
  OBVIOUS
<1>1. Entries(allInstances) = {} /\ closed = {}
  BY DEF PoolInit, Entries
<1>2. Unlisted = {} /\ Making = {} /\ lost = 0
  BY DEF PoolInit, Unlisted, Making, At
<1> QED
  BY <1>1, <1>2, FS_EmptySet DEF Reach, Listed

(* Every step of the pool keeps what its shutdown() can reach.             *)
LEMMA ReachStep ==
    PoolTypeOK /\ PoolInv /\ Reach /\ [PoolNext]_poolVars => Reach'
<1> SUFFICES ASSUME PoolTypeOK, PoolInv, Reach, [PoolNext]_poolVars
             PROVE  Reach'
  OBVIOUS
<1>1. PoolTypeOK'
  BY PoolStep
<1>2. ASSUME NEW c \in Clients, Checkout(c) \/ ClientStep(c) \/ Cancel(c)
      PROVE  Reach'
  <2>1. CASE \/ Checkout(c) \/ Resume(c) \/ Finish(c) \/ ReturnHealthy(c)
             \/ Cancel(c) /\ ~CancelReturn(c)
    BY <1>1, <2>1, WalkReach
  <2>2. CASE ReplaceFails(c) \/ (Cancel(c) /\ CancelReturn(c))
    BY <1>1, <2>2, GiveUpReach
  <2>3. CASE Recycle(c)
    BY <1>1, <2>3, RecycleReach
  <2>4. CASE Replace(c)
    BY <1>1, <2>4, ReplaceReach
  <2>5. CASE ReturnReplaced(c)
    BY <1>1, <2>5, ReturnReach
  <2> QED
    BY <1>2, <2>1, <2>2, <2>3, <2>4, <2>5 DEF ClientStep
<1>3. CASE UNCHANGED poolVars
  <2>1. Unlisted' = Unlisted /\ Making' = Making
    BY <1>3 DEF poolVars, Unlisted, Making, At
  <2> QED
    BY <1>3, <2>1 DEF poolVars, Reach, Listed
<1> QED
  BY <1>1, <1>2, <1>3, ControlReach DEF PoolNext

(* Until shutdown() is through, what it will not come by are replacements  *)
(* in the making and no more instances than places were lost.              *)
THEOREM ReachCorrect == PoolSpec => []Reach
  BY PoolInvInit, PoolStep, ReachInit, ReachStep, PTL DEF PoolSpec

-----------------------------------------------------------------------------
(* Who is on the list.                                                     *)

\* The callers that have not begun to recycle what they have in hand.
Lent == At({"using", "checking"})

(* Whatever is idle or lent is on _all_instances, once, and until shutdown *)
(* begins nothing on it is closed.                                         *)
Roster ==
    /\ closer # "done" =>
          /\ NoTwice(allInstances)
          /\ pool \subseteq Entries(allInstances)
          /\ \A c \in Lent : held[c] \in Entries(allInstances)
    /\ closer = "idle" => Entries(allInstances) \cap closed = {}

(* A new name on the list.                                                 *)
LEMMA JoinsRoster ==
    ASSUME PoolTypeOK, Reach, Roster, closer # "done",
           NEW i \in Instances, i \in 1 .. born', i \notin Entries(allInstances), i \notin closed,
           allInstances' = Append(allInstances, i), pool' = pool \cup {i},
           UNCHANGED <<closed, closer>>,
           \A d \in Lent' : d \in Lent /\ held'[d] = held[d]
    PROVE  Roster'
<1>1. /\ Entries(allInstances') = Entries(allInstances) \cup {i}
      /\ NoTwice(allInstances')
  BY AppendIs DEF PoolTypeOK, Roster
<1> QED
  BY <1>1 DEF Roster

(* A caller gets, holds, gives back or loses an instance of the list.      *)
LEMMA WalkRoster ==
    ASSUME PoolTypeOK, PoolInv, Roster, NEW c \in Clients,
           \/ Checkout(c) \/ Resume(c) \/ Finish(c) \/ ReturnHealthy(c)
           \/ Replace(c) \/ ReplaceFails(c) \/ Cancel(c)
    PROVE  Roster'
<1>1. UNCHANGED <<allInstances, closed, closer>>
  BY DEF Checkout, Resume, Finish, ReturnHealthy, Replace, ReplaceFails, Cancel
<1>2. CASE Checkout(c) \/ Resume(c)
  BY <1>1, <1>2 DEF Checkout, Resume, Take, Park, PoolTypeOK, Roster, Lent, At
<1>3. CASE Finish(c) \/ (Cancel(c) /\ ~CancelWoken(c))
  BY <1>1, <1>3 DEF Finish, Cancel, CancelParked, CancelUsing, CancelReturn, PoolTypeOK,
     Roster, Lent, At
<1>4. CASE ReturnHealthy(c) \/ (Cancel(c) /\ CancelWoken(c))
  <2>1. getters # <<>> => Head(getters) \in Clients /\ pc[Head(getters)] = "parked"
    BY TailIs DEF PoolTypeOK, PoolInv, InLine
  <2>2. \A d \in Lent' : d \in Lent /\ d # c
    BY <1>4, <2>1 DEF ReturnHealthy, PutBack, Cancel, CancelWoken, LeaveAndWake, PoolTypeOK, Lent, At
  <2>3. \A d \in Lent' : held'[d] = held[d]
    BY <1>4, <2>2 DEF ReturnHealthy, PutBack, Cancel, CancelWoken, PoolTypeOK, Lent, At
  <2>4. pool' = pool \/ (pool' = pool \cup {held[c]} /\ c \in Lent)
    BY <1>4 DEF ReturnHealthy, PutBack, Cancel, CancelWoken, Lent, At
  <2> QED
    BY <1>1, <2>2, <2>3, <2>4 DEF Roster
<1>5. CASE Replace(c) \/ ReplaceFails(c)
  BY <1>1, <1>5 DEF Replace, ReplaceFails, PoolTypeOK, Roster, Lent, At
<1> QED
  BY <1>2, <1>3, <1>4, <1>5

(* An unhealthy instance leaves the list, for good.                        *)
LEMMA RecycleRoster ==
    ASSUME PoolTypeOK, PoolInv, Roster, NEW c \in Clients, Recycle(c)
    PROVE  Roster'
<1>1. /\ pc[c] = "checking" /\ pc' = [pc EXCEPT ![c] = "closing"]
      /\ allInstances' = Without(allInstances, held[c])
      /\ closed' = closed \cup {held[c]}
      /\ UNCHANGED <<pool, held, closer>>
  BY DEF Recycle
<1>2. c \in Holders /\ Lent \subseteq Holders
  BY <1>1 DEF Holders, Lent, At
<1>3. /\ held[c] \notin pool
      /\ \A d \in Lent' : d \in Lent /\ held[d] # held[c]
  BY <1>1, <1>2 DEF PoolInv, Exclusive, PoolTypeOK, Lent, At
<1>4. /\ Entries(allInstances') \subseteq Entries(allInstances)
      /\ Entries(allInstances) \subseteq Entries(allInstances') \cup {held[c]}
      /\ NoTwice(allInstances) => /\ NoTwice(allInstances')
                                  /\ held[c] \notin Entries(allInstances')
  BY <1>1, WithoutIs DEF PoolTypeOK
<1> QED
  BY <1>1, <1>3, <1>4 DEF Roster

(* The replacement joins the list.                                         *)
LEMMA ReturnRoster ==
    ASSUME PoolTypeOK, PoolInv, Reach, Roster, NEW c \in Clients, ReturnReplaced(c)
    PROVE  Roster'
<1>1. /\ pc[c] = "creating" /\ LeaveAndWake(c)
      /\ pool' = pool \cup {held[c]}
      /\ held' = [held EXCEPT ![c] = NoInstance]
      /\ allInstances' = Append(allInstances, held[c])
      /\ UNCHANGED <<born, closed, closer>>
  BY DEF ReturnReplaced, PutBack
<1>2. CASE closer = "done"
  BY <1>1, <1>2 DEF Roster
<1>3. CASE closer # "done"
  <2>1. c \in Making /\ c \in Holders
    BY <1>1 DEF Making, Holders, At
  <2>2. held[c] \in Unlisted /\ held[c] \in Instances
    BY <1>3, <2>1 DEF Reach, Listed, PoolTypeOK
  <2>3. getters # <<>> => Head(getters) \in Clients /\ pc[Head(getters)] = "parked"
    BY TailIs DEF PoolTypeOK, PoolInv, InLine
  <2>4. \A d \in Lent' : d \in Lent /\ held'[d] = held[d]
    BY <1>1, <2>3 DEF LeaveAndWake, PoolTypeOK, Lent, At
  <2> QED
    BY <1>1, <1>3, <2>2, <2>4, JoinsRoster DEF Unlisted
<1> QED
  BY <1>2, <1>3

(* initialize() and shutdown().                                            *)
LEMMA ControlRoster ==
    ASSUME PoolTypeOK, PoolInv, Reach, Roster, PoolTypeOK',
           \/ OpenOne \/ OpenFails \/ Shutdown \/ ShutdownOne \/ ShutdownEnds
    PROVE  Roster'
<1>1. Lent' = Lent /\ held' = held
  BY DEF OpenOne, OpenFails, Shutdown, ShutdownOne, ShutdownEnds, Lent, At
<1>2. CASE OpenOne
  <2>1. /\ born' = born + 1 /\ allInstances' = Append(allInstances, born + 1)
        /\ pool' = pool \cup {born + 1}
        /\ closer = "idle" /\ UNCHANGED <<closed, closer>>
    BY <1>2 DEF OpenOne, PoolInv, Unopened
  <2>2. born \in Nat /\ born + 1 \in Instances /\ born + 1 \in 1 .. born'
    BY <2>1 DEF PoolTypeOK, Instances
  <2>3. born + 1 \notin Entries(allInstances) /\ born + 1 \notin closed
    BY <2>2 DEF Reach
  <2> QED
    BY <1>1, <2>1, <2>2, <2>3, JoinsRoster
<1>3. CASE OpenFails \/ Shutdown \/ ShutdownOne
  BY <1>1, <1>3 DEF OpenFails, Shutdown, ShutdownOne, Roster
<1>4. CASE ShutdownEnds
  BY <1>4 DEF ShutdownEnds, Roster
<1> QED
  BY <1>2, <1>3, <1>4

(* The list is empty, like everything else.                                *)
LEMMA RosterInit == PoolInit => Roster
<1> SUFFICES ASSUME PoolInit
             PROVE  Roster
  OBVIOUS
<1>1. Entries(allInstances) = {} /\ NoTwice(allInstances) /\ pool = {} /\ Lent = {}
  BY DEF PoolInit, Entries, NoTwice, Lent, At
<1> QED
  BY <1>1 DEF Roster

(* Every step of the pool keeps the list right.                            *)
LEMMA RosterStep ==
    PoolTypeOK /\ PoolInv /\ Reach /\ Roster /\ [PoolNext]_poolVars => Roster'
<1> SUFFICES ASSUME PoolTypeOK, PoolInv, Reach, Roster, [PoolNext]_poolVars
             PROVE  Roster'
  OBVIOUS
<1>1. PoolTypeOK'
  BY PoolStep
<1>2. ASSUME NEW c \in Clients, Checkout(c) \/ ClientStep(c) \/ Cancel(c)
      PROVE  Roster'
  BY <1>2, WalkRoster, RecycleRoster, ReturnRoster DEF ClientStep
<1>3. CASE UNCHANGED poolVars
  BY <1>3 DEF poolVars, Roster, Lent, At
<1> QED
  BY <1>1, <1>2, <1>3, ControlRoster DEF PoolNext

(* Until shutdown begins nobody gets, or has in hand to use, an instance   *)
(* whose shutdown() was called, and _recycle_instance() closes none twice: *)
(* what it has closed never comes back (checkout(), lines 186-200).        *)
THEOREM RosterCorrect == PoolSpec => []Roster
  BY PoolInvInit, PoolStep, ReachInit, ReachStep, RosterInit, RosterStep, PTL DEF PoolSpec

=============================================================================
