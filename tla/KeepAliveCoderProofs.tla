------------------------ MODULE KeepAliveCoderProofs ------------------------
(* Proofs about two components that stand alone: the keep-alive of a        *)
(* mailbox, for every interval, jitter and delay; and the coder, which      *)
(* reads back what it wrote for arrays of any depth, with its growing       *)
(* buffer, for every initial size, word and sequence of writes.             *)
EXTENDS KeepAlive, Coder, FiniteSetTheorems, SequenceTheorems, TLAPS

-----------------------------------------------------------------------------
(* THE KEEP-ALIVE *)


(* What holds of a check that is still to come and of a ping that waits.    *)
Timing ==
    /\ now > 0 /\ (~closed => now <= nextCheck + Jitter)
    /\ nextCheck <= now + Keepalive
    /\ lastPing <= now /\ lastPong <= now
    /\ lastPing >= 0 => lastPing > 0
    /\ alive /\ Awaiting => owed
    /\ owed => Awaiting \/ closed \/ lastPong = lastPing
    /\ owed /\ ~closed => now <= lastPing + Delay
    /\ Awaiting => nextCheck <= lastPing + 3 * Keepalive

(* What holds once the peer has died: which part of DetectionBound runs.    *)
Dying ==
    ~alive =>
       /\ diedAt <= now /\ lastPong <= diedAt + Delay
       /\ ~closed /\ owed => lastPing <= diedAt
       /\ ~closed /\ ~Awaiting => nextCheck <= diedAt + Delay + Keepalive
       /\ Awaiting => lastPing <= diedAt + Delay + Keepalive + Jitter

(* When the connection has been given up although the peer was alive, it    *)
(* took longer than Delay to answer, and Delay was longer than the timeout. *)
Justified == closed /\ alive => Delay > 2 * Keepalive

IInv == TypeOK /\ Timing /\ Dying /\ Justified

LEMMA Params == /\ Keepalive \in Nat /\ Keepalive >= 1
                /\ Jitter \in Nat /\ Delay \in Nat
  BY KeepaliveAssumption, EnvAssumption DEF KeepaliveAssumption, EnvAssumption

LEMMA InitInv == Init => IInv
<1> SUFFICES ASSUME Init PROVE IInv
  OBVIOUS
<1> USE Params DEF Init
<1>1. TypeOK
  <2>1. now \in Nat /\ nextCheck \in Nat /\ diedAt \in Nat
    OBVIOUS
  <2>2. lastPing \in Nat \cup {-1} /\ lastPong \in Nat \cup {-1}
    OBVIOUS
  <2> QED
    BY <2>1, <2>2 DEF TypeOK
<1>2. Timing
  BY DEF Timing, Awaiting
<1>3. Dying /\ Justified
  BY DEF Dying, Justified
<1> QED
  BY <1>1, <1>2, <1>3 DEF IInv

LEMMA StepInv == IInv /\ [Next]_vars => IInv'
<1> SUFFICES ASSUME IInv, [Next]_vars PROVE IInv'
  OBVIOUS
<1> USE Params DEF IInv, TypeOK
<1>1. CASE CheckPings
  <2>1. TypeOK'
    BY <1>1 DEF CheckPings, Due
  <2>2. Timing'
    BY <1>1 DEF CheckPings, Due, Timing, Awaiting
  <2>3. Dying'
    BY <1>1 DEF CheckPings, Due, Timing, Dying, Awaiting
  <2>4. Justified'
    BY <1>1 DEF CheckPings, Due, Timing, Justified, Awaiting
  <2> QED
    BY <2>1, <2>2, <2>3, <2>4
<1>2. CASE CheckWaits
  <2>1. TypeOK'
    BY <1>2 DEF CheckWaits, Due, KEEP_ALIVE_TIMEOUT
  <2>2. Timing'
    BY <1>2 DEF CheckWaits, Due, KEEP_ALIVE_TIMEOUT, Timing, Awaiting
  <2>3. Dying'
    BY <1>2 DEF CheckWaits, Due, KEEP_ALIVE_TIMEOUT, Timing, Dying, Awaiting
  <2>4. Justified'
    BY <1>2 DEF CheckWaits, Due, KEEP_ALIVE_TIMEOUT, Timing, Justified, Awaiting
  <2> QED
    BY <2>1, <2>2, <2>3, <2>4
<1>3. CASE CheckCloses
  <2>1. TypeOK'
    BY <1>3 DEF CheckCloses, Due, KEEP_ALIVE_TIMEOUT
  <2>2. Timing'
    BY <1>3 DEF CheckCloses, Due, KEEP_ALIVE_TIMEOUT, Timing, Awaiting
  <2>3. Dying'
    BY <1>3 DEF CheckCloses, Due, KEEP_ALIVE_TIMEOUT, Timing, Dying, Awaiting
  <2>4. Justified'
    BY <1>3 DEF CheckCloses, Due, KEEP_ALIVE_TIMEOUT, Timing, Justified, Awaiting
  <2> QED
    BY <2>1, <2>2, <2>3, <2>4
<1>4. CASE Pingresp
  <2>1. TypeOK'
    BY <1>4 DEF Pingresp
  <2>2. Timing'
    BY <1>4 DEF Pingresp, Timing, Awaiting
  <2>3. Dying'
    BY <1>4 DEF Pingresp, Timing, Dying, Awaiting
  <2>4. Justified'
    BY <1>4 DEF Pingresp, Timing, Justified, Awaiting
  <2> QED
    BY <2>1, <2>2, <2>3, <2>4
<1>5. CASE PeerDies
  <2>1. TypeOK'
    BY <1>5 DEF PeerDies
  <2>2. Timing'
    <3>1. owed' => owed
      BY <1>5 DEF PeerDies
    <3>2. alive' = FALSE
      BY <1>5 DEF PeerDies
    <3> HIDE DEF TypeOK
    <3> QED
      BY <1>5, <3>1, <3>2, Zenon DEF PeerDies, Timing, Awaiting
  <2>3. Dying'
    BY <1>5 DEF PeerDies, Timing, Dying, Awaiting
  <2>4. Justified'
    BY <1>5 DEF PeerDies, Timing, Justified, Awaiting
  <2> QED
    BY <2>1, <2>2, <2>3, <2>4
<1>6. CASE Tick
  <2>1. TypeOK'
    BY <1>6 DEF Tick
  <2>2. Timing'
    BY <1>6 DEF Tick, Timing, Awaiting
  <2>3. Dying'
    BY <1>6 DEF Tick, Timing, Dying, Awaiting
  <2>4. Justified'
    BY <1>6 DEF Tick, Timing, Justified, Awaiting
  <2> QED
    BY <2>1, <2>2, <2>3, <2>4
<1>7. CASE UNCHANGED vars
  <2>1. TypeOK'
    BY <1>7 DEF vars
  <2>2. Timing'
    BY <1>7 DEF vars, Timing, Awaiting
  <2>3. Dying'
    BY <1>7 DEF vars, Timing, Dying, Awaiting
  <2>4. Justified'
    BY <1>7 DEF vars, Timing, Justified, Awaiting
  <2> QED
    BY <2>1, <2>2, <2>3, <2>4
<1> QED
  BY <1>1, <1>2, <1>3, <1>4, <1>5, <1>6, <1>7 DEF Next

(* A peer that answers within the timeout is never given up: NoFalseAlarm   *)
(* (mqtt-mailbox.ts:257-268) for every interval, jitter and delay.          *)
THEOREM FalseAlarms == Spec => []NoFalseAlarm
<1>1. IInv => NoFalseAlarm
  BY Params DEF IInv, TypeOK, Justified, NoFalseAlarm
<1> QED
  BY InitInv, StepInv, <1>1, PTL DEF Spec

(* A dead peer is found out within DetectionBound: DetectedInTime for every *)
(* interval, jitter and delay.                                              *)
THEOREM Detection == Spec => []DetectedInTime
<1>1. IInv => DetectedInTime
  BY Params
  DEF IInv, TypeOK, Timing, Dying, Awaiting, DetectedInTime, DetectionBound
<1> QED
  BY InitInv, StepInv, <1>1, PTL DEF Spec

-----------------------------------------------------------------------------
(* THE OUTPUT BUFFER *)


BufIInv ==
    /\ count \in Nat /\ capacity \in Int /\ high \in Nat
    /\ high = count
    /\ count <= capacity

(* A shift that overflows still yields an integer. *)
LEMMA ShiftIsInt == ASSUME NEW x \in Int PROVE ShiftLeft(x) \in Int
<1>1. (2 * x) % Word \in Int
  BY WordAssumption DEF WordAssumption
<1> QED
  BY <1>1, WordAssumption DEF ShiftLeft, WordAssumption

(* What grow returns holds what is asked for (outputBuffer.ts:203-222). *)
LEMMA GrownIsEnough ==
    ASSUME NEW old \in Int, NEW min \in Nat
    PROVE  Grown(old, min) \in Int /\ Grown(old, min) >= min
<1>1. ShiftLeft(old) \in Int
  BY ShiftIsInt
<1> QED
  BY <1>1 DEF Grown

LEMMA BufInitInv == BufInit => BufIInv
  BY SizesAssumption DEF BufInit, BufIInv, SizesAssumption

LEMMA BufStepInv == BufIInv /\ [BufNext]_bufVars => BufIInv'
<1> SUFFICES ASSUME BufIInv, [BufNext]_bufVars PROVE BufIInv'
  OBVIOUS
<1>1. ASSUME NEW len \in 1..MaxCount, Put(len) PROVE BufIInv'
  <2>1. len \in Nat /\ count + len \in Nat
    BY BoundAssumption DEF BufIInv, BoundAssumption
  <2>2. high' = count + len /\ count' = count + len
    BY <1>1 DEF Put
  <2>3. CASE count + len > capacity
    <3>1. capacity' = Grown(capacity, count + len)
      BY <1>1, <2>3 DEF Put, EnsureCapacity
    <3> QED
      BY <2>1, <2>2, <3>1, GrownIsEnough DEF BufIInv
  <2>4. CASE ~(count + len > capacity)
    <3>1. capacity' = capacity
      BY <1>1, <2>4 DEF Put, EnsureCapacity
    <3> QED
      BY <2>1, <2>2, <2>4, <3>1 DEF BufIInv
  <2> QED
    BY <2>3, <2>4
<1>2. CASE UNCHANGED bufVars
  BY <1>2 DEF BufIInv, bufVars
<1> QED
  BY <1>1, <1>2 DEF BufNext

(* No write ends behind the buffer, whatever the sizes and wherever the      *)
(* doubling overflows: Fits, for every Sizes and every Word.                 *)
THEOREM WritesFit == BufSpec => []Fits
<1>1. BufIInv => Fits
  BY DEF BufIInv, Fits
<1> QED
  BY BufInitInv, BufStepInv, <1>1, PTL DEF BufSpec

-----------------------------------------------------------------------------
(* THE CODER *)

(* Induction over the natural numbers, stated about sets of them. *)
LEMMA LeastNumber ==
    ASSUME NEW X \in SUBSET Nat, X # {}
    PROVE  \E m \in X : \A k \in X : m <= k
<1> DEFINE T == {0..x : x \in X}
           R == StrictSubsetOrdering(Nat)
           S == FiniteSubsetsOf(Nat)
<1>1. IsWellFoundedOn(R, S)
  BY FS_StrictSubsetOrderingWellFounded
<1>2. T \subseteq S
  <2> SUFFICES ASSUME NEW x \in X PROVE 0..x \in S
    OBVIOUS
  <2>1. IsFiniteSet(0..x)
    BY FS_Interval
  <2> QED
    BY <2>1 DEF FiniteSubsetsOf
<1>3. T # {}
  OBVIOUS
<1> HIDE DEF T, R, S
<1>4. PICK t \in T : \A u \in T : <<u, t>> \notin R
  BY <1>1, <1>2, <1>3, WFMin
<1>5. PICK m \in X : t = 0..m
  BY <1>4 DEF T
<1>6. ASSUME NEW k \in X, k < m PROVE FALSE
  <2>1. 0..k \in T /\ 0..k \subseteq 0..m /\ 0..k # 0..m /\ 0..k \in SUBSET Nat /\ 0..m \in SUBSET Nat
    <3>1. m \in 0..m /\ m \notin 0..k
      BY <1>6
    <3>2. 0..k \subseteq 0..m /\ 0..k \in SUBSET Nat /\ 0..m \in SUBSET Nat
      BY <1>6
    <3> QED
      BY <3>1, <3>2 DEF T
  <2>2. <<0..k, 0..m>> \in R
    BY <2>1 DEF R, StrictSubsetOrdering
  <2> QED
    BY <1>4, <1>5, <2>1, <2>2
<1> QED
  BY <1>6

LEMMA Induction ==
    ASSUME NEW X, 0 \in X, \A k \in Nat : k \in X => k + 1 \in X
    PROVE  Nat \subseteq X
<1> SUFFICES ASSUME Nat \ X # {} PROVE FALSE
  OBVIOUS
<1>1. PICK m \in Nat \ X : \A k \in Nat \ X : m <= k
  <2>1. Nat \ X \in SUBSET Nat
    OBVIOUS
  <2> QED
    BY <2>1, LeastNumber
<1>2. m # 0 /\ m - 1 \in Nat /\ (m - 1) + 1 = m
  BY <1>1
<1>3. m - 1 \in X
  BY <1>1, <1>2
<1> QED
  BY <1>1, <1>2, <1>3

-----------------------------------------------------------------------------
(* A field is written in one or more bytes, but for the one that throws.     *)
Sorts  == LeafTypes \cup {"array", "header", "block", "byte", "single", "int"}
Good   == [sort : Sorts, v : Nat, len : Nat \ {0}]
Fields == Good \cup [sort : {"error"}, v : {0}, len : {0}]

LEMMA ValueShape ==
    ASSUME NEW d \in DOMAIN Nested, NEW o \in Nested[d]
    PROVE  /\ o \in Values
           /\ \/ o \in Leaf /\ o.type # "array" /\ o.type \in LeafTypes /\ o.v \in Nat
              \/ /\ o.type = "array" /\ o = [type |-> "array", v |-> o.v] /\ d > 1
                 /\ d - 1 \in DOMAIN Nested /\ o.v \in Seq(Nested[d - 1])
<1>1. d \in 1..Len(Nested)
  BY NestedAssumption DEF NestedAssumption
<1>2. CASE o \in Leaf
  BY <1>2 DEF Leaf, LeafTypes, Values
<1>3. CASE d > 1 /\ o \in Arrays(Nested[d - 1])
  <2>1. d - 1 \in DOMAIN Nested
    BY <1>1, <1>3, NestedAssumption DEF NestedAssumption
  <2> QED
    BY <1>3, <2>1 DEF Arrays, Values
<1> QED
  BY <1>2, <1>3, NestedAssumption DEF NestedAssumption

(* WriteAll conforms to its equation, and depends on how the elements are    *)
(* written alone.                                                            *)
LEMMA WriteAllEquation ==
    ASSUME NEW q, Len(q) \in Nat, NEW write
    PROVE  WriteAll(q, write) =
             [i \in 0..Len(q) |-> IF i = 0 THEN << >>
                                  ELSE WriteAll(q, write)[i - 1] \o write[q[i]]]
<1> DEFINE X == {k \in Nat : \E g : g = [i \in 0..k |-> IF i = 0 THEN << >>
                                                         ELSE g[i - 1] \o write[q[i]]]}
<1>1. 0 \in X
  <2> DEFINE g == [i \in 0..0 |-> << >>]
  <2>1. g = [i \in 0..0 |-> IF i = 0 THEN << >> ELSE g[i - 1] \o write[q[i]]]
    OBVIOUS
  <2> QED
    BY <2>1
<1>2. ASSUME NEW k \in Nat, k \in X PROVE k + 1 \in X
  <2>1. PICK g : g = [i \in 0..k |-> IF i = 0 THEN << >> ELSE g[i - 1] \o write[q[i]]]
    BY <1>2
  <2> DEFINE h == [i \in 0..(k + 1) |-> IF i = k + 1 THEN g[k] \o write[q[k + 1]] ELSE g[i]]
  <2>2. ASSUME NEW i \in 0..(k + 1)
        PROVE  h[i] = IF i = 0 THEN << >> ELSE h[i - 1] \o write[q[i]]
    <3>1. CASE i = 0
      <4>1. h[0] = g[0] /\ 0 \in 0..k
        OBVIOUS
      <4> QED
        BY <2>1, <3>1, <4>1
    <3>2. CASE i = k + 1
      <4>1. h[i] = g[k] \o write[q[i]] /\ h[k] = g[k] /\ i - 1 = k /\ i # 0
        BY <3>2
      <4> QED
        BY <4>1
    <3>3. CASE i # 0 /\ i # k + 1
      <4>1. i \in 0..k /\ i - 1 \in 0..k /\ i - 1 # k + 1
        BY <3>3
      <4>2. h[i] = g[i] /\ h[i - 1] = g[i - 1]
        BY <3>3, <4>1
      <4>3. g[i] = g[i - 1] \o write[q[i]]
        BY <2>1, <3>3, <4>1
      <4> QED
        BY <3>3, <4>2, <4>3
    <3> QED
      BY <3>1, <3>2, <3>3
  <2>3. h = [i \in 0..(k + 1) |-> h[i]]
    OBVIOUS
  <2> HIDE DEF h
  <2>4. h = [i \in 0..(k + 1) |-> IF i = 0 THEN << >> ELSE h[i - 1] \o write[q[i]]]
    BY <2>2, <2>3
  <2>5. k + 1 \in Nat /\ \E f : f = [i \in 0..(k + 1) |-> IF i = 0 THEN << >>
                                                          ELSE f[i - 1] \o write[q[i]]]
    BY <2>4
  <2> QED
    BY <2>5
<1>3. Nat \subseteq X
  <2> HIDE DEF X
  <2> QED
    BY <1>1, <1>2, Induction
<1>4. \E g : g = [i \in 0..Len(q) |-> IF i = 0 THEN << >> ELSE g[i - 1] \o write[q[i]]]
  BY <1>3
<1> QED
  BY <1>4, Zenon DEF WriteAll

LEMMA WriteAllSteps ==
    ASSUME NEW q, Len(q) \in Nat, NEW write
    PROVE  /\ WriteAll(q, write)[0] = << >>
           /\ \A i \in 1..Len(q) :
                 WriteAll(q, write)[i] = WriteAll(q, write)[i - 1] \o write[q[i]]
<1> DEFINE W == WriteAll(q, write)
<1>1. W = [i \in 0..Len(q) |-> IF i = 0 THEN << >> ELSE W[i - 1] \o write[q[i]]]
  BY WriteAllEquation
<1> HIDE DEF W
<1>2. W[0] = << >> /\ \A i \in 1..Len(q) : W[i] = W[i - 1] \o write[q[i]]
  BY <1>1
<1> QED
  BY <1>2 DEF W

LEMMA WriteAllAgrees ==
    ASSUME NEW q, Len(q) \in Nat, NEW f, NEW g, \A i \in 1..Len(q) : f[q[i]] = g[q[i]]
    PROVE  WriteAll(q, f)[Len(q)] = WriteAll(q, g)[Len(q)]
<1> DEFINE X == {k \in Nat : k <= Len(q) => WriteAll(q, f)[k] = WriteAll(q, g)[k]}
<1>1. /\ WriteAll(q, f)[0] = << >>
      /\ \A i \in 1..Len(q) : WriteAll(q, f)[i] = WriteAll(q, f)[i - 1] \o f[q[i]]
  BY WriteAllSteps
<1>2. /\ WriteAll(q, g)[0] = << >>
      /\ \A i \in 1..Len(q) : WriteAll(q, g)[i] = WriteAll(q, g)[i - 1] \o g[q[i]]
  BY WriteAllSteps
<1>3. 0 \in X
  BY <1>1, <1>2
<1>4. ASSUME NEW k \in Nat, k \in X PROVE k + 1 \in X
  <2> SUFFICES ASSUME k + 1 <= Len(q) PROVE WriteAll(q, f)[k + 1] = WriteAll(q, g)[k + 1]
    OBVIOUS
  <2>1. k + 1 \in 1..Len(q) /\ (k + 1) - 1 = k /\ WriteAll(q, f)[k] = WriteAll(q, g)[k]
    BY <1>4
  <2>2. WriteAll(q, f)[k + 1] = WriteAll(q, f)[k] \o f[q[k + 1]]
    BY <2>1, <1>1
  <2>3. WriteAll(q, g)[k + 1] = WriteAll(q, g)[k] \o g[q[k + 1]]
    BY <2>1, <1>2
  <2> QED
    BY <2>1, <2>2, <2>3
<1>5. Nat \subseteq X
  <2> HIDE DEF X
  <2> QED
    BY <1>3, <1>4, Induction
<1> QED
  BY <1>5

LEMMA WriteAllTyped ==
    ASSUME NEW q, Len(q) \in Nat, NEW write, NEW T, \A i \in 1..Len(q) : write[q[i]] \in Seq(T)
    PROVE  \A k \in 0..Len(q) : WriteAll(q, write)[k] \in Seq(T)
<1> DEFINE X == {k \in Nat : k <= Len(q) => WriteAll(q, write)[k] \in Seq(T)}
<1>1. /\ WriteAll(q, write)[0] = << >>
      /\ \A i \in 1..Len(q) : WriteAll(q, write)[i] = WriteAll(q, write)[i - 1] \o write[q[i]]
  BY WriteAllSteps
<1>2. 0 \in X
  <2>1. << >> \in Seq(T)
    BY EmptySeq
  <2> QED
    BY <1>1, <2>1
<1>3. ASSUME NEW k \in Nat, k \in X PROVE k + 1 \in X
  <2> SUFFICES ASSUME k + 1 <= Len(q) PROVE WriteAll(q, write)[k + 1] \in Seq(T)
    OBVIOUS
  <2>1. k + 1 \in 1..Len(q) /\ (k + 1) - 1 = k /\ WriteAll(q, write)[k] \in Seq(T)
    BY <1>3
  <2>2. WriteAll(q, write)[k + 1] = WriteAll(q, write)[k] \o write[q[k + 1]]
    BY <2>1, <1>1
  <2> QED
    BY <2>1, <2>2
<1>4. Nat \subseteq X
  <2> HIDE DEF X
  <2> QED
    BY <1>2, <1>3, Induction
<1> QED
  BY <1>4

-----------------------------------------------------------------------------
(* The functions on values exist: each conforms to its equation on the       *)
(* values of the first k levels, for every k.                                *)
Upto(k) == UNION {Nested[e] : e \in {d \in DOMAIN Nested : d <= k}}

Elements(o) == {o.v[i] : i \in 1..Len(o.v)}

LEMMA Levels ==
    /\ Len(Nested) \in Nat /\ Upto(0) = {} /\ Values = Upto(Len(Nested))
    /\ \A k \in Nat : Upto(k) \subseteq Upto(k + 1)
<1>1. DOMAIN Nested = 1..Len(Nested) /\ Len(Nested) \in Nat
  BY NestedAssumption DEF NestedAssumption
<1>2. \A k \in Nat : {d \in DOMAIN Nested : d <= k} \subseteq {d \in DOMAIN Nested : d <= k + 1}
  BY <1>1
<1>3. {d \in DOMAIN Nested : d <= 0} = {} /\ {d \in DOMAIN Nested : d <= Len(Nested)} = DOMAIN Nested
  BY <1>1
<1> QED
  BY <1>1, <1>2, <1>3 DEF Upto, Values

LEMMA Shapes ==
    ASSUME NEW k \in Nat, NEW o \in Upto(k + 1)
    PROVE  /\ o \in Values
           /\ \/ o \in Leaf /\ o.type # "array" /\ o.type \in LeafTypes /\ o.v \in Nat
              \/ /\ o.type = "array" /\ o = [type |-> "array", v |-> o.v]
                 /\ o.v \in Seq(Upto(k)) /\ Elements(o) \subseteq Upto(k)
<1>1. PICK e \in DOMAIN Nested : e <= k + 1 /\ o \in Nested[e]
  BY DEF Upto
<1>2. e \in Nat
  BY NestedAssumption DEF NestedAssumption
<1>3. CASE /\ o.type = "array" /\ o = [type |-> "array", v |-> o.v] /\ e > 1
           /\ e - 1 \in DOMAIN Nested /\ o.v \in Seq(Nested[e - 1])
  <2>1. Nested[e - 1] \subseteq Upto(k)
    BY <1>1, <1>2, <1>3 DEF Upto
  <2>2. o.v \in Seq(Upto(k))
    BY <1>3, <2>1
  <2> QED
    BY <1>1, <1>3, <2>2, ValueShape DEF Elements
<1> QED
  BY <1>1, <1>3, ValueShape

Parts(o, write) ==
    IF o.type = "array"
    THEN Tag("array") \o Field("int", Len(o.v), 4) \o WriteAll(o.v, write)[Len(o.v)]
    ELSE WriteLeaf(o)

LEMMA WriteEquation == WriteObject = [o \in Values |-> Parts(o, WriteObject)]
<1> DEFINE X == {k \in Nat : \E g : g = [o \in Upto(k) |-> Parts(o, g)]}
<1>1. 0 \in X
  <2> DEFINE g == [o \in {} |-> 0]
  <2>1. g = [o \in {} |-> Parts(o, g)]
    OBVIOUS
  <2> HIDE DEF g
  <2>2. g = [o \in Upto(0) |-> Parts(o, g)]
    BY <2>1, Levels
  <2> QED
    BY <2>2
<1>2. ASSUME NEW k \in Nat, k \in X PROVE k + 1 \in X
  <2>1. PICK g : g = [o \in Upto(k) |-> Parts(o, g)]
    BY <1>2
  <2> DEFINE h == [o \in Upto(k + 1) |-> Parts(o, g)]
  <2>2. \A o \in Upto(k) : h[o] = g[o]
    BY <2>1, Levels
  <2>3. DOMAIN h = Upto(k + 1) /\ \A o \in Upto(k + 1) : h[o] = Parts(o, g)
    OBVIOUS
  <2>4. h = [o \in DOMAIN h |-> h[o]]
    OBVIOUS
  <2> HIDE DEF h
  <2>5. ASSUME NEW o \in Upto(k + 1) PROVE Parts(o, g) = Parts(o, h)
    <3>1. CASE o.type = "array"
      <4>1. Len(o.v) \in Nat /\ \A i \in 1..Len(o.v) : g[o.v[i]] = h[o.v[i]]
        <5>1. o.v \in Seq(Upto(k)) /\ Elements(o) \subseteq Upto(k)
          BY <3>1, Shapes
        <5> QED
          BY <2>2, <5>1 DEF Elements
      <4>2. WriteAll(o.v, g)[Len(o.v)] = WriteAll(o.v, h)[Len(o.v)]
        BY <4>1, WriteAllAgrees
      <4> QED
        BY <4>2 DEF Parts
    <3> QED
      BY <3>1 DEF Parts
  <2>6. h = [o \in Upto(k + 1) |-> Parts(o, h)]
    BY <2>3, <2>5, <2>4
  <2> QED
    BY <2>6
<1>3. Nat \subseteq X
  <2> HIDE DEF X
  <2> QED
    BY <1>1, <1>2, Induction
<1>4. \E g : g = [o \in Values |-> Parts(o, g)]
  BY <1>3, Levels
<1> QED
  BY <1>4, Zenon DEF WriteObject, Parts

(* What Expected is of a value, given that of its elements. *)
Wanted(o, expected) ==
    IF o.type # "array" THEN ExpectedLeaf(o)
    ELSE IF \A i \in DOMAIN o.v : expected[o.v[i]] # << >>
    THEN << [type |-> "array", v |-> [i \in DOMAIN o.v |-> expected[o.v[i]][1]]] >>
    ELSE << >>

LEMMA ExpectedEquation == Expected = [o \in Values |-> Wanted(o, Expected)]
<1> DEFINE X == {k \in Nat : \E g : g = [o \in Upto(k) |-> Wanted(o, g)]}
<1>1. 0 \in X
  <2> DEFINE g == [o \in {} |-> 0]
  <2>1. g = [o \in {} |-> Wanted(o, g)]
    OBVIOUS
  <2> HIDE DEF g
  <2>2. g = [o \in Upto(0) |-> Wanted(o, g)]
    BY <2>1, Levels
  <2> QED
    BY <2>2
<1>2. ASSUME NEW k \in Nat, k \in X PROVE k + 1 \in X
  <2>1. PICK g : g = [o \in Upto(k) |-> Wanted(o, g)]
    BY <1>2
  <2> DEFINE h == [o \in Upto(k + 1) |-> Wanted(o, g)]
  <2>2. \A o \in Upto(k) : h[o] = g[o]
    BY <2>1, Levels
  <2>3. DOMAIN h = Upto(k + 1) /\ \A o \in Upto(k + 1) : h[o] = Wanted(o, g)
    OBVIOUS
  <2>4. h = [o \in DOMAIN h |-> h[o]]
    OBVIOUS
  <2> HIDE DEF h
  <2>5. ASSUME NEW o \in Upto(k + 1) PROVE Wanted(o, g) = Wanted(o, h)
    <3>1. CASE o.type = "array"
      <4>1. \A i \in DOMAIN o.v : g[o.v[i]] = h[o.v[i]]
        <5>1. o.v \in Seq(Upto(k)) /\ Elements(o) \subseteq Upto(k)
          BY <3>1, Shapes
        <5> QED
          BY <2>2, <5>1 DEF Elements
      <4>2. /\ (\A i \in DOMAIN o.v : g[o.v[i]] # << >>) <=> (\A i \in DOMAIN o.v : h[o.v[i]] # << >>)
            /\ [i \in DOMAIN o.v |-> g[o.v[i]][1]] = [i \in DOMAIN o.v |-> h[o.v[i]][1]]
        BY <4>1
      <4> QED
        BY <3>1, <4>2 DEF Wanted
    <3> QED
      BY <3>1 DEF Wanted
  <2>6. h = [o \in Upto(k + 1) |-> Wanted(o, h)]
    BY <2>3, <2>5, <2>4
  <2> QED
    BY <2>6
<1>3. Nat \subseteq X
  <2> HIDE DEF X
  <2> QED
    BY <1>1, <1>2, Induction
<1>4. \E g : g = [o \in Values |-> Wanted(o, g)]
  BY <1>3, Levels
<1> QED
  BY <1>4, Zenon DEF Expected, Wanted

-----------------------------------------------------------------------------
(* What is written is made of fields, and of none that throws when the value *)
(* can be read back.                                                         *)
LEMMA OneField ==
    ASSUME NEW sort \in Sorts, NEW v \in Nat, NEW len \in Nat \ {0}
    PROVE  Field(sort, v, len) \in Seq(Good)
<1>1. [sort |-> sort, v |-> v, len |-> len] \in Good
  BY DEF Good
<1> QED
  BY <1>1 DEF Field

LEMMA OneTag ==
    ASSUME NEW type \in Sorts
    PROVE  Tag(type) \in Seq(Good)
  BY OneField DEF Tag

(* The sorts and lengths that occur. *)
LEMMA Literals ==
    /\ \A x \in {"header", "block", "byte", "single", "int", "array"} : x \in Sorts
    /\ \A x \in {1, 2, 4, 10} : x \in Nat \ {0}
  BY DEF Sorts

LEMMA GoodFields == Seq(Good) \subseteq Seq(Fields)
  BY DEF Fields

LEMMA LeafWritten ==
    ASSUME NEW o \in Leaf
    PROVE  /\ WriteLeaf(o) \in Seq(Fields)
           /\ ExpectedLeaf(o) # << >> => WriteLeaf(o) \in Seq(Good)
<1>0. o.type \in LeafTypes /\ o.v \in Nat /\ Single(o.v) \in Nat /\ 4 + o.v \in Nat \ {0}
  BY DEF Leaf, Single
<1>1. CASE o.type = "function"
  <2>1. WriteLeaf(o) = << >> /\ ExpectedLeaf(o) = << >>
    BY <1>1 DEF WriteLeaf, ExpectedLeaf
  <2> QED
    BY <2>1, EmptySeq
<1>2. CASE o.type \in {"null", "NaN"}
  <2>1. WriteLeaf(o) = Tag("null")
    BY <1>2 DEF WriteLeaf
  <2>2. Tag("null") \in Seq(Good)
    BY OneTag DEF Sorts, LeafTypes
  <2> QED
    BY <2>1, <2>2, GoodFields
<1>3. CASE o.type \in {"buffer", "string", "object"}
  <2>1. WriteLeaf(o) = Tag(o.type) \o Field("block", o.v, 4 + o.v)
    BY <1>3 DEF WriteLeaf
  <2>2. Tag(o.type) \in Seq(Good)
    BY <1>0, <1>3, OneTag DEF Sorts, LeafTypes
  <2>3. Field("block", o.v, 4 + o.v) \in Seq(Good)
    BY <1>0, <1>3, OneField, Literals
  <2> QED
    BY <2>1, <2>2, <2>3, GoodFields
<1>4. CASE o.type = "boolean"
  <2>1. WriteLeaf(o) = Tag("boolean") \o Field("byte", o.v, 1)
    BY <1>4 DEF WriteLeaf
  <2>2. Tag("boolean") \in Seq(Good)
    BY <1>0, OneTag DEF Sorts, LeafTypes
  <2>3. Field("byte", o.v, 1) \in Seq(Good)
    BY <1>0, OneField, Literals
  <2> QED
    BY <2>1, <2>2, <2>3, GoodFields
<1>5. CASE o.type = "float"
  <2>1. WriteLeaf(o) = Tag("float") \o Field("single", Single(o.v), 4)
    BY <1>5 DEF WriteLeaf
  <2>2. Tag("float") \in Seq(Good)
    BY <1>0, OneTag DEF Sorts, LeafTypes
  <2>3. Field("single", Single(o.v), 4) \in Seq(Good)
    BY <1>0, OneField, Literals
  <2> QED
    BY <2>1, <2>2, <2>3, GoodFields
<1>6. CASE o.type = "number"
  <2>1. WriteLeaf(o) = Tag("number") \o Field("int", o.v, 4)
    BY <1>6 DEF WriteLeaf
  <2>2. Tag("number") \in Seq(Good)
    BY <1>0, OneTag DEF Sorts, LeafTypes
  <2>3. Field("int", o.v, 4) \in Seq(Good)
    BY <1>0, OneField, Literals
  <2> QED
    BY <2>1, <2>2, <2>3, GoodFields
<1>7. CASE o.type = "big"
  <2>1. WriteLeaf(o) = Tag("number") \o Field("error", 0, 0) /\ ExpectedLeaf(o) = << >>
    BY <1>7 DEF WriteLeaf, ExpectedLeaf
  <2>2. Tag("number") \in Seq(Good)
    BY OneTag DEF Sorts, LeafTypes
  <2>3. Field("error", 0, 0) \in Seq(Fields)
    <3>1. [sort |-> "error", v |-> 0, len |-> 0] \in Fields
      BY DEF Fields
    <3> QED
      BY <3>1 DEF Field
  <2> QED
    BY <2>1, <2>2, <2>3, GoodFields
<1> QED
  BY <1>0, <1>1, <1>2, <1>3, <1>4, <1>5, <1>6, <1>7 DEF LeafTypes

LEMMA Written ==
    ASSUME NEW o \in Values
    PROVE  /\ WriteObject[o] = Parts(o, WriteObject)
           /\ Expected[o] = Wanted(o, Expected)
<1>1. \A x \in Values : WriteObject[x] = Parts(x, WriteObject)
  <2>1. WriteObject = [x \in Values |-> Parts(x, WriteObject)]
    BY WriteEquation
  <2> DEFINE W == WriteObject
  <2>2. W = [x \in Values |-> Parts(x, W)]
    BY <2>1
  <2> HIDE DEF W
  <2>3. \A x \in Values : W[x] = Parts(x, W)
    BY <2>2
  <2> QED
    BY <2>3 DEF W
<1>2. \A x \in Values : Expected[x] = Wanted(x, Expected)
  <2>1. Expected = [x \in Values |-> Wanted(x, Expected)]
    BY ExpectedEquation
  <2> DEFINE W == Expected
  <2>2. W = [x \in Values |-> Wanted(x, W)]
    BY <2>1
  <2> HIDE DEF W
  <2>3. \A x \in Values : W[x] = Wanted(x, W)
    BY <2>2
  <2> QED
    BY <2>3 DEF W
<1> QED
  BY <1>1, <1>2

LEMMA WrittenTyped ==
    \A o \in Values : /\ WriteObject[o] \in Seq(Fields)
                      /\ Expected[o] # << >> => WriteObject[o] \in Seq(Good)
<1> DEFINE OK(o) == /\ WriteObject[o] \in Seq(Fields)
                    /\ Expected[o] # << >> => WriteObject[o] \in Seq(Good)
           X == {k \in Nat : \A o \in Upto(k) : OK(o)}
<1>1. 0 \in X
  BY Levels
<1>2. ASSUME NEW k \in Nat, k \in X PROVE k + 1 \in X
  <2>1. ASSUME NEW o \in Upto(k + 1) PROVE OK(o)
    <3>0. o \in Values /\ WriteObject[o] = Parts(o, WriteObject) /\ Expected[o] = Wanted(o, Expected)
      BY Shapes, Written
    <3>1. CASE o \in Leaf /\ o.type # "array"
      <4>1. WriteObject[o] = WriteLeaf(o) /\ Expected[o] = ExpectedLeaf(o)
        BY <3>0, <3>1 DEF Parts, Wanted
      <4> QED
        BY <3>1, <4>1, LeafWritten
    <3>2. CASE o.type = "array" /\ o.v \in Seq(Upto(k)) /\ Elements(o) \subseteq Upto(k)
      <4> DEFINE T == Tag("array") \o Field("int", Len(o.v), 4)
      <4>1. Len(o.v) \in Nat /\ \A i \in 1..Len(o.v) : OK(o.v[i])
        BY <1>2, <3>2 DEF Elements
      <4>2. Tag("array") \in Seq(Good)
        BY OneTag DEF Sorts, LeafTypes
      <4>3. Field("int", Len(o.v), 4) \in Seq(Good)
        BY <4>1, OneField, Literals
      <4>4. T \in Seq(Good) /\ T \in Seq(Fields)
        BY <4>2, <4>3, GoodFields
      <4>5. WriteObject[o] = T \o WriteAll(o.v, WriteObject)[Len(o.v)]
        BY <3>0, <3>2 DEF Parts
      <4> HIDE DEF T
      <4>6. WriteAll(o.v, WriteObject)[Len(o.v)] \in Seq(Fields)
        BY <4>1, WriteAllTyped
      <4>7. ASSUME Expected[o] # << >> PROVE WriteAll(o.v, WriteObject)[Len(o.v)] \in Seq(Good)
        <5>1. \A i \in 1..Len(o.v) : Expected[o.v[i]] # << >>
          BY <3>0, <3>2, <4>7 DEF Wanted
        <5>2. \A i \in 1..Len(o.v) : WriteObject[o.v[i]] \in Seq(Good)
          BY <4>1, <5>1
        <5> QED
          BY <4>1, <5>2, WriteAllTyped
      <4> QED
        BY <4>4, <4>5, <4>6, <4>7
    <3> QED
      BY <3>1, <3>2, Shapes
  <2> QED
    BY <2>1
<1>3. Nat \subseteq X
  <2> HIDE DEF X
  <2> QED
    BY <1>1, <1>2, Induction
<1> QED
  BY <1>3, Levels

-----------------------------------------------------------------------------
(* The reader exists: what it reads at a position depends on what it reads   *)
(* at later positions alone.                                                 *)
Reading(w, p, read) ==
    [n \in Nat |->
       IF n = 0 THEN Got(<< >>, p)
       ELSE LET one  == ReadObject(w, p, read)
                more == read[one.next][n - 1]
            IN IF one.ok /\ more.ok
               THEN Got(<<one.value>> \o more.value, more.next)
               ELSE Thrown]

(* Reading goes forward, and not beyond the end. *)
Sound(w, read, p) == \A n \in Nat : read[p][n].ok => read[p][n].next \in p..(Len(w) + 1)

LEMMA ObjectForward ==
    ASSUME NEW w \in Seq(Fields), NEW p \in 1..(Len(w) + 1), NEW f,
           \A q \in (p + 1)..(Len(w) + 1) : Sound(w, f, q)
    PROVE  ReadObject(w, p, f).ok => ReadObject(w, p, f).next \in (p + 1)..(Len(w) + 1)
<1>0. Len(w) \in Nat /\ p \in Nat
  OBVIOUS
<1>1. CASE p > Len(w)
  BY <1>1 DEF ReadObject, Thrown
<1>2. CASE p <= Len(w) /\ w[p].sort = "null"
  <2>1. ReadObject(w, p, f) = Got(Null, p + 1)
    BY <1>0, <1>2 DEF ReadObject
  <2> QED
    BY <1>0, <1>2, <2>1 DEF Got
<1>3. CASE p = Len(w) /\ w[p].sort # "null"
  BY <1>3 DEF ReadObject, Thrown
<1>4. CASE p < Len(w) /\ w[p].sort \notin {"null", "array"}
  <2>1. ReadObject(w, p, f).next = p + 2
    BY <1>0, <1>4 DEF ReadObject, Got
  <2> QED
    BY <1>0, <1>4, <2>1
<1>5. CASE p < Len(w) /\ w[p].sort = "array"
  <2>1. p + 1 \in 1..Len(w) /\ p + 2 \in (p + 1)..(Len(w) + 1)
    BY <1>0, <1>5
  <2>2. w[p + 1].v \in Nat
    BY <2>1 DEF Fields, Good
  <2> DEFINE all == f[p + 2][w[p + 1].v]
  <2>3. all.ok => all.next \in (p + 2)..(Len(w) + 1)
    BY <2>1, <2>2 DEF Sound
  <2>4. ReadObject(w, p, f) = IF all.ok THEN Got([type |-> "array", v |-> all.value], all.next)
                              ELSE Thrown
    BY <1>0, <1>5 DEF ReadObject
  <2> HIDE DEF all
  <2>5. CASE all.ok
    BY <1>0, <2>3, <2>4, <2>5 DEF Got
  <2>6. CASE ~all.ok
    BY <2>4, <2>6 DEF Thrown
  <2> QED
    BY <2>5, <2>6
<1> QED
  BY <1>0, <1>1, <1>2, <1>3, <1>4, <1>5

LEMMA ObjectAgrees ==
    ASSUME NEW w \in Seq(Fields), NEW p \in 1..(Len(w) + 1), NEW f, NEW g,
           \A q \in (p + 1)..(Len(w) + 1) : f[q] = g[q]
    PROVE  ReadObject(w, p, f) = ReadObject(w, p, g)
<1>0. Len(w) \in Nat /\ p \in Nat
  OBVIOUS
<1>1. CASE p < Len(w)
  <2>1. f[p + 2] = g[p + 2]
    BY <1>0, <1>1
  <2> QED
    BY <2>1 DEF ReadObject
<1>2. CASE ~(p < Len(w))
  <2>1. p > Len(w) \/ p = Len(w)
    BY <1>0, <1>2
  <2> QED
    BY <2>1 DEF ReadObject
<1> QED
  BY <1>1, <1>2

LEMMA ReadingSound ==
    ASSUME NEW w \in Seq(Fields), NEW p \in 1..(Len(w) + 1), NEW f,
           \A q \in (p + 1)..(Len(w) + 1) : Sound(w, f, q), NEW n \in Nat
    PROVE  Reading(w, p, f)[n].ok => Reading(w, p, f)[n].next \in p..(Len(w) + 1)
<1>0. Len(w) \in Nat /\ p \in Nat
  OBVIOUS
<1> DEFINE one  == ReadObject(w, p, f)
           more == f[one.next][n - 1]
<1>1. CASE n = 0
  <2>1. Reading(w, p, f)[n] = Got(<< >>, p)
    BY <1>1 DEF Reading
  <2> QED
    BY <1>0, <2>1 DEF Got
<1>2. CASE n # 0
  <2>1. Reading(w, p, f)[n] = IF one.ok /\ more.ok
                              THEN Got(<<one.value>> \o more.value, more.next) ELSE Thrown
    BY <1>2 DEF Reading
  <2>2. one.ok => one.next \in (p + 1)..(Len(w) + 1)
    BY ObjectForward
  <2> HIDE DEF one
  <2>3. n - 1 \in Nat
    BY <1>2
  <2>4. one.ok /\ more.ok => more.next \in one.next..(Len(w) + 1)
    BY <2>2, <2>3 DEF Sound
  <2> HIDE DEF more
  <2>5. CASE one.ok /\ more.ok
    <3>1. more.next \in p..(Len(w) + 1)
      BY <1>0, <2>2, <2>4, <2>5
    <3> QED
      BY <2>1, <2>5, <3>1 DEF Got
  <2>6. CASE ~(one.ok /\ more.ok)
    BY <2>1, <2>6 DEF Thrown
  <2> QED
    BY <2>5, <2>6
<1> QED
  BY <1>1, <1>2

LEMMA ReadingAgrees ==
    ASSUME NEW w \in Seq(Fields), NEW p \in 1..(Len(w) + 1), NEW f, NEW g,
           \A q \in (p + 1)..(Len(w) + 1) : Sound(w, f, q) /\ f[q] = g[q]
    PROVE  Reading(w, p, f) = Reading(w, p, g)
<1> DEFINE one == ReadObject(w, p, f)
           Item(h, n) == IF n = 0 THEN Got(<< >>, p)
                         ELSE IF one.ok /\ h[one.next][n - 1].ok
                         THEN Got(<<one.value>> \o h[one.next][n - 1].value, h[one.next][n - 1].next)
                         ELSE Thrown
<1>1. one = ReadObject(w, p, g)
  BY ObjectAgrees
<1>2. one.ok => one.next \in (p + 1)..(Len(w) + 1)
  BY ObjectForward
<1>3. Reading(w, p, f) = [n \in Nat |-> Item(f, n)]
  BY DEF Reading
<1>4. Reading(w, p, g) = [n \in Nat |-> Item(g, n)]
  BY <1>1 DEF Reading
<1> HIDE DEF one
<1>5. \A n \in Nat : Item(f, n) = Item(g, n)
  BY <1>2
<1> HIDE DEF Item
<1> QED
  BY <1>3, <1>4, <1>5

LEMMA ReadEquation ==
    ASSUME NEW w \in Seq(Fields)
    PROVE  \A p \in 1..(Len(w) + 1) :
              ReadAll(w)[p] = Reading(w, p, ReadAll(w)) /\ Sound(w, ReadAll(w), p)
<1> DEFINE Late(k) == {p \in 1..(Len(w) + 1) : Len(w) + 1 - p < k}
           IsRead(f, k) == /\ f = [p \in Late(k) |-> Reading(w, p, f)]
                           /\ \A p \in Late(k) : Sound(w, f, p)
           X == {k \in Nat : \E f : IsRead(f, k)}
<1>0. Len(w) \in Nat
  OBVIOUS
<1>1. 0 \in X
  <2> DEFINE f == [p \in {} |-> 0]
  <2>1. f = [p \in {} |-> Reading(w, p, f)]
    OBVIOUS
  <2> HIDE DEF f
  <2>2. Late(0) = {}
    BY <1>0
  <2> QED
    BY <2>1, <2>2
<1>2. ASSUME NEW k \in Nat, k \in X PROVE k + 1 \in X
  <2>1. PICK f : IsRead(f, k)
    BY <1>2
  <2> DEFINE g == [p \in Late(k + 1) |-> Reading(w, p, f)]
  <2>2. \A p \in Late(k + 1) : p \in 1..(Len(w) + 1) /\ (p + 1)..(Len(w) + 1) \subseteq Late(k)
    BY <1>0
  <2>3. Late(k) \subseteq Late(k + 1)
    BY <1>0
  <2> HIDE DEF Late
  <2>4. \A p \in Late(k) : Sound(w, f, p) /\ f[p] = g[p]
    BY <2>1, <2>3
  <2>5. DOMAIN g = Late(k + 1) /\ g = [p \in DOMAIN g |-> g[p]]
        /\ \A p \in Late(k + 1) : g[p] = Reading(w, p, f)
    OBVIOUS
  <2> HIDE DEF g
  <2>6. ASSUME NEW p \in Late(k + 1) PROVE Reading(w, p, f) = Reading(w, p, g)
    BY <2>2, <2>4, ReadingAgrees
  <2>7. ASSUME NEW p \in Late(k + 1) PROVE Sound(w, g, p)
    <3>1. \A n \in Nat : Reading(w, p, f)[n].ok => Reading(w, p, f)[n].next \in p..(Len(w) + 1)
      BY <2>2, <2>4, ReadingSound
    <3> QED
      BY <2>5, <3>1 DEF Sound
  <2>8. g = [p \in Late(k + 1) |-> Reading(w, p, g)]
    BY <2>5, <2>6
  <2> QED
    BY <2>7, <2>8
<1>3. Nat \subseteq X
  <2> HIDE DEF X
  <2> QED
    BY <1>1, <1>2, Induction
<1>4. Late(Len(w) + 1) = 1..(Len(w) + 1)
  BY <1>0
<1>5. \E f : f = [p \in 1..(Len(w) + 1) |-> Reading(w, p, f)]
  <2>1. Len(w) + 1 \in X
    <3> HIDE DEF X
    <3> QED
      BY <1>0, <1>3
  <2>2. PICK f : IsRead(f, Len(w) + 1)
    BY <2>1
  <2> HIDE DEF Late
  <2>3. f = [p \in 1..(Len(w) + 1) |-> Reading(w, p, f)]
    BY <1>4, <2>2
  <2> QED
    BY <2>3
<1> DEFINE R == ReadAll(w)
           Y == {k \in Nat : \A p \in Late(k) : Sound(w, R, p)}
<1>6. R = [p \in 1..(Len(w) + 1) |-> Reading(w, p, R)]
  BY <1>5, Zenon DEF ReadAll, Reading
<1> HIDE DEF R
<1>7. 0 \in Y
  BY <1>0
<1>8. ASSUME NEW k \in Nat, k \in Y PROVE k + 1 \in Y
  <2>1. ASSUME NEW p \in Late(k + 1) PROVE Sound(w, R, p)
    <3>1. p \in 1..(Len(w) + 1) /\ \A q \in (p + 1)..(Len(w) + 1) : Sound(w, R, q)
      BY <1>0, <1>8
    <3>2. \A n \in Nat : Reading(w, p, R)[n].ok => Reading(w, p, R)[n].next \in p..(Len(w) + 1)
      BY <3>1, ReadingSound
    <3>3. R[p] = Reading(w, p, R)
      BY <1>6, <3>1
    <3> QED
      BY <3>2, <3>3 DEF Sound
  <2> QED
    BY <2>1
<1>9. Nat \subseteq Y
  <2> HIDE DEF Y
  <2> QED
    BY <1>7, <1>8, Induction
<1>10. \A p \in 1..(Len(w) + 1) : Sound(w, R, p)
  <2>1. Len(w) + 1 \in Y
    BY <1>0, <1>9
  <2> QED
    BY <1>4, <2>1
<1>11. \A p \in 1..(Len(w) + 1) : R[p] = Reading(w, p, R)
  BY <1>6
<1> QED
  BY <1>10, <1>11 DEF R

-----------------------------------------------------------------------------
(* What has been written is read back, wherever it is.                       *)
At(w, p, q) ==
    p + Len(q) <= Len(w) + 1 /\ \A j \in 1..Len(q) : w[p + j - 1] = q[j]

LEMMA AtParts ==
    ASSUME NEW w \in Seq(Fields), NEW p \in Nat \ {0}, NEW q \in Seq(Fields),
           NEW r \in Seq(Fields), At(w, p, q \o r)
    PROVE  At(w, p, q) /\ At(w, p + Len(q), r) /\ Len(q \o r) = Len(q) + Len(r)
<1>1. /\ Len(q) \in Nat /\ Len(r) \in Nat /\ Len(w) \in Nat
      /\ Len(q \o r) = Len(q) + Len(r)
      /\ \A j \in 1..Len(q) : (q \o r)[j] = q[j]
      /\ \A j \in 1..Len(r) : (q \o r)[Len(q) + j] = r[j]
  OBVIOUS
<1>2. \A j \in 1..Len(q) : j \in 1..Len(q \o r) /\ w[p + j - 1] = q[j]
  BY <1>1 DEF At
<1>3. ASSUME NEW j \in 1..Len(r) PROVE w[p + Len(q) + j - 1] = r[j]
  <2>1. Len(q) + j \in 1..Len(q \o r) /\ p + (Len(q) + j) - 1 = p + Len(q) + j - 1
    BY <1>1
  <2> QED
    BY <1>1, <2>1 DEF At
<1> QED
  BY <1>1, <1>2, <1>3 DEF At

LEMMA TwoFields == ASSUME NEW a, NEW b PROVE <<a>> \o <<b>> = <<a, b>>
<1> DEFINE S == {a, b}
<1>1. <<a>> \in Seq(S) /\ <<b>> \in Seq(S) /\ <<a, b>> \in Seq(S)
  OBVIOUS
<1>2. Len(<<a>>) = 1 /\ Len(<<b>>) = 1 /\ Len(<<a, b>>) = 2
  OBVIOUS
<1> DEFINE c == <<a>> \o <<b>>
<1>3. c \in Seq(S) /\ Len(c) = 2 /\ c[1] = a /\ c[2] = b
  <2>1. \A i \in 1..2 : c[i] = IF i <= 1 THEN <<a>>[i] ELSE <<b>>[i - 1]
    BY <1>1, <1>2, ConcatProperties
  <2> QED
    BY <1>1, <1>2, <2>1, ConcatProperties
<1> HIDE DEF c, S
<1>4. \A i \in 1..2 : c[i] = <<a, b>>[i]
  BY <1>3
<1> QED
  BY <1>1, <1>2, <1>3, <1>4, SeqEqual DEF c

(* A leaf. *)
LEMMA LeafRead ==
    ASSUME NEW w \in Seq(Fields), NEW p \in 1..(Len(w) + 1), NEW f, NEW o \in Leaf,
           ExpectedLeaf(o) # << >>, At(w, p, WriteLeaf(o))
    PROVE  ReadObject(w, p, f) = Got(ExpectedLeaf(o)[1], p + Len(WriteLeaf(o)))
<1>0. /\ o.type \in LeafTypes /\ o = [type |-> o.type, v |-> o.v]
      /\ Len(w) \in Nat /\ p \in Nat
  BY DEF Leaf
<1>1. o.type \notin {"function", "big"}
  BY DEF ExpectedLeaf
<1>2. CASE o.type \in {"null", "NaN"}
  <2>1. WriteLeaf(o) = << [sort |-> "null", v |-> 0, len |-> 2] >>
    BY <1>2 DEF WriteLeaf, Tag, Field
  <2>2. p <= Len(w) /\ w[p].sort = "null" /\ Len(WriteLeaf(o)) = 1
    BY <1>0, <2>1 DEF At
  <2>3. ExpectedLeaf(o)[1] = Null
    BY <1>2 DEF ExpectedLeaf
  <2> QED
    BY <1>0, <2>2, <2>3 DEF ReadObject
<1>3. ASSUME NEW sort, NEW v, NEW len, o.type \notin {"null", "NaN"},
             WriteLeaf(o) = Tag(o.type) \o Field(sort, v, len),
             ExpectedLeaf(o) = << [type |-> o.type, v |-> v] >>
      PROVE  ReadObject(w, p, f) = Got(ExpectedLeaf(o)[1], p + Len(WriteLeaf(o)))
  <2>1. WriteLeaf(o) = << [sort |-> o.type, v |-> 0, len |-> 2], [sort |-> sort, v |-> v, len |-> len] >>
    BY <1>3, TwoFields DEF Tag, Field
  <2>2. Len(WriteLeaf(o)) = 2
    BY <2>1
  <2>3. p + 1 <= Len(w) /\ w[p].sort = o.type /\ w[p + 1].v = v
    <3>1. p + 2 <= Len(w) + 1 /\ w[p + 1 - 1] = WriteLeaf(o)[1] /\ w[p + 2 - 1] = WriteLeaf(o)[2]
      BY <2>2 DEF At
    <3>2. p + 1 - 1 = p /\ p + 2 - 1 = p + 1
      BY <1>0
    <3>3. w[p] = WriteLeaf(o)[1] /\ w[p + 1] = WriteLeaf(o)[2]
      BY <3>1, <3>2
    <3> QED
      BY <1>0, <2>1, <3>1, <3>3
  <2>4. o.type # "null" /\ o.type # "array"
    BY <1>0, <1>3 DEF LeafTypes
  <2>5. ReadObject(w, p, f) = Got([type |-> o.type, v |-> v], p + 2)
    BY <1>0, <2>3, <2>4 DEF ReadObject
  <2> QED
    BY <1>3, <2>2, <2>5
<1>4. CASE o.type \in {"buffer", "string", "object"}
  <2>1. WriteLeaf(o) = Tag(o.type) \o Field("block", o.v, 4 + o.v) /\ ExpectedLeaf(o) = <<o>>
    BY <1>4 DEF WriteLeaf, ExpectedLeaf
  <2> QED
    BY <1>0, <1>3, <1>4, <2>1
<1>5. CASE o.type = "boolean"
  <2>1. WriteLeaf(o) = Tag(o.type) \o Field("byte", o.v, 1) /\ ExpectedLeaf(o) = <<o>>
    BY <1>5 DEF WriteLeaf, ExpectedLeaf
  <2> QED
    BY <1>0, <1>3, <1>5, <2>1
<1>6. CASE o.type = "float"
  <2>1. /\ WriteLeaf(o) = Tag(o.type) \o Field("single", Single(o.v), 4)
        /\ ExpectedLeaf(o) = << [type |-> o.type, v |-> Single(o.v)] >>
    BY <1>6 DEF WriteLeaf, ExpectedLeaf
  <2> QED
    BY <1>3, <1>6, <2>1
<1>7. CASE o.type = "number"
  <2>1. WriteLeaf(o) = Tag(o.type) \o Field("int", o.v, 4) /\ ExpectedLeaf(o) = <<o>>
    BY <1>7 DEF WriteLeaf, ExpectedLeaf
  <2> QED
    BY <1>0, <1>3, <1>7, <2>1
<1> QED
  BY <1>0, <1>1, <1>2, <1>4, <1>5, <1>6, <1>7 DEF LeafTypes

(* The elements of an array, from the last one backwards. *)
LEMMA Cons ==
    ASSUME NEW m \in Nat, NEW c \in Nat, NEW e
    PROVE  <<e[c]>> \o [j \in 1..m |-> e[c + j]] = [j \in 1..(m + 1) |-> e[c - 1 + j]]
<1> DEFINE S == {e[c - 1 + j] : j \in 1..(m + 1)}
           a == <<e[c]>>
           b == [j \in 1..m |-> e[c + j]]
           d == [j \in 1..(m + 1) |-> e[c - 1 + j]]
<1>1. e[c] \in S
  <2>1. 1 \in 1..(m + 1) /\ c - 1 + 1 = c
    OBVIOUS
  <2> QED
    BY <2>1
<1>2. \A j \in 1..m : e[c + j] \in S
  <2>1. \A j \in 1..m : j + 1 \in 1..(m + 1) /\ c - 1 + (j + 1) = c + j
    OBVIOUS
  <2> QED
    BY <2>1
<1>3. \A j \in 1..(m + 1) : e[c - 1 + j] \in S
  OBVIOUS
<1> HIDE DEF S
<1>4. a \in Seq(S) /\ Len(a) = 1 /\ a[1] = e[c]
  BY <1>1
<1>5. b \in Seq(S) /\ Len(b) = m /\ \A j \in 1..m : b[j] = e[c + j]
  BY <1>2
<1>6. d \in Seq(S) /\ Len(d) = m + 1 /\ \A j \in 1..(m + 1) : d[j] = e[c - 1 + j]
  BY <1>3
<1> HIDE DEF a, b, d
<1>7. /\ a \o b \in Seq(S) /\ Len(a \o b) = m + 1
      /\ \A i \in 1..(m + 1) : (a \o b)[i] = IF i <= 1 THEN a[i] ELSE b[i - 1]
  <2>1. /\ a \o b \in Seq(S) /\ Len(a \o b) = Len(a) + Len(b)
        /\ \A i \in 1..(Len(a) + Len(b)) :
              (a \o b)[i] = IF i <= Len(a) THEN a[i] ELSE b[i - Len(a)]
    BY <1>4, <1>5, ConcatProperties
  <2>2. Len(a) + Len(b) = m + 1 /\ Len(a) = 1
    BY <1>4, <1>5
  <2> QED
    BY <2>1, <2>2
<1>8. ASSUME NEW i \in 1..(m + 1) PROVE (a \o b)[i] = d[i]
  <2>1. CASE i = 1
    <3>1. c - 1 + 1 = c
      OBVIOUS
    <3> QED
      BY <1>4, <1>6, <1>7, <2>1, <3>1
  <2>2. CASE i # 1
    <3>1. i - 1 \in 1..m /\ c + (i - 1) = c - 1 + i /\ ~(i <= 1)
      BY <2>2
    <3>2. (a \o b)[i] = b[i - 1] /\ b[i - 1] = e[c + (i - 1)]
      BY <1>5, <1>7, <3>1
    <3> QED
      BY <1>6, <3>1, <3>2
  <2> QED
    BY <2>1, <2>2
<1>9. a \o b = d
  BY <1>6, <1>7, <1>8, SeqEqual
<1> QED
  BY <1>9 DEF a, b, d

AreRead(w, q, write, e) ==
    /\ \A i \in 1..Len(q) : write[q[i]] \in Seq(Fields)
    /\ \A i \in 1..Len(q), x \in 1..(Len(w) + 1) :
          At(w, x, write[q[i]]) =>
             ReadObject(w, x, ReadAll(w)) = Got(e[i], x + Len(write[q[i]]))

FirstOf(e, n) == [i \in 1..n |-> e[i]]

LEMMA ElementsRead ==
    ASSUME NEW w \in Seq(Fields), NEW p \in 1..(Len(w) + 1), NEW q, Len(q) \in Nat, NEW e,
           NEW write, AreRead(w, q, write, e), At(w, p, WriteAll(q, write)[Len(q)])
    PROVE  ReadAll(w)[p][Len(q)] =
              Got(FirstOf(e, Len(q)), p + Len(WriteAll(q, write)[Len(q)]))
<1> DEFINE N == Len(q)
           A(i) == WriteAll(q, write)[i]
           R == ReadAll(w)
           end == p + Len(A(N))
           X == {k \in Nat : k <= N =>
                   /\ At(w, p, A(N - k))
                   /\ R[p + Len(A(N - k))][k] = Got([j \in 1..k |-> e[N - k + j]], end)}
<1>0. N \in Nat /\ p \in Nat \ {0} /\ Len(w) \in Nat
  OBVIOUS
<1>1. /\ A(0) = << >>
      /\ \A i \in 1..N : A(i) = A(i - 1) \o write[q[i]]
  BY WriteAllSteps
<1>2. \A i \in 0..N : A(i) \in Seq(Fields)
  <2>1. \A i \in 1..Len(q) : write[q[i]] \in Seq(Fields)
    BY DEF AreRead
  <2> QED
    BY <2>1, WriteAllTyped
<1>3. \A x \in 1..(Len(w) + 1) : R[x] = Reading(w, x, R)
  BY ReadEquation
<1>4. \A i \in 1..N, x \in 1..(Len(w) + 1) :
         At(w, x, write[q[i]]) => ReadObject(w, x, R) = Got(e[i], x + Len(write[q[i]]))
  BY DEF AreRead
<1>5. At(w, p, A(N))
  OBVIOUS
<1> HIDE DEF N, A, R
<1>6. ASSUME NEW i \in 0..N, At(w, p, A(i)) PROVE p + Len(A(i)) \in 1..(Len(w) + 1)
  <2>1. Len(A(i)) \in Nat
    BY <1>2
  <2> QED
    BY <1>0, <1>6, <2>1 DEF At
<1>7. 0 \in X
  <2>1. N - 0 = N /\ end \in 1..(Len(w) + 1)
    BY <1>0, <1>6, <1>5
  <2>2. R[end][0] = Got(<< >>, end)
    BY <1>3, <2>1 DEF Reading
  <2>3. [j \in 1..0 |-> e[N - 0 + j]] = << >>
    OBVIOUS
  <2> QED
    BY <1>5, <2>1, <2>2, <2>3
<1>8. ASSUME NEW k \in Nat, k \in X PROVE k + 1 \in X
  <2> SUFFICES ASSUME k + 1 <= N
               PROVE  /\ At(w, p, A(N - (k + 1)))
                      /\ R[p + Len(A(N - (k + 1)))][k + 1] =
                            Got([j \in 1..(k + 1) |-> e[N - (k + 1) + j]], end)
    OBVIOUS
  <2> DEFINE i == N - k
  <2>1. i \in 1..N /\ i - 1 \in 0..N /\ i \in 0..N /\ N - (k + 1) = i - 1
    BY <1>0
  <2>2. At(w, p, A(i)) /\ R[p + Len(A(i))][k] = Got([j \in 1..k |-> e[i + j]], end)
    BY <1>0, <1>8
  <2> HIDE DEF i, end
  <2>3. A(i) = A(i - 1) \o write[q[i]] /\ A(i - 1) \in Seq(Fields) /\ write[q[i]] \in Seq(Fields)
    BY <1>1, <1>2, <2>1 DEF N, AreRead
  <2> DEFINE x == p + Len(A(i - 1))
  <2>4. /\ At(w, p, A(i - 1)) /\ At(w, x, write[q[i]])
        /\ Len(A(i)) = Len(A(i - 1)) + Len(write[q[i]])
    BY <1>0, <2>2, <2>3, AtParts
  <2>5. x \in 1..(Len(w) + 1)
    BY <1>6, <2>1, <2>4
  <2>6. x + Len(write[q[i]]) = p + Len(A(i))
    <3>1. Len(A(i - 1)) \in Nat /\ Len(write[q[i]]) \in Nat
      BY <2>3
    <3>2. \A a, b \in Nat : (p + a) + b = p + (a + b)
      BY <1>0
    <3>3. (p + Len(A(i - 1))) + Len(write[q[i]]) = p + (Len(A(i - 1)) + Len(write[q[i]]))
      BY <3>1, <3>2
    <3>4. Len(A(i)) = Len(A(i - 1)) + Len(write[q[i]])
      BY <2>4
    <3> QED
      BY <3>3, <3>4
  <2>7. ReadObject(w, x, R) = Got(e[i], p + Len(A(i)))
    BY <1>4, <2>1, <2>4, <2>5, <2>6
  <2> HIDE DEF x
  <2>8. R[x][k + 1] = Got(<<e[i]>> \o [j \in 1..k |-> e[i + j]], end)
    <3>1. k + 1 \in Nat /\ k + 1 # 0 /\ (k + 1) - 1 = k
      OBVIOUS
    <3>2. R[x] = Reading(w, x, R)
      BY <1>3, <2>5
    <3> DEFINE one  == ReadObject(w, x, R)
               more == R[one.next][k]
    <3>3. R[x][k + 1] = IF one.ok /\ more.ok
                        THEN Got(<<one.value>> \o more.value, more.next) ELSE Thrown
      BY <3>1, <3>2 DEF Reading
    <3>4. one.ok /\ one.value = e[i] /\ one.next = p + Len(A(i))
      BY <2>7 DEF Got
    <3> HIDE DEF one
    <3>5. more.ok /\ more.value = [j \in 1..k |-> e[i + j]] /\ more.next = end
      BY <2>2, <3>4 DEF Got
    <3> HIDE DEF more
    <3> QED
      BY <3>3, <3>4, <3>5
  <2>9. <<e[i]>> \o [j \in 1..k |-> e[i + j]] = [j \in 1..(k + 1) |-> e[i - 1 + j]]
    <3>1. i \in Nat
      BY <1>0, <2>1
    <3> QED
      BY <3>1, Cons
  <2> QED
    BY <2>1, <2>4, <2>8, <2>9 DEF x
<1>9. N \in X
  <2>1. Nat \subseteq X
    <3> HIDE DEF X
    <3> QED
      BY <1>7, <1>8, Induction
  <2> HIDE DEF X
  <2> QED
    BY <1>0, <2>1
<1>10. N - N = 0 /\ p + Len(A(0)) = p /\ \A j \in 1..N : N - N + j = j
  <2>1. A(0) = << >>
    BY <1>1
  <2>2. Len(A(0)) = 0
    BY <2>1
  <2>3. N - N = 0 /\ p + 0 = p /\ \A j \in 1..N : N - N + j = j
    BY <1>0
  <2> QED
    BY <2>2, <2>3
<1>11. R[p][N] = Got([j \in 1..N |-> e[N - N + j]], end)
  BY <1>0, <1>9, <1>10
<1>12. [j \in 1..N |-> e[N - N + j]] = [j \in 1..N |-> e[j]]
  BY <1>10
<1> QED
  BY <1>11, <1>12 DEF N, A, R, FirstOf

LEMMA ReadsBack ==
    ASSUME NEW w \in Seq(Fields)
    PROVE  \A o \in Values, x \in 1..(Len(w) + 1) :
              Expected[o] # << >> /\ At(w, x, WriteObject[o]) =>
                 ReadObject(w, x, ReadAll(w)) = Got(Expected[o][1], x + Len(WriteObject[o]))
<1> DEFINE R == ReadAll(w)
           OK(o) == \A x \in 1..(Len(w) + 1) :
                      Expected[o] # << >> /\ At(w, x, WriteObject[o]) =>
                         ReadObject(w, x, R) = Got(Expected[o][1], x + Len(WriteObject[o]))
           X == {k \in Nat : \A o \in Upto(k) : OK(o)}
<1>1. 0 \in X
  BY Levels
<1>2. ASSUME NEW k \in Nat, k \in X PROVE k + 1 \in X
  <2>1. ASSUME NEW o \in Upto(k + 1), NEW x \in 1..(Len(w) + 1),
               Expected[o] # << >>, At(w, x, WriteObject[o])
        PROVE  ReadObject(w, x, R) = Got(Expected[o][1], x + Len(WriteObject[o]))
    <3>0. o \in Values /\ WriteObject[o] = Parts(o, WriteObject) /\ Expected[o] = Wanted(o, Expected)
      BY Shapes, Written
    <3>1. CASE o \in Leaf /\ o.type # "array"
      <4>1. WriteObject[o] = WriteLeaf(o) /\ Expected[o] = ExpectedLeaf(o)
        BY <3>0, <3>1 DEF Parts, Wanted
      <4> HIDE DEF R
      <4> QED
        BY <2>1, <3>1, <4>1, LeafRead
    <3>2. CASE o.type = "array" /\ o.v \in Seq(Upto(k)) /\ Elements(o) \subseteq Upto(k)
      <4> DEFINE N == Len(o.v)
                 T == Tag("array") \o Field("int", N, 4)
                 A == WriteAll(o.v, WriteObject)[N]
                 e == [i \in 1..N |-> Expected[o.v[i]][1]]
      <4>1. N \in Nat /\ DOMAIN o.v = 1..N /\ \A i \in 1..N : o.v[i] \in Upto(k) /\ o.v[i] \in Values
        <5>1. \A y \in Upto(k) : y \in Values
          BY Levels, Shapes
        <5> QED
          BY <3>2, <5>1 DEF Elements
      <4>2. (\A i \in 1..N : Expected[o.v[i]] # << >>) /\ Expected[o] = << [type |-> "array", v |-> e] >>
        BY <2>1, <3>0, <3>2, <4>1 DEF Wanted
      <4>3. T = << [sort |-> "array", v |-> 0, len |-> 2], [sort |-> "int", v |-> N, len |-> 4] >>
        BY TwoFields DEF Tag, Field
      <4>4. WriteObject[o] = T \o A
        BY <3>0, <3>2 DEF Parts
      <4>5. T \in Seq(Fields)
        <5>1. Tag("array") \in Seq(Good) /\ Field("int", N, 4) \in Seq(Good)
          <6>1. Tag("array") \in Seq(Good)
            BY OneTag, Literals
          <6>2. Field("int", N, 4) \in Seq(Good)
            BY <4>1, OneField, Literals
          <6> QED
            BY <6>1, <6>2
        <5> QED
          BY <5>1, GoodFields
      <4>6. (\A i \in 1..N : WriteObject[o.v[i]] \in Seq(Fields)) /\ A \in Seq(Fields)
        <5>1. \A i \in 1..N : WriteObject[o.v[i]] \in Seq(Fields)
          BY <4>1, WrittenTyped
        <5> QED
          BY <4>1, <5>1, WriteAllTyped
      <4>7. Len(T) = 2 /\ T[1].sort = "array" /\ T[2].v = N
        <5> HIDE DEF T
        <5> QED
          BY <4>3
      <4>8. \A i \in 1..N, y \in 1..(Len(w) + 1) :
               At(w, y, WriteObject[o.v[i]]) =>
                  ReadObject(w, y, R) = Got(e[i], y + Len(WriteObject[o.v[i]]))
        BY <1>2, <4>1, <4>2
      <4> HIDE DEF T
      <4>9. At(w, x, T) /\ At(w, x + 2, A) /\ Len(WriteObject[o]) = 2 + Len(A)
        <5> HIDE DEF A
        <5>1. x \in Nat \ {0} /\ At(w, x, T \o A)
          BY <2>1, <4>4
        <5>2. At(w, x, T) /\ At(w, x + Len(T), A) /\ Len(T \o A) = Len(T) + Len(A)
          BY <4>5, <4>6, <5>1, AtParts
        <5> QED
          BY <4>4, <4>7, <5>2
      <4>10. /\ Len(A) \in Nat /\ Len(w) \in Nat /\ x \in Nat
             /\ x + 2 + Len(A) = x + (2 + Len(A))
        <5> HIDE DEF A
        <5>1. Len(A) \in Nat /\ Len(w) \in Nat /\ x \in Nat
          BY <4>6
        <5> QED
          BY <5>1
      <4>11. x < Len(w) /\ w[x].sort = "array" /\ w[x + 1].v = N /\ x + 2 \in 1..(Len(w) + 1)
        <5>1. x + 2 <= Len(w) + 1 /\ w[x + 1 - 1] = T[1] /\ w[x + 2 - 1] = T[2]
          BY <4>7, <4>9 DEF At
        <5>2. x + 1 - 1 = x /\ x + 2 - 1 = x + 1
          BY <4>10
        <5>3. w[x] = T[1] /\ w[x + 1] = T[2]
          BY <5>1, <5>2
        <5> QED
          BY <4>7, <4>10, <5>1, <5>3
      <4>12. R[x + 2][N] = Got(FirstOf(e, N), x + 2 + Len(A))
        <5>1. AreRead(w, o.v, WriteObject, e) /\ x + 2 \in 1..(Len(w) + 1)
          BY <4>6, <4>8, <4>11 DEF AreRead
        <5>2. At(w, x + 2, WriteAll(o.v, WriteObject)[Len(o.v)]) /\ Len(o.v) \in Nat
          BY <4>1, <4>9
        <5> DEFINE q == o.v
                   W == WriteObject
                   p == x + 2
        <5>3. p \in 1..(Len(w) + 1) /\ Len(q) \in Nat
          BY <5>1, <5>2
        <5>4. AreRead(w, q, W, e)
          BY <5>1
        <5>5. At(w, p, WriteAll(q, W)[Len(q)])
          BY <5>2
        <5> HIDE DEF e, q, W, p, N, A
        <5>6. ReadAll(w)[p][Len(q)] = Got(FirstOf(e, Len(q)), p + Len(WriteAll(q, W)[Len(q)]))
          BY <5>3, <5>4, <5>5, ElementsRead
        <5> QED
          BY <5>6 DEF q, W, p, N, A
      <4>13. FirstOf(e, N) = e
        BY DEF FirstOf
      <4> DEFINE all == R[x + 2][N]
      <4>14. all.ok /\ all.value = e /\ all.next = x + 2 + Len(A)
        BY <4>12, <4>13 DEF Got
      <4>15. ReadObject(w, x, R) = IF all.ok THEN Got([type |-> "array", v |-> all.value], all.next)
                                   ELSE Thrown
        BY <4>10, <4>11 DEF ReadObject
      <4> HIDE DEF all, e, A, N
      <4>16. ReadObject(w, x, R) = Got([type |-> "array", v |-> e], x + Len(WriteObject[o]))
        BY <4>9, <4>10, <4>14, <4>15
      <4>17. Expected[o][1] = [type |-> "array", v |-> e]
        BY <4>2
      <4> QED
        BY <4>16, <4>17
    <3> QED
      BY <3>1, <3>2, Shapes
  <2> QED
    BY <2>1
<1>3. Nat \subseteq X
  <2> HIDE DEF X
  <2> QED
    BY <1>1, <1>2, Induction
<1>4. \A o \in Values : OK(o)
  <2> HIDE DEF OK
  <2> QED
    BY <1>3, Levels
<1> QED
  BY <1>4

-----------------------------------------------------------------------------
(* The coder.  While it writes, what is written and what is still to write   *)
(* are the header and the value.                                             *)
Halfway ==
    /\ wire \in Seq(Fields) /\ todo \in Seq(Fields)
    /\ \E header \in {4, 10} :
          wire \o todo = Field("header", 0, header) \o WriteObject[object]

CoderInv ==
    /\ object \in Values
    /\ phase = "writing" => Halfway
    /\ RoundTrip

LEMMA Header ==
    ASSUME NEW header \in {4, 10}
    PROVE  /\ Field("header", 0, header) \in Seq(Good)
           /\ Field("header", 0, header) \in Seq(Fields)
           /\ Len(Field("header", 0, header)) = 1
<1>1. Field("header", 0, header) \in Seq(Good)
  <2>1. header \in Nat \ {0}
    OBVIOUS
  <2> QED
    BY <2>1, OneField, Literals
<1>2. Len(Field("header", 0, header)) = 1
  BY DEF Field
<1> QED
  BY <1>1, <1>2, GoodFields

LEMMA ExpectedOne ==
    ASSUME NEW o \in Values, Expected[o] # << >>
    PROVE  Expected[o] = << Expected[o][1] >>
<1>1. PICK y : Expected[o] = <<y>>
  <2>1. Expected[o] = Wanted(o, Expected)
    BY Written
  <2>2. CASE o.type = "array"
    BY <2>1, <2>2 DEF Wanted
  <2>3. CASE o.type # "array"
    <3>1. Expected[o] = ExpectedLeaf(o)
      BY <2>1, <2>3 DEF Wanted
    <3>2. CASE o.type \in {"function", "big"}
      BY <3>1, <3>2 DEF ExpectedLeaf
    <3>3. CASE o.type = "float"
      BY <3>1, <3>3 DEF ExpectedLeaf
    <3>4. CASE o.type \in {"null", "NaN"}
      BY <3>1, <3>4 DEF ExpectedLeaf
    <3>5. CASE o.type \notin {"function", "big", "float", "null", "NaN"}
      BY <3>1, <3>5 DEF ExpectedLeaf
    <3> QED
      BY <3>2, <3>3, <3>4, <3>5
  <2> QED
    BY <2>2, <2>3
<1> QED
  BY <1>1

LEMMA CoderInitInv == CoderInit => CoderInv
<1> SUFFICES ASSUME CoderInit PROVE CoderInv
  OBVIOUS
<1>1. object \in Values
  BY NestedAssumption DEF CoderInit, Objects, Values, NestedAssumption
<1>2. phase = "writing" /\ wire = << >>
  BY DEF CoderInit
<1>3. PICK header \in {4, 10} : todo = Field("header", 0, header) \o WriteObject[object]
  BY DEF CoderInit
<1>4. Field("header", 0, header) \in Seq(Fields) /\ WriteObject[object] \in Seq(Fields)
  BY <1>1, Header, WrittenTyped
<1>5. todo \in Seq(Fields)
  BY <1>3, <1>4, ConcatProperties
<1>6. wire \in Seq(Fields) /\ wire \o todo = todo
  BY <1>2, <1>5, EmptySeq, ConcatEmptySeq
<1> QED
  BY <1>1, <1>2, <1>3, <1>5, <1>6 DEF CoderInv, Halfway, RoundTrip

LEMMA Moved ==
    ASSUME NEW S, NEW q \in Seq(S), NEW r \in Seq(S), r # << >>
    PROVE  /\ Append(q, Head(r)) \in Seq(S) /\ Tail(r) \in Seq(S) /\ Head(r) \in S
           /\ Append(q, Head(r)) \o Tail(r) = q \o r
           /\ (q \o r)[Len(q) + 1] = Head(r) /\ Len(q) + 1 \in 1..Len(q \o r)
<1>1. Head(r) \in S /\ Tail(r) \in Seq(S) /\ Head(r) = r[1] /\ Len(r) \in Nat \ {0} /\ Len(q) \in Nat
  OBVIOUS
<1>2. Len(Tail(r)) = Len(r) - 1 /\ \A i \in 1..(Len(r) - 1) : Tail(r)[i] = r[i + 1]
  OBVIOUS
<1> DEFINE a == Append(q, Head(r))
           t == Tail(r)
<1>3. a \in Seq(S) /\ Len(a) = Len(q) + 1 /\ a[Len(q) + 1] = r[1] /\ \A i \in 1..Len(q) : a[i] = q[i]
  BY <1>1
<1>4. t \in Seq(S) /\ Len(t) = Len(r) - 1 /\ \A i \in 1..(Len(r) - 1) : t[i] = r[i + 1]
  BY <1>1, <1>2
<1> HIDE DEF a, t
<1>5. /\ a \o t \in Seq(S) /\ Len(a \o t) = Len(a) + Len(t)
      /\ \A i \in 1..(Len(a) + Len(t)) : (a \o t)[i] = IF i <= Len(a) THEN a[i] ELSE t[i - Len(a)]
  BY <1>3, <1>4, ConcatProperties
<1>6. /\ q \o r \in Seq(S) /\ Len(q \o r) = Len(q) + Len(r)
      /\ \A i \in 1..(Len(q) + Len(r)) : (q \o r)[i] = IF i <= Len(q) THEN q[i] ELSE r[i - Len(q)]
  BY ConcatProperties
<1>7. Len(a \o t) = Len(q \o r) /\ Len(a) + Len(t) = Len(q) + Len(r)
  BY <1>1, <1>3, <1>4, <1>5, <1>6
<1>8. ASSUME NEW i \in 1..(Len(q) + Len(r)) PROVE (a \o t)[i] = (q \o r)[i]
  <2>1. CASE i <= Len(q)
    BY <1>1, <1>3, <1>5, <1>6, <1>7, <2>1
  <2>2. CASE i = Len(q) + 1
    <3>1. (a \o t)[i] = a[i] /\ (q \o r)[i] = r[i - Len(q)] /\ i - Len(q) = 1
      BY <1>1, <1>3, <1>5, <1>6, <1>7, <2>2
    <3> QED
      BY <1>3, <2>2, <3>1
  <2>3. CASE i > Len(q) + 1
    <3>1. /\ (a \o t)[i] = t[i - Len(a)] /\ (q \o r)[i] = r[i - Len(q)]
          /\ i - Len(a) \in 1..(Len(r) - 1) /\ (i - Len(a)) + 1 = i - Len(q)
      BY <1>1, <1>3, <1>5, <1>6, <1>7, <2>3
    <3> QED
      BY <1>4, <3>1
  <2>4. i <= Len(q) \/ i = Len(q) + 1 \/ i > Len(q) + 1
    <3>1. i \in Nat /\ Len(q) \in Nat
      BY <1>1
    <3> QED
      BY <3>1
  <2> QED
    BY <2>1, <2>2, <2>3, <2>4
<1>9. a \o t = q \o r
  BY <1>5, <1>6, <1>7, <1>8, SeqEqual
<1>10. (q \o r)[Len(q) + 1] = r[1] /\ Len(q) + 1 \in 1..Len(q \o r)
  <2>1. Len(q) + 1 \in 1..(Len(q) + Len(r)) /\ ~(Len(q) + 1 <= Len(q)) /\ (Len(q) + 1) - Len(q) = 1
    BY <1>1
  <2> QED
    BY <1>6, <2>1
<1> QED
  BY <1>1, <1>3, <1>4, <1>9, <1>10 DEF a, t

(* What readObject yields when everything is written. *)
LEMMA Decoded ==
    ASSUME object \in Values, Halfway, todo = << >>, Expected[object] # << >>
    PROVE  ReadAll(wire)[2][1].ok /\ ReadAll(wire)[2][1].value = Expected[object]
<1> DEFINE W == WriteObject[object]
           R == ReadAll(wire)
<1>1. PICK header \in {4, 10} : wire \o todo = Field("header", 0, header) \o W
  BY DEF Halfway
<1> DEFINE H == Field("header", 0, header)
<1>2. H \in Seq(Fields) /\ Len(H) = 1 /\ W \in Seq(Fields) /\ wire \in Seq(Fields)
  BY Header, WrittenTyped DEF Halfway
<1> HIDE DEF W, H
<1>3. wire = H \o W
  <2>1. wire \o todo = wire
    BY <1>2, ConcatEmptySeq
  <2> QED
    BY <1>1, <2>1 DEF H
<1>4. Len(wire) = 1 + Len(W) /\ Len(W) \in Nat
  <2>1. Len(H \o W) = Len(H) + Len(W)
    BY <1>2, ConcatProperties
  <2> QED
    BY <1>2, <1>3, <2>1
<1>5. At(wire, 2, W)
  <2>1. At(wire, 1, H \o W)
    <3>1. \A j \in 1..Len(wire) : 1 + j - 1 = j
      BY <1>4
    <3> QED
      BY <1>3, <1>4, <3>1 DEF At
  <2>2. 1 \in Nat \ {0} /\ 1 + Len(H) = 2
    BY <1>2
  <2>3. At(wire, 1 + Len(H), W)
    BY <1>2, <2>1, <2>2, AtParts
  <2> QED
    BY <2>2, <2>3
<1>6. 2 \in 1..(Len(wire) + 1)
  BY <1>4
<1>7. ReadObject(wire, 2, R) = Got(Expected[object][1], 2 + Len(W))
  BY <1>2, <1>5, <1>6, ReadsBack DEF W
<1>8. \A p \in 1..(Len(wire) + 1) : R[p] = Reading(wire, p, R)
  BY <1>2, ReadEquation
<1> HIDE DEF R
<1>9. 2 + Len(W) \in 1..(Len(wire) + 1)
  BY <1>4
<1>10. R[2 + Len(W)][0] = Got(<< >>, 2 + Len(W))
  BY <1>8, <1>9 DEF Reading
<1> DEFINE one  == ReadObject(wire, 2, R)
           more == R[one.next][0]
<1>11. R[2][1] = IF one.ok /\ more.ok THEN Got(<<one.value>> \o more.value, more.next) ELSE Thrown
  <2>1. 1 \in Nat /\ 1 # 0 /\ 1 - 1 = 0
    OBVIOUS
  <2>2. R[2] = Reading(wire, 2, R)
    BY <1>6, <1>8
  <2> QED
    BY <2>1, <2>2 DEF Reading
<1>12. one.ok /\ one.value = Expected[object][1] /\ one.next = 2 + Len(W)
  BY <1>7 DEF Got
<1> HIDE DEF one
<1>13. more.ok /\ more.value = << >>
  BY <1>10, <1>12 DEF Got
<1> HIDE DEF more
<1>14. R[2][1].ok /\ R[2][1].value = << Expected[object][1] >> \o << >>
  BY <1>11, <1>12, <1>13 DEF Got
<1>15. << Expected[object][1] >> \o << >> = << Expected[object][1] >>
  <2> DEFINE y == Expected[object][1]
  <2>1. <<y>> \in Seq({y})
    OBVIOUS
  <2> HIDE DEF y
  <2>2. <<y>> \o << >> = <<y>>
    BY <2>1, ConcatEmptySeq
  <2> QED
    BY <2>2 DEF y
<1> QED
  BY <1>14, <1>15, ExpectedOne DEF R

LEMMA CoderStepInv == CoderInv /\ [CoderNext]_coderVars => CoderInv'
<1> SUFFICES ASSUME CoderInv, [CoderNext]_coderVars PROVE CoderInv'
  OBVIOUS
<1>1. CASE Write
  <2>1. Halfway /\ todo # << >> /\ phase = "writing"
    BY <1>1 DEF Write, CoderInv
  <2>2. /\ wire' = Append(wire, Head(todo)) /\ todo' = Tail(todo)
        /\ UNCHANGED <<object, phase, result>>
    BY <1>1 DEF Write
  <2>3. /\ Append(wire, Head(todo)) \in Seq(Fields) /\ Tail(todo) \in Seq(Fields)
        /\ Append(wire, Head(todo)) \o Tail(todo) = wire \o todo
    <3>1. wire \in Seq(Fields) /\ todo \in Seq(Fields)
      BY <2>1 DEF Halfway
    <3> QED
      BY <2>1, <3>1, Moved
  <2>4. Halfway'
    BY <2>1, <2>2, <2>3 DEF Halfway
  <2> QED
    BY <2>1, <2>2, <2>4 DEF CoderInv, RoundTrip
<1>2. CASE WriteThrows
  <2>1. /\ Halfway /\ todo # << >> /\ Head(todo).sort = "error"
        /\ UNCHANGED <<object, todo, wire, result>> /\ phase' = "thrown"
    BY <1>2 DEF WriteThrows, CoderInv
  <2>2. ASSUME Expected[object] # << >> PROVE FALSE
    <3>1. PICK header \in {4, 10} : wire \o todo = Field("header", 0, header) \o WriteObject[object]
      BY <2>1 DEF Halfway
    <3>2. Field("header", 0, header) \in Seq(Good) /\ WriteObject[object] \in Seq(Good)
      BY <2>2, Header, WrittenTyped DEF CoderInv
    <3>3. wire \o todo \in Seq(Good)
      BY <3>1, <3>2, ConcatProperties
    <3>4. /\ (wire \o todo)[Len(wire) + 1] = Head(todo)
          /\ Len(wire) + 1 \in 1..Len(wire \o todo)
      <4>1. wire \in Seq(Fields) /\ todo \in Seq(Fields)
        BY <2>1 DEF Halfway
      <4> QED
        BY <2>1, <4>1, Moved
    <3>5. Head(todo) \in Good
      BY <3>3, <3>4, ElementOfSeq
    <3> QED
      BY <2>1, <3>5 DEF Good, Sorts, LeafTypes
  <2> QED
    BY <2>1, <2>2 DEF CoderInv, RoundTrip
<1>3. CASE ReadBack
  <2>1. Halfway /\ todo = << >> /\ UNCHANGED <<object, todo, wire>> /\ object \in Values
    BY <1>3 DEF ReadBack, CoderInv
  <2>2. /\ phase' = IF ReadAll(wire)[2][1].ok THEN "read" ELSE "unread"
        /\ result' = IF ReadAll(wire)[2][1].ok THEN ReadAll(wire)[2][1].value ELSE << >>
    BY <1>3 DEF ReadBack
  <2>3. phase' # "writing"
    BY <2>2
  <2>4. Expected[object] # << >> => phase' = "read" /\ result' = Expected[object]
    BY <2>1, <2>2, Decoded
  <2> QED
    BY <2>1, <2>3, <2>4 DEF CoderInv, RoundTrip
<1>4. CASE UNCHANGED coderVars
  BY <1>4 DEF coderVars, CoderInv, Halfway, RoundTrip
<1>5. CASE Decode
  <2>1. phase' \in {"decoded", "undecoded"} /\ UNCHANGED <<object, todo, wire>>
    BY <1>5 DEF Decode
  <2> QED
    BY <2>1 DEF CoderInv, Halfway, RoundTrip
<1> QED
  BY <1>1, <1>2, <1>3, <1>4, <1>5 DEF CoderNext

(* readObject gives back what writeObject has written, from the bytes        *)
(* written (outputBuffer.ts:118-192, inputBuffer.ts:111-166): RoundTrip, for  *)
(* arrays of any length and depth.  It is about the pair of them, not about   *)
(* the coder, which cuts these bytes off (outputBuffer.ts:225).             *)
THEOREM ReaderInvertsWriter == CoderSpec => []RoundTrip
<1>1. CoderInv => RoundTrip
  BY DEF CoderInv
<1> QED
  BY CoderInitInv, CoderStepInv, <1>1, PTL DEF CoderSpec

(* The coder uses its buffer by its write methods alone.                     *)
LEMMA CoderPuts == CoderInv /\ BufIInv /\ [CoderNext]_coderVars => [BufNext]_bufVars
<1> SUFFICES ASSUME CoderInv, BufIInv, [CoderNext]_coderVars PROVE [BufNext]_bufVars
  OBVIOUS
<1>1. CASE Write
  <2>1. todo # << >> /\ Head(todo).sort # "error" /\ Halfway /\ Put(Head(todo).len)
    BY <1>1 DEF Write, CoderInv
  <2>2. Head(todo) \in Fields
    BY <2>1 DEF Halfway
  <2>3. Head(todo).len \in Nat \ {0}
    BY <2>1, <2>2 DEF Fields, Good
  <2> DEFINE len == Head(todo).len
  <2> HIDE DEF len
  <2>4. len \in Nat \ {0} /\ Put(len)
    BY <2>1, <2>3 DEF len
  <2>5. len \in 1..MaxCount
    BY <2>4, BoundAssumption DEF Put, BufIInv, BoundAssumption
  <2> QED
    BY <2>4, <2>5 DEF BufNext
<1>2. CASE WriteThrows \/ ReadBack \/ Decode \/ UNCHANGED coderVars
  BY <1>2 DEF WriteThrows, ReadBack, Decode, coderVars, bufVars
<1> QED
  BY <1>1, <1>2 DEF CoderNext

(* Encoding a value never writes behind the buffer: Fits, as the run checks  *)
(* it, whatever is encoded.                                                  *)
THEOREM EncodingFits == CoderSpec => []Fits
<1>1. CoderInit => BufIInv
  BY BufInitInv DEF CoderInit
<1>2. CoderInv /\ BufIInv /\ [CoderNext]_coderVars => BufIInv'
  BY CoderPuts, BufStepInv
<1>3. BufIInv => Fits
  BY DEF BufIInv, Fits
<1> QED
  BY CoderInitInv, CoderStepInv, <1>1, <1>2, <1>3, PTL DEF CoderSpec
=============================================================================
