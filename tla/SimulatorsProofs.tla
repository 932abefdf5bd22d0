--------------------------- MODULE SimulatorsProofs ---------------------------
(***************************************************************************)
(* Proofs about Simulators: the inductive invariants of the five           *)
(* scheduling simulators, and what follows from them.                      *)
(***************************************************************************)
EXTENDS Simulators, Sequences, InductionLemmas, FunctionTheorems, TLAPS
-----------------------------------------------------------------------------
(***************************************************************************)
(* The multi-level scheduler: its queues.                                  *)
(***************************************************************************)
(* The assumptions on Mlfq's constants, as the proofs use them.            *)
LEMMA MlfqConstants ==
  /\ n \in Nat \ {0} /\ MlfqBursts \subseteq Nat /\ MlfqArrivals \subseteq Nat
  /\ q1_quantum \in Nat \ {0} /\ q2_quantum \in Nat \ {0}
  BY SimulatorsAssumption DEF SimulatorsAssumption, Q!MlfqAssumption

(* The process ids, the levels and the quanta.                             *)
LEMMA MlfqNumbers ==
  /\ \A k : k \in Q!Levels <=> (k = 1 \/ k = 2 \/ k = 3)
  /\ \A p \in Q!Ids : p \in Nat
  /\ IsFiniteSet(Q!Ids) /\ Cardinality(Q!Ids) = n
<1>1. \A k : k \in Q!Levels <=> (k = 1 \/ k = 2 \/ k = 3)
  BY DEF Q!Levels
<1>2. \A p \in Q!Ids : p \in Nat
  BY DEF Q!Ids
<1>3. IsFiniteSet(Q!Ids) /\ Cardinality(Q!Ids) = n
  BY MlfqConstants, FS_Interval DEF Q!Ids
<1> QED BY <1>1, <1>2, <1>3

(* Cardinality, as Mlfq knows it.                                          *)
LEMMA MlfqCardinality == ASSUME NEW T PROVE Q!Cardinality(T) = Cardinality(T)
  BY DEF Q!Cardinality, Cardinality

(* An ascending sequence of T's length. *)
Ascends(s, T) ==
  /\ s \in [1 .. Cardinality(T) -> T]
  /\ \A j, m \in 1 .. Cardinality(T) : j < m => s[j] < s[m]

(* It can be had by putting the largest element behind the others.          *)
LEMMA AscendingExists ==
  ASSUME NEW T, T \subseteq Nat, IsFiniteSet(T)
  PROVE  \E s : Ascends(s, T)
<1> DEFINE bad == {c \in Nat : \E U \in SUBSET T : IsFiniteSet(U) /\ Cardinality(U) = c /\ ~\E s : Ascends(s, U)}
<1>1. ASSUME bad # {} PROVE FALSE
  <2>1. PICK c \in bad : \A d \in bad : c <= d
    <3>1. bad \subseteq Nat
      OBVIOUS
    <3> HIDE DEF bad
    <3> QED BY <1>1, <3>1, SmallestOf
  <2>2. PICK U \in SUBSET T : IsFiniteSet(U) /\ Cardinality(U) = c /\ ~\E s : Ascends(s, U)
    BY <2>1
  <2>3. c \in Nat
    BY <2>1
  <2>4. CASE U = {}
    <3>1. Cardinality(U) = 0
      BY <2>4, FS_EmptySet
    <3>2. Ascends([j \in 1 .. 0 |-> 0], U)
      BY <3>1 DEF Ascends
    <3> QED BY <2>2, <3>2
  <2>5. CASE U # {}
    <3>0. U \subseteq Nat
      BY <2>2
    <3>1. PICK g \in U : \A x \in U : x <= g
      BY <2>2, <2>5, <3>0, LargestOf
    <3> DEFINE V == U \ {g}
    <3>2. IsFiniteSet(V) /\ Cardinality(V) = c - 1 /\ Cardinality(V) \in Nat
      <4>1. IsFiniteSet(V) /\ Cardinality(V) = Cardinality(U) - 1
        BY <2>2, <3>1, FS_RemoveElement
      <4> QED BY <2>2, <4>1, FS_CardinalityType
    <3>3. \E s : Ascends(s, V)
      <4>1. c - 1 \in Nat /\ ~(c <= c - 1)
        BY <2>3, <3>2
      <4>2. V \in SUBSET T
        OBVIOUS
      <4> HIDE DEF V
      <4> QED BY <2>1, <3>2, <4>1, <4>2
    <3>4. PICK s : Ascends(s, V)
      BY <3>3
    <3> DEFINE t == [j \in 1 .. c |-> IF j = c THEN g ELSE s[j]]
    <3>5. s \in [1 .. c - 1 -> V] /\ \A j, m \in 1 .. c - 1 : j < m => s[j] < s[m]
      <4> HIDE DEF V
      <4> QED BY <3>2, <3>4 DEF Ascends
    <3>6. \A j \in 1 .. c : j = c \/ j \in 1 .. c - 1
      BY <2>3
    <3>7. t \in [1 .. c -> U]
      <4>1. ASSUME NEW j \in 1 .. c PROVE (IF j = c THEN g ELSE s[j]) \in U
        BY <3>1, <3>5, <3>6
      <4> QED BY <4>1
    <3>8. ASSUME NEW j \in 1 .. c, NEW m \in 1 .. c, j < m PROVE t[j] < t[m]
      <4>1. j # c /\ j \in 1 .. c - 1 /\ t[j] = s[j] /\ s[j] \in V
        BY <2>3, <3>5, <3>8
      <4>2. CASE m = c
        <5>1. t[m] = g /\ s[j] <= g /\ s[j] # g /\ s[j] \in Nat /\ g \in Nat
          BY <3>0, <3>1, <4>1, <4>2
        <5> HIDE DEF t
        <5> QED BY <4>1, <5>1
      <4>3. CASE m # c
        BY <3>5, <3>6, <3>8, <4>1, <4>3
      <4> QED BY <4>2, <4>3
    <3>9. Ascends(t, U)
      <4> HIDE DEF t
      <4> QED BY <2>2, <3>7, <3>8 DEF Ascends
    <3> QED BY <2>2, <3>9
  <2> QED BY <2>4, <2>5
<1>2. Cardinality(T) \in Nat
  BY FS_CardinalityType
<1> QED BY <1>1, <1>2

(* A sequence with everything in T, once. *)
Lists(s, T) ==
  /\ s \in Seq(T)
  /\ \A j, m \in 1 .. Len(s) : s[j] = s[m] => j = m
  /\ \A p \in T : \E j \in 1 .. Len(s) : s[j] = p

(* ByIndex lists every member of its set once.                             *)
LEMMA ByIndexLists ==
  ASSUME NEW T, T \subseteq Q!Ids
  PROVE  Lists(Q!ByIndex(T), T)
<1>0. T \subseteq Nat /\ IsFiniteSet(T) /\ Cardinality(T) \in Nat
  BY MlfqNumbers, FS_Subset, FS_CardinalityType
<1> DEFINE s == Q!ByIndex(T)
           c == Cardinality(T)
<1>1. s = CHOOSE f \in [1 .. c -> T] : \A j, m \in DOMAIN f : j < m => f[j] < f[m]
  BY MlfqCardinality DEF Q!ByIndex
<1>2. \E f \in [1 .. c -> T] : \A j, m \in DOMAIN f : j < m => f[j] < f[m]
  <2>1. PICK f : Ascends(f, T)
    BY <1>0, AscendingExists
  <2> QED BY <2>1 DEF Ascends
<1> HIDE DEF s
<1>3. s \in [1 .. c -> T] /\ \A j, m \in DOMAIN s : j < m => s[j] < s[m]
  BY <1>1, <1>2
<1> HIDE DEF c
<1>4. c \in Nat
  BY <1>0 DEF c
<1>5. s \in Seq(T) /\ Len(s) = c /\ DOMAIN s = 1 .. c
  BY <1>3, <1>4
<1>6. ASSUME NEW j \in 1 .. c, NEW m \in 1 .. c, s[j] = s[m] PROVE j = m
  <2>1. s[j] \in Nat /\ s[m] \in Nat
    BY <1>0, <1>3
  <2> QED BY <1>3, <1>4, <1>6, <2>1
<1>7. s \in Injection(1 .. c, T)
  <2>1. s \in [1 .. c -> T]
    BY <1>3
  <2> QED BY <1>6, <2>1 DEF Injection, IsInjective
<1>8. IsFiniteSet(1 .. c) /\ Cardinality(1 .. c) = c
  BY <1>4, FS_Interval
<1>9. s \in Surjection(1 .. c, T)
  BY <1>0, <1>7, <1>8, FS_Injection DEF c
<1>10. \A p \in T : \E j \in 1 .. c : s[j] = p
  BY <1>9 DEF Surjection
<1> QED BY <1>5, <1>6, <1>10 DEF Lists, s

(* The types of multi_level_sched.c's variables.                           *)
MlfqTyped ==
  /\ arrival_time \in [Q!Ids -> MlfqArrivals] /\ burst_time \in [Q!Ids -> MlfqBursts]
  /\ remaining_time \in [Q!Ids -> Int] /\ \A p \in Q!Ids : remaining_time[p] <= burst_time[p]
  /\ rem_after_interrupt \in [Q!Ids -> Nat]
  /\ in_q \in [Q!Levels -> SUBSET Q!Ids]
  /\ queue \in [Q!Levels -> Seq(Q!Ids)]
  /\ front \in [Q!Levels -> Nat]
  /\ time \in Nat
  /\ finished \subseteq Q!Ids /\ completed \in 0 .. n
  /\ state \in {"runs", "done"}

(* Each queue lists the processes with its flag; who enters a lower one is  *)
(* in the upper ones, if only as an entry that has been passed.             *)
QueuesInv ==
  /\ \A k \in Q!Levels : Lists(queue[k], in_q[k]) /\ front[k] <= Len(queue[k])
  /\ in_q[3] \subseteq in_q[2] /\ in_q[2] \subseteq in_q[1]

(* The processes that have left queue k. *)
Left(k) == {queue[k][j] : j \in 1 .. front[k]}

(* Listing a second set after a first one that it does not meet.           *)
LEMMA JoinedLists ==
  ASSUME NEW s, NEW t, NEW U, NEW V, NEW W, Lists(s, U), Lists(t, V), U \intersect V = {}, W = U \union V
  PROVE  /\ Lists(s \o t, W) /\ Len(s \o t) = Len(s) + Len(t) /\ Len(s) \in Nat /\ Len(t) \in Nat
         /\ \A j \in 1 .. Len(s) : (s \o t)[j] = s[j]
<1> DEFINE u == s \o t
           a == Len(s)
           b == Len(t)
<1>1. s \in Seq(W) /\ t \in Seq(W) /\ s \in Seq(U) /\ t \in Seq(V)
  <2>1. s \in Seq(U) /\ t \in Seq(V) /\ U \subseteq W /\ V \subseteq W
    BY DEF Lists
  <2> QED BY ONLY <2>1
<1>2. /\ u \in Seq(W) /\ Len(u) = a + b /\ a \in Nat /\ b \in Nat
      /\ \A j \in 1 .. a : u[j] = s[j] /\ s[j] \in U
      /\ \A j \in 1 .. b : u[j + a] = t[j] /\ t[j] \in V
  <2>1. /\ u \in Seq(W) /\ Len(u) = a + b /\ a \in Nat /\ b \in Nat
        /\ \A j \in 1 .. a : u[j] = s[j]
        /\ \A j \in 1 .. b : u[j + a] = t[j]
    BY ONLY <1>1
  <2>2. (\A j \in 1 .. a : s[j] \in U) /\ (\A j \in 1 .. b : t[j] \in V)
    BY ONLY <1>1
  <2> QED BY <2>1, <2>2
<1>3. /\ \A j, m \in 1 .. a : s[j] = s[m] => j = m
      /\ \A j, m \in 1 .. b : t[j] = t[m] => j = m
      /\ \A p \in U : \E j \in 1 .. a : s[j] = p
      /\ \A p \in V : \E j \in 1 .. b : t[j] = p
  BY DEF Lists
<1> HIDE DEF u, a, b
<1>4. ASSUME NEW j \in 1 .. Len(u)
      PROVE  \/ j \in 1 .. a /\ u[j] = s[j] /\ u[j] \in U
             \/ \E i \in 1 .. b : j = i + a /\ u[j] = t[i] /\ u[j] \in V
  <2>0. j \in Nat /\ 1 <= j /\ j <= a + b /\ a \in Nat /\ b \in Nat
    BY ONLY <1>2, <1>4
  <2>1. CASE j <= a
    <3>1. j \in 1 .. a
      BY ONLY <2>0, <2>1
    <3> QED BY <1>2, <3>1
  <2>2. CASE ~(j <= a)
    <3>1. j - a \in 1 .. b /\ j = (j - a) + a
      BY ONLY <2>0, <2>2
    <3> QED BY <1>2, <3>1
  <2> QED BY <2>1, <2>2
<1>5. ASSUME NEW j \in 1 .. Len(u), NEW m \in 1 .. Len(u), u[j] = u[m] PROVE j = m
  <2>1. CASE u[j] \in U
    <3>1. u[j] \notin V /\ u[m] \notin V
      BY <1>5, <2>1
    <3>2. j \in 1 .. a /\ u[j] = s[j] /\ m \in 1 .. a /\ u[m] = s[m]
      BY ONLY <1>4, <1>5, <3>1
    <3> QED BY ONLY <1>3, <1>5, <3>2
  <2>2. CASE u[j] \notin U
    <3>1. PICK i \in 1 .. b : j = i + a /\ u[j] = t[i]
      BY ONLY <1>4, <1>5, <2>2
    <3>2. PICK i2 \in 1 .. b : m = i2 + a /\ u[m] = t[i2]
      BY ONLY <1>4, <1>5, <2>2
    <3>3. i = i2
      BY ONLY <1>3, <1>5, <3>1, <3>2
    <3> QED BY <3>1, <3>2, <3>3
  <2> QED BY <2>1, <2>2
<1>6. ASSUME NEW p \in W PROVE \E j \in 1 .. Len(u) : u[j] = p
  <2>1. CASE p \in U
    <3>1. PICK j \in 1 .. a : s[j] = p
      BY <1>3, <2>1
    <3>2. j \in 1 .. Len(u)
      BY ONLY <1>2, <3>1
    <3> QED BY <1>2, <3>1, <3>2
  <2>2. CASE p \in V
    <3>1. PICK j \in 1 .. b : t[j] = p
      BY <1>3, <2>2
    <3>2. j + a \in 1 .. Len(u)
      BY ONLY <1>2, <3>1
    <3> QED BY <1>2, <3>1, <3>2
  <2> QED BY <2>1, <2>2
<1>7. Lists(u, W)
  BY <1>2, <1>5, <1>6 DEF Lists
<1> QED BY <1>2, <1>7 DEF u, a, b

(* Appending newcomers keeps a queue a list without repetition.            *)
LEMMA QueuesGrow ==
  ASSUME MlfqTyped, QueuesInv
  PROVE  /\ Q!QueueNow \in [Q!Levels -> Seq(Q!Ids)] /\ Q!FlagsNow \in [Q!Levels -> SUBSET Q!Ids]
         /\ \A k \in Q!Levels :
              /\ Q!FlagsNow[k] = in_q[k] \union Q!Entrants(k)
              /\ Lists(Q!QueueNow[k], Q!FlagsNow[k])
              /\ Len(queue[k]) <= Len(Q!QueueNow[k]) /\ Len(queue[k]) \in Nat /\ Len(Q!QueueNow[k]) \in Nat
              /\ \A j \in 1 .. Len(queue[k]) : Q!QueueNow[k][j] = queue[k][j]
         /\ Q!FlagsNow[3] \subseteq Q!FlagsNow[2] /\ Q!FlagsNow[2] \subseteq Q!FlagsNow[1]
<1>1. ASSUME NEW k \in Q!Levels
      PROVE  Q!Entrants(k) \subseteq Q!Ids /\ in_q[k] \subseteq Q!Ids /\ in_q[k] \intersect Q!Entrants(k) = {}
  <2>1. in_q[k] \subseteq Q!Ids /\ Q!Entrants(k) \subseteq Q!Ids
    BY DEF MlfqTyped, Q!Entrants
  <2>2. ASSUME NEW p, Q!Enters(p, k) PROVE p \notin in_q[k]
    BY <2>2, MlfqNumbers DEF Q!Enters
  <2> QED BY <2>1, <2>2 DEF Q!Entrants
<1>2. Q!FlagsNow = [k \in Q!Levels |-> in_q[k] \union Q!Entrants(k)]
  BY DEF Q!FlagsNow
<1>3. Q!FlagsNow \in [Q!Levels -> SUBSET Q!Ids] /\ \A k \in Q!Levels : Q!FlagsNow[k] = in_q[k] \union Q!Entrants(k)
  BY <1>1, <1>2
<1>4. \A k \in Q!Levels : Q!QueueNow[k] = queue[k] \o Q!ByIndex(Q!Entrants(k))
  BY DEF Q!QueueNow
<1>5. ASSUME NEW k \in Q!Levels
      PROVE  /\ Lists(Q!QueueNow[k], Q!FlagsNow[k])
             /\ Len(queue[k]) <= Len(Q!QueueNow[k]) /\ Len(queue[k]) \in Nat /\ Len(Q!QueueNow[k]) \in Nat
             /\ \A j \in 1 .. Len(queue[k]) : Q!QueueNow[k][j] = queue[k][j]
             /\ Q!QueueNow[k] \in Seq(Q!Ids)
  <2> DEFINE s == queue[k]
             t == Q!ByIndex(Q!Entrants(k))
             U == in_q[k]
             V == Q!Entrants(k)
             W == Q!FlagsNow[k]
  <2>1. Lists(s, U) /\ Lists(t, V) /\ U \intersect V = {} /\ W = U \union V /\ W \subseteq Q!Ids
    BY <1>1, <1>3, ByIndexLists DEF QueuesInv
  <2>2. Q!QueueNow[k] = s \o t
    BY <1>4
  <2> HIDE DEF s, t, U, V, W
  <2>3. /\ Lists(s \o t, W) /\ Len(s \o t) = Len(s) + Len(t) /\ Len(s) \in Nat /\ Len(t) \in Nat
        /\ \A j \in 1 .. Len(s) : (s \o t)[j] = s[j]
    BY ONLY <2>1, JoinedLists
  <2>4. s \o t \in Seq(Q!Ids)
    <3>1. s \o t \in Seq(W)
      BY <2>3 DEF Lists
    <3> HIDE DEF Lists
    <3> QED BY <2>1, <3>1
  <2>5. Len(s) <= Len(s \o t) /\ Len(s \o t) \in Nat
    BY <2>3
  <2> QED BY <2>2, <2>3, <2>4, <2>5 DEF s, W
<1>6. Q!QueueNow \in [Q!Levels -> Seq(Q!Ids)]
  <2>1. Q!QueueNow = [k \in Q!Levels |-> queue[k] \o Q!ByIndex(Q!Entrants(k))]
    BY DEF Q!QueueNow
  <2>2. \A k \in Q!Levels : queue[k] \o Q!ByIndex(Q!Entrants(k)) \in Seq(Q!Ids)
    BY <1>4, <1>5
  <2> QED BY <2>1, <2>2
<1>7. Q!FlagsNow[3] \subseteq Q!FlagsNow[2] /\ Q!FlagsNow[2] \subseteq Q!FlagsNow[1]
  <2>1. /\ Q!FlagsNow[1] = in_q[1] \union Q!Entrants(1)
        /\ Q!FlagsNow[2] = in_q[2] \union Q!Entrants(2)
        /\ Q!FlagsNow[3] = in_q[3] \union Q!Entrants(3)
    BY <1>3, MlfqNumbers
  <2>2. Q!Entrants(2) \subseteq in_q[1] /\ Q!Entrants(3) \subseteq in_q[2]
    BY DEF Q!Entrants, Q!Enters
  <2> QED BY <2>1, <2>2 DEF QueuesInv
<1> QED BY <1>3, <1>5, <1>6, <1>7

(* What a pass does to the queues, seen before the turn it gives. *)
PassDone(k) ==
  /\ state = "runs" /\ completed < n
  /\ arrival_time' = arrival_time /\ burst_time' = burst_time /\ state' = state
  /\ queue' \in [Q!Levels -> Seq(Q!Ids)] /\ in_q' \in [Q!Levels -> SUBSET Q!Ids]
  /\ \A m \in Q!Levels :
       /\ in_q'[m] = in_q[m] \union Q!Entrants(m)
       /\ Lists(queue'[m], in_q'[m])
       /\ front[m] <= Len(queue'[m]) /\ {queue'[m][j] : j \in 1 .. front[m]} = Left(m)
       /\ m < k => in_q'[m] = Left(m)
       /\ Left(m) \subseteq in_q[m]
  /\ in_q'[3] \subseteq in_q'[2] /\ in_q'[2] \subseteq in_q'[1]
  /\ Q!get_top(k) \in in_q'[k] /\ Q!get_top(k) \in Q!Ids /\ Q!get_top(k) \notin Left(k)
  /\ front[k] + 1 <= Len(queue'[k])
  /\ {queue'[k][j] : j \in 1 .. front[k] + 1} = Left(k) \union {Q!get_top(k)}

(* The passes before a turn keep the queues as QueuesInv has them.         *)
LEMMA Passes ==
  ASSUME MlfqTyped, QueuesInv, NEW k \in Q!Levels, Q!Pass(k)
  PROVE  PassDone(k)
<1>1. /\ state = "runs" /\ completed < n /\ in_q' = Q!FlagsNow /\ queue' = Q!QueueNow
      /\ arrival_time' = arrival_time /\ burst_time' = burst_time /\ state' = state
      /\ front[k] < Len(Q!QueueNow[k])
      /\ \A m \in 1 .. k - 1 : ~(front[m] < Len(Q!QueueNow[m]))
      /\ Q!get_top(k) = Q!QueueNow[k][front[k] + 1]
  BY DEF Q!Pass, Q!Waiting, Q!get_top, Q!inputs
<1>2. ASSUME NEW m \in Q!Levels
      PROVE  /\ in_q'[m] = in_q[m] \union Q!Entrants(m)
             /\ Lists(queue'[m], in_q'[m])
             /\ front[m] <= Len(queue[m]) /\ Len(queue[m]) <= Len(queue'[m]) 
             /\ front[m] \in Nat /\ Len(queue[m]) \in Nat /\ Len(queue'[m]) \in Nat
             /\ \A j \in 1 .. front[m] : queue'[m][j] = queue[m][j]
  <2>1. front[m] <= Len(queue[m]) /\ front[m] \in Nat
    BY DEF QueuesInv, MlfqTyped
  <2>2. /\ in_q'[m] = in_q[m] \union Q!Entrants(m) /\ Lists(queue'[m], in_q'[m])
        /\ Len(queue[m]) <= Len(queue'[m]) /\ Len(queue[m]) \in Nat /\ Len(queue'[m]) \in Nat
        /\ \A j \in 1 .. Len(queue[m]) : queue'[m][j] = queue[m][j]
    BY <1>1, QueuesGrow
  <2> QED BY <2>1, <2>2
<1>3. ASSUME NEW m \in Q!Levels
      PROVE  /\ front[m] <= Len(queue'[m]) /\ {queue'[m][j] : j \in 1 .. front[m]} = Left(m)
             /\ Left(m) \subseteq in_q[m]
             /\ m < k => in_q'[m] = Left(m)
  <2>1. front[m] <= Len(queue'[m])
    BY <1>2
  <2>2. {queue'[m][j] : j \in 1 .. front[m]} = Left(m)
    BY <1>2 DEF Left
  <2>3. Left(m) \subseteq in_q[m]
    <3>1. queue[m] \in Seq(in_q[m])
      BY DEF QueuesInv, Lists
    <3>2. \A j \in 1 .. Len(queue[m]) : queue[m][j] \in in_q[m]
      BY <3>1
    <3> QED BY <1>2, <3>2 DEF Left
  <2>4. ASSUME m < k PROVE in_q'[m] = Left(m)
    <3>1. m \in 1 .. k - 1
      BY <2>4, MlfqNumbers
    <3>2. front[m] = Len(queue'[m])
      BY <1>1, <1>2, <3>1
    <3>3. \A p \in in_q'[m] : \E j \in 1 .. Len(queue'[m]) : queue'[m][j] = p
      BY <1>2 DEF Lists
    <3>4. in_q'[m] \subseteq Left(m)
      BY <2>2, <3>2, <3>3
    <3> QED BY <1>2, <2>3, <3>4
  <2> QED BY <2>1, <2>2, <2>3, <2>4
<1>4. in_q'[3] \subseteq in_q'[2] /\ in_q'[2] \subseteq in_q'[1]
      /\ queue' \in [Q!Levels -> Seq(Q!Ids)] /\ in_q' \in [Q!Levels -> SUBSET Q!Ids]
  BY <1>1, QueuesGrow
<1> DEFINE f == front[k] + 1
           top == Q!get_top(k)
<1>5. f \in 1 .. Len(queue'[k]) /\ f \in Nat /\ top = queue'[k][f] /\ f <= Len(queue'[k])
  BY <1>1, <1>2
<1> HIDE DEF f, top
<1>6. top \in in_q'[k] /\ top \in Q!Ids
  <2>1. queue'[k] \in Seq(in_q'[k]) /\ in_q'[k] \subseteq Q!Ids
    BY <1>2, <1>4 DEF Lists
  <2> QED BY <1>5, <2>1
<1>7. ASSUME top \in Left(k) PROVE FALSE
  <2>1. PICK j \in 1 .. front[k] : top = queue'[k][j]
    BY <1>3, <1>7
  <2>2. j \in 1 .. Len(queue'[k]) /\ j # f
    BY <1>2, <1>5, <2>1 DEF f
  <2>3. \A i, m \in 1 .. Len(queue'[k]) : queue'[k][i] = queue'[k][m] => i = m
    BY <1>2 DEF Lists
  <2>4. queue'[k][j] = queue'[k][f]
    BY <1>5, <2>1
  <2> QED BY ONLY <1>5, <2>2, <2>3, <2>4
<1>8. {queue'[k][j] : j \in 1 .. f} = Left(k) \union {top}
  <2>1. 1 .. f = (1 .. front[k]) \union {f}
    BY <1>2, <1>5 DEF f
  <2>2. {queue'[k][j] : j \in 1 .. f} = {queue'[k][j] : j \in 1 .. front[k]} \union {queue'[k][f]}
    BY <2>1
  <2> QED BY <1>3, <1>5, <2>2
<1> QED BY <1>1, <1>2, <1>3, <1>4, <1>5, <1>6, <1>7, <1>8 DEF PassDone, f, top

(* The entries stay where they are, and the queues above k have no more. *)
Heads(k) ==
  /\ \A m \in Q!Levels :
       /\ Len(queue[m]) <= Len(queue'[m]) /\ Len(queue[m]) \in Nat /\ Len(queue'[m]) \in Nat
       /\ \A j \in 1 .. Len(queue[m]) : queue'[m][j] = queue[m][j]
       /\ m < k => front[m] = Len(queue'[m])
  /\ Q!get_top(k) = queue'[k][front[k] + 1] /\ front[k] < Len(queue'[k]) /\ front[k] \in Nat

LEMMA PassHeads ==
  ASSUME MlfqTyped, QueuesInv, NEW k \in Q!Levels, Q!Pass(k)
  PROVE  Heads(k)
<1>1. /\ queue' = Q!QueueNow /\ front[k] < Len(Q!QueueNow[k])
      /\ \A m \in 1 .. k - 1 : ~(front[m] < Len(Q!QueueNow[m]))
      /\ Q!get_top(k) = Q!QueueNow[k][front[k] + 1] /\ front[k] \in Nat
  BY DEF Q!Pass, Q!Waiting, Q!get_top, MlfqTyped
<1>2. ASSUME NEW m \in Q!Levels
      PROVE  /\ Len(queue[m]) <= Len(queue'[m]) /\ Len(queue[m]) \in Nat /\ Len(queue'[m]) \in Nat
             /\ \A j \in 1 .. Len(queue[m]) : queue'[m][j] = queue[m][j]
  BY <1>1, QueuesGrow
<1>3. ASSUME NEW m \in Q!Levels, m < k PROVE front[m] = Len(queue'[m])
  <2>1. m \in 1 .. k - 1
    BY <1>3, MlfqNumbers
  <2>2. ~(front[m] < Len(queue'[m]))
    BY <1>1, <2>1
  <2>3. front[m] <= Len(queue[m]) /\ front[m] \in Nat
    BY DEF QueuesInv, MlfqTyped
  <2> QED BY <1>2, <2>2, <2>3
<1> QED BY <1>1, <1>2, <1>3 DEF Heads

(* Afterwards the front has moved past the top, or it has not. *)
LEMMA FrontStays ==
  ASSUME MlfqTyped, NEW k \in Q!Levels, PassDone(k), front' = front
  PROVE  QueuesInv' /\ \A m \in Q!Levels : Left(m)' = Left(m)
<1>1. QueuesInv'
  BY DEF QueuesInv, PassDone
<1>2. ASSUME NEW m \in Q!Levels PROVE Left(m)' = Left(m)
  BY DEF PassDone, Left
<1> QED BY <1>1, <1>2

(* A turn moves one process from what is queued to what has left.          *)
LEMMA FrontMoves ==
  ASSUME MlfqTyped, NEW k \in Q!Levels, PassDone(k), front' = [front EXCEPT ![k] = @ + 1]
  PROVE  /\ QueuesInv' /\ front' \in [Q!Levels -> Nat]
         /\ \A m \in Q!Levels : Left(m)' = IF m = k THEN Left(m) \union {Q!get_top(k)} ELSE Left(m)
<1>1. /\ front' \in [Q!Levels -> Nat] /\ front'[k] = front[k] + 1
      /\ \A m \in Q!Levels : m # k => front'[m] = front[m]
  BY DEF MlfqTyped
<1>2. QueuesInv'
  BY <1>1 DEF QueuesInv, PassDone
<1>3. ASSUME NEW m \in Q!Levels PROVE Left(m)' = IF m = k THEN Left(m) \union {Q!get_top(k)} ELSE Left(m)
  <2>1. CASE m = k
    <3>1. front'[k] = front[k] + 1
      BY <1>1
    <3>2. {queue'[k][j] : j \in 1 .. front[k] + 1} = Left(k) \union {Q!get_top(k)}
      BY DEF PassDone
    <3>3. Left(k)' = {queue'[k][j] : j \in 1 .. front'[k]}
      BY DEF Left
    <3>4. Left(k)' = Left(k) \union {Q!get_top(k)}
      BY ONLY <3>1, <3>2, <3>3
    <3> QED BY ONLY <2>1, <3>4
  <2>2. CASE m # k
    <3>1. front'[m] = front[m]
      BY <1>1, <2>2
    <3>2. {queue'[m][j] : j \in 1 .. front[m]} = Left(m)
      BY DEF PassDone
    <3> QED BY <2>2, <3>1, <3>2 DEF Left
  <2> QED BY <2>1, <2>2
<1> QED BY <1>1, <1>2, <1>3

(* Who has not left the first queue has not had a turn; who is marked as    *)
(* finished has had the whole burst.                                        *)
FreshInv ==
  /\ \A p \in Q!Ids : p \notin Left(1) =>
       remaining_time[p] = burst_time[p] /\ rem_after_interrupt[p] = 0 /\ p \notin finished
  /\ \A p \in finished : remaining_time[p] = 0

(* Min of two numbers.                                                     *)
LEMMA LesserOf ==
  ASSUME NEW a \in Int, NEW b \in Int
  PROVE  Q!Min({a, b}) = (IF a <= b THEN a ELSE b)
<1> DEFINE T == {a, b}
           c == IF a <= b THEN a ELSE b
<1>1. Q!Min(T) = CHOOSE x \in T : \A y \in T : x =< y
  BY DEF Q!Min
<1>2. c \in T /\ c \in Int /\ \A y \in T : c =< y
  OBVIOUS
<1>3. \A x \in T : x \in Int
  OBVIOUS
<1> HIDE DEF T, c
<1>4. Q!Min(T) \in T /\ \A y \in T : Q!Min(T) =< y
  BY <1>1, <1>2
<1>5. Q!Min(T) =< c /\ c =< Q!Min(T) /\ Q!Min(T) \in Int
  BY <1>2, <1>3, <1>4
<1> QED BY <1>2, <1>5 DEF T, c

(* The time a turn takes.                                                  *)
LEMMA TimeUsed ==
  ASSUME NEW w \in Int, Q!Interrupted(w)
  PROVE  Q!time_used(w) \in 0 .. w - 1
<1> DEFINE T == {u \in 0 .. w - 1 : Q!Arrives(u)}
<1>1. T # {} /\ T \subseteq Nat /\ T \subseteq 0 .. w - 1
  BY DEF Q!Interrupted
<1>2. Q!time_used(w) = CHOOSE x \in T : \A y \in T : x =< y
  BY DEF Q!time_used, Q!Min
<1> HIDE DEF T
<1>3. \E x \in T : \A y \in T : x <= y
  BY <1>1, SmallestOf
<1>4. Q!time_used(w) \in T
  BY <1>2, <1>3
<1> QED BY <1>1, <1>4

(* The head of queue k runs for e. *)
Turn(k, e) ==
  /\ PassDone(k) /\ Heads(k) /\ e \in Nat
  /\ k # 1 => remaining_time[Q!get_top(k)] > 0
  /\ k = 1 => remaining_time[Q!get_top(k)] <= e \/ q1_quantum <= e
  /\ Q!get_top(k) \notin finished /\ (k # 1 => Q!get_top(k) \in Left(1))
  /\ remaining_time' = [remaining_time EXCEPT ![Q!get_top(k)] = @ - e]
  /\ time' = time + e
  /\ rem_after_interrupt' \in [Q!Ids -> Nat]
  /\ \A p \in Q!Ids : p # Q!get_top(k) => rem_after_interrupt'[p] = rem_after_interrupt[p]
  /\ \/ finished' = finished /\ completed' = completed
     \/ /\ finished' = finished \union {Q!get_top(k)} /\ remaining_time[Q!get_top(k)] - e = 0
        /\ completed' = completed + 1
  /\ completed' \in 0 .. n
  /\ \/ front' = [front EXCEPT ![k] = @ + 1]
     \/ k # 1 /\ front' = front

(* The head of queue k is found to have nothing left. *)
Stale(k) ==
  /\ PassDone(k) /\ Heads(k) /\ k # 1 /\ remaining_time[Q!get_top(k)] <= 0
  /\ completed' \in 0 .. n /\ completed' = completed + 1
  /\ UNCHANGED <<remaining_time, rem_after_interrupt, front, time, finished>>

(* get_top() returns a process that is in the queue and has not left it.   *)
LEMMA Tops ==
  ASSUME MlfqTyped, QueuesInv, FreshInv, NEW k \in Q!Levels, Q!Pass(k)
  PROVE  /\ PassDone(k) /\ Heads(k) /\ Q!get_top(k) \in Q!Ids
         /\ k # 1 => Q!get_top(k) \in Left(1)
         /\ k = 1 => /\ Q!get_top(k) \notin finished /\ rem_after_interrupt[Q!get_top(k)] = 0
                     /\ remaining_time[Q!get_top(k)] = burst_time[Q!get_top(k)]
         /\ remaining_time[Q!get_top(k)] > 0 => Q!get_top(k) \notin finished
         /\ remaining_time[Q!get_top(k)] \in Int /\ rem_after_interrupt[Q!get_top(k)] \in Nat
         /\ burst_time[Q!get_top(k)] \in Nat
         /\ completed \in Nat /\ n \in Nat /\ completed + 1 \in 0 .. n /\ completed \in 0 .. n
<1>1. PassDone(k) /\ Heads(k)
  BY Passes, PassHeads
<1> DEFINE p == Q!get_top(k)
<1>2. p \in Q!Ids /\ p \in in_q'[k] /\ in_q'[3] \subseteq in_q'[2] /\ in_q'[2] \subseteq in_q'[1] /\ p \notin Left(k)
  BY <1>1 DEF PassDone
<1>3. ASSUME k # 1 PROVE p \in Left(1)
  <2>1. 1 \in Q!Levels /\ 1 < k /\ (k = 2 \/ k = 3)
    BY <1>3, MlfqNumbers
  <2>2. in_q'[1] = Left(1)
    BY <1>1, <2>1 DEF PassDone
  <2> QED BY <1>2, <2>1, <2>2
<1>4. k = 1 => p \notin finished /\ remaining_time[p] = burst_time[p] /\ rem_after_interrupt[p] = 0
  BY <1>2 DEF FreshInv
<1>5. remaining_time[p] > 0 => p \notin finished
  BY DEF FreshInv
<1>6. remaining_time[p] \in Int /\ rem_after_interrupt[p] \in Nat /\ burst_time[p] \in Nat
  BY <1>2, MlfqConstants DEF MlfqTyped
<1>7. completed \in Nat /\ n \in Nat /\ completed + 1 \in 0 .. n /\ completed \in 0 .. n
  BY <1>1, MlfqConstants DEF MlfqTyped, PassDone
<1> QED BY <1>1, <1>2, <1>3, <1>4, <1>5, <1>6, <1>7

(* What run() does is a turn, or stops at a stale entry.                   *)
LEMMA RunTurns ==
  ASSUME MlfqTyped, QueuesInv, FreshInv, NEW k \in Q!Levels, Q!Pass(k), NEW w \in Nat,
         Q!Run(k, Q!get_top(k), w), k = 1 => w = q1_quantum, k # 1 => remaining_time[Q!get_top(k)] > 0
  PROVE  \E e \in Nat :
           /\ Turn(k, e) /\ front' = [front EXCEPT ![k] = @ + 1] /\ rem_after_interrupt'[Q!get_top(k)] = 0
           /\ rem_after_interrupt[Q!get_top(k)] = 0 =>
                e = IF remaining_time[Q!get_top(k)] <= w THEN remaining_time[Q!get_top(k)] ELSE w
<1> DEFINE p == Q!get_top(k)
           e == IF rem_after_interrupt[p] > 0 THEN rem_after_interrupt[p]
                ELSE Q!Min({remaining_time[p], w})
<1>1. /\ front' = [front EXCEPT ![k] = @ + 1]
      /\ remaining_time' = [remaining_time EXCEPT ![p] = @ - e]
      /\ rem_after_interrupt' = [rem_after_interrupt EXCEPT ![p] = 0]
      /\ time' = time + e
      /\ Q!Count(p, remaining_time[p] - e)
  BY DEF Q!Run
<1>2. /\ PassDone(k) /\ Heads(k) /\ p \in Q!Ids /\ (k # 1 => p \in Left(1)) /\ p \notin finished
      /\ k = 1 => rem_after_interrupt[p] = 0
      /\ remaining_time[p] \in Nat /\ rem_after_interrupt[p] \in Nat
      /\ completed + 1 \in 0 .. n /\ completed \in 0 .. n
  BY Tops
<1>3. Q!Min({remaining_time[p], w}) = IF remaining_time[p] <= w THEN remaining_time[p] ELSE w
  BY <1>2, LesserOf
<1>4. e \in Nat /\ (rem_after_interrupt[p] = 0 => e = IF remaining_time[p] <= w THEN remaining_time[p] ELSE w)
  BY <1>2, <1>3
<1>40. (k # 1 => remaining_time[p] > 0) /\ (k = 1 => remaining_time[p] <= e \/ q1_quantum <= e)
  <2> HIDE DEF e
  <2> QED BY <1>2, <1>4
<1> HIDE DEF e, p
<1>5. /\ rem_after_interrupt' \in [Q!Ids -> Nat]
      /\ \A r \in Q!Ids : r # p => rem_after_interrupt'[r] = rem_after_interrupt[r]
      /\ rem_after_interrupt'[p] = 0
  BY <1>1, <1>2 DEF MlfqTyped
<1>6. /\ \/ finished' = finished /\ completed' = completed
         \/ finished' = finished \union {p} /\ remaining_time[p] - e = 0 /\ completed' = completed + 1
      /\ completed' \in 0 .. n
  BY <1>1, <1>2 DEF Q!Count
<1>7. Turn(k, e)
  BY <1>1, <1>2, <1>4, <1>40, <1>5, <1>6 DEF Turn, p
<1> QED BY <1>1, <1>4, <1>5, <1>7 DEF p

(* Every step is a turn, skips a stale entry, waits or ends.               *)
LEMMA MlfqSteps ==
  ASSUME MlfqTyped, QueuesInv, FreshInv, Q!Next
  PROVE  \/ \E k \in Q!Levels : Stale(k) \/ \E e \in Nat : Turn(k, e)
         \/ UNCHANGED Q!mlfqVars
         \/ Q!Finish
<1>1. ASSUME Q!RunQueue1 PROVE \E k \in Q!Levels : \E e \in Nat : Turn(k, e)
  <2>1. 1 \in Q!Levels /\ q1_quantum \in Nat /\ Q!Pass(1) /\ Q!Run(1, Q!get_top(1), q1_quantum)
    BY <1>1, MlfqNumbers, MlfqConstants DEF Q!RunQueue1
  <2> QED BY <2>1, RunTurns
<1>2. ASSUME NEW k \in Q!Levels, k # 1, Q!StaleHead(k) PROVE Stale(k)
  <2>1. Q!Pass(k) /\ completed' = completed + 1 /\ UNCHANGED <<remaining_time, rem_after_interrupt, front, time, finished>>
        /\ remaining_time[Q!get_top(k)] <= 0
    BY <1>2 DEF Q!StaleHead
  <2>2. PassDone(k) /\ Heads(k) /\ completed + 1 \in 0 .. n /\ k # 1
    BY <1>2, <2>1, Tops
  <2> QED BY <2>1, <2>2 DEF Stale
<1>3. ASSUME Q!RunQueue2 PROVE \E k \in Q!Levels : \E e \in Nat : Turn(k, e)
  <2>1. /\ 2 \in Q!Levels /\ q2_quantum \in Nat /\ Q!Pass(2) /\ Q!Run(2, Q!get_top(2), q2_quantum)
        /\ remaining_time[Q!get_top(2)] > 0
    BY <1>3, MlfqNumbers, MlfqConstants DEF Q!RunQueue2
  <2> QED BY <2>1, RunTurns
<1>4. ASSUME Q!RunQueue3 PROVE \E k \in Q!Levels : \E e \in Nat : Turn(k, e)
  <2> DEFINE w == remaining_time[Q!get_top(3)]
  <2>1. /\ 3 \in Q!Levels /\ Q!Pass(3) /\ Q!Run(3, Q!get_top(3), w) /\ w > 0
    BY <1>4, MlfqNumbers DEF Q!RunQueue3
  <2>2. w \in Nat
    BY <2>1, Tops
  <2> QED BY <2>1, <2>2, RunTurns
<1>5. ASSUME Q!InterruptQueue2 PROVE \E e \in Nat : Turn(2, e)
  <2> DEFINE p == Q!get_top(2)
             u == Q!time_used(q2_quantum)
  <2>1. /\ Q!Pass(2) /\ remaining_time[p] > 0 /\ Q!Interrupted(q2_quantum)
        /\ IF remaining_time[p] < u
           THEN /\ time' = time + remaining_time[p]
                /\ remaining_time' = [remaining_time EXCEPT ![p] = 0]
                /\ rem_after_interrupt' = [rem_after_interrupt EXCEPT ![p] = 0]
                /\ front' = [front EXCEPT ![2] = @ + 1]
                /\ Q!Count(p, 0)
           ELSE /\ time' = time + u
                /\ remaining_time' = [remaining_time EXCEPT ![p] = @ - u]
                /\ rem_after_interrupt' = [rem_after_interrupt EXCEPT ![p] = @ + q2_quantum - u]
                /\ UNCHANGED <<front, finished, completed>>
    BY <1>5 DEF Q!InterruptQueue2
  <2>2. 2 \in Q!Levels
    BY MlfqNumbers
  <2>3. /\ PassDone(2) /\ Heads(2) /\ p \in Q!Ids /\ p \in Left(1) /\ p \notin finished
        /\ remaining_time[p] \in Nat /\ rem_after_interrupt[p] \in Nat
        /\ completed + 1 \in 0 .. n /\ completed \in 0 .. n
    BY <2>1, <2>2, Tops
  <2>4. u \in Nat /\ u < q2_quantum /\ q2_quantum \in Nat
    <3>1. q2_quantum \in Nat
      BY MlfqConstants
    <3>2. u \in 0 .. q2_quantum - 1
      BY <2>1, <3>1, TimeUsed
    <3> QED BY <3>1, <3>2
  <2> HIDE DEF u, p
  <2>5. CASE remaining_time[p] < u
    <3> DEFINE e == remaining_time[p]
    <3>1. /\ time' = time + e
          /\ remaining_time' = [remaining_time EXCEPT ![p] = @ - e]
          /\ rem_after_interrupt' = [rem_after_interrupt EXCEPT ![p] = 0]
          /\ front' = [front EXCEPT ![2] = @ + 1]
          /\ finished' = finished \union {p} /\ completed' = completed + 1
          /\ e \in Nat /\ remaining_time[p] - e = 0
      BY <2>1, <2>3, <2>5 DEF Q!Count
    <3>2. rem_after_interrupt' \in [Q!Ids -> Nat] /\ \A r \in Q!Ids : r # p => rem_after_interrupt'[r] = rem_after_interrupt[r]
      BY <2>3, <3>1 DEF MlfqTyped
    <3> HIDE DEF e
    <3>3. Turn(2, e)
      BY <2>1, <2>3, <3>1, <3>2 DEF Turn, p
    <3> QED BY <3>1, <3>3
  <2>6. CASE ~(remaining_time[p] < u)
    <3>1. /\ time' = time + u
          /\ remaining_time' = [remaining_time EXCEPT ![p] = @ - u]
          /\ rem_after_interrupt' = [rem_after_interrupt EXCEPT ![p] = @ + q2_quantum - u]
          /\ UNCHANGED <<front, finished, completed>>
      BY <2>1, <2>6
    <3>2. rem_after_interrupt[p] + q2_quantum - u \in Nat
      BY ONLY <2>3, <2>4
    <3>3. rem_after_interrupt' \in [Q!Ids -> Nat] /\ \A r \in Q!Ids : r # p => rem_after_interrupt'[r] = rem_after_interrupt[r]
      BY <2>3, <3>1, <3>2 DEF MlfqTyped
    <3>4. Turn(2, u)
      BY <2>1, <2>3, <2>4, <3>1, <3>3 DEF Turn, p
    <3> QED BY <2>4, <3>4
  <2> QED BY <2>5, <2>6
<1>6. ASSUME Q!InterruptQueue3 PROVE \E e \in Nat : Turn(3, e)
  <2> DEFINE p == Q!get_top(3)
             u == Q!time_used(remaining_time[p])
  <2>1. /\ Q!Pass(3) /\ remaining_time[p] > 0 /\ Q!Interrupted(remaining_time[p])
        /\ time' = time + u
        /\ remaining_time' = [remaining_time EXCEPT ![p] = @ - u]
        /\ rem_after_interrupt' = [rem_after_interrupt EXCEPT ![p] = @ + u]
        /\ UNCHANGED <<front, finished, completed>>
    BY <1>6 DEF Q!InterruptQueue3
  <2>2. 3 \in Q!Levels
    BY MlfqNumbers
  <2>3. /\ PassDone(3) /\ Heads(3) /\ p \in Q!Ids /\ p \in Left(1) /\ p \notin finished
        /\ remaining_time[p] \in Nat /\ rem_after_interrupt[p] \in Nat
        /\ completed \in 0 .. n
    BY <2>1, <2>2, Tops
  <2>4. u \in Nat
    <3>1. u \in 0 .. remaining_time[p] - 1
      BY <2>1, <2>3, TimeUsed
    <3> QED BY <2>3, <3>1
  <2> HIDE DEF u, p
  <2>5. rem_after_interrupt[p] + u \in Nat
    BY ONLY <2>3, <2>4
  <2>6. rem_after_interrupt' \in [Q!Ids -> Nat] /\ \A r \in Q!Ids : r # p => rem_after_interrupt'[r] = rem_after_interrupt[r]
    BY <2>1, <2>3, <2>5 DEF MlfqTyped
  <2>7. Turn(3, u)
    BY <2>1, <2>3, <2>4, <2>6 DEF Turn, p
  <2> QED BY <2>4, <2>7
<1>7. ASSUME Q!NobodyToRun PROVE UNCHANGED Q!mlfqVars
  BY <1>7 DEF Q!NobodyToRun
<1>8. 2 \in Q!Levels /\ 3 \in Q!Levels
  BY MlfqNumbers
<1> QED BY <1>1, <1>2, <1>3, <1>4, <1>5, <1>6, <1>7, <1>8 DEF Q!Next

-----------------------------------------------------------------------------
(***************************************************************************)
(* Sums of bursts.                                                         *)
(***************************************************************************)
(* What f sums up to over D, as FoldFunctionOnSet computes it. *)
Total(f, D) ==
  (CHOOSE it : it = [s \in SUBSET D |-> IF s = {} THEN 0
                       ELSE f[CHOOSE x \in s : TRUE] + it[s \ {CHOOSE x \in s : TRUE}]])[D]

(* Mlfq's sum and that of Schedulers are Total.                            *)
LEMMA TotalMlfq == ASSUME NEW f, NEW D PROVE Q!FoldFunctionOnSet(+, 0, f, D) = Total(f, D)
  BY DEF Total, Q!FoldFunctionOnSet, Q!MapThenFoldSet

(* The sum of Schedulers is Total, too.                                    *)
LEMMA TotalSchedulers == ASSUME NEW f, NEW D PROVE S!FoldFunctionOnSet(+, 0, f, D) = Total(f, D)
  BY DEF Total, S!FoldFunctionOnSet, S!MapThenFoldSet

(* g[s] is the sum over s, for the subsets of D. *)
SumsOf(g, f, D) ==
  /\ g \in [SUBSET D -> Int]
  /\ \A s \in SUBSET D : g[s] = IF s = {} THEN 0
                                ELSE f[CHOOSE x \in s : TRUE] + g[s \ {CHOOSE x \in s : TRUE}]

(* Where a sum makes sense.                                                *)
Summable(f, D) == IsFiniteSet(D) /\ \A x \in D : f[x] \in Int

(* One member less.                                                        *)
LEMMA SmallerSubset ==
  ASSUME NEW D, IsFiniteSet(D), NEW s \in SUBSET D, s # {}
  PROVE  /\ (CHOOSE x \in s : TRUE) \in s /\ (CHOOSE x \in s : TRUE) \in D
         /\ s \ {CHOOSE x \in s : TRUE} \in SUBSET D
         /\ Cardinality(s \ {CHOOSE x \in s : TRUE}) < Cardinality(s)
<1> DEFINE y == CHOOSE x \in s : TRUE
<1>1. y \in s
  OBVIOUS
<1> HIDE DEF y
<1>2. IsFiniteSet(s)
  BY FS_Subset
<1>3. IsFiniteSet(s \ {y}) /\ Cardinality(s \ {y}) = Cardinality(s) - 1 /\ Cardinality(s) \in Nat
  BY <1>1, <1>2, FS_RemoveElement, FS_CardinalityType
<1>4. Cardinality(s \ {y}) < Cardinality(s)
  BY ONLY <1>3
<1> QED BY <1>1, <1>4 DEF y

(* Total obeys the recursive equation of a sum.                            *)
LEMMA TotalSums ==
  ASSUME NEW f, NEW D, Summable(f, D)
  PROVE  \E g : SumsOf(g, f, D) /\ g[D] = Total(f, D)
<1> DEFINE mu == [s \in SUBSET D |-> Cardinality(s)]
           Fun == [g \in [SUBSET D -> Int] |->
                     [s \in SUBSET D |-> IF s = {} THEN 0
                        ELSE f[CHOOSE x \in s : TRUE] + g[s \ {CHOOSE x \in s : TRUE}]]]
<1>1. mu \in [SUBSET D -> Nat]
  <2>1. \A s \in SUBSET D : Cardinality(s) \in Nat
    BY FS_Subset, FS_CardinalityType DEF Summable
  <2> QED BY <2>1
<1>2. Fun \in [[SUBSET D -> Int] -> [SUBSET D -> Int]]
  <2>1. ASSUME NEW g \in [SUBSET D -> Int], NEW s \in SUBSET D
        PROVE  (IF s = {} THEN 0
                ELSE f[CHOOSE x \in s : TRUE] + g[s \ {CHOOSE x \in s : TRUE}]) \in Int
    <3>1. CASE s = {}
      BY <3>1
    <3>2. CASE s # {}
      <4>1. (CHOOSE x \in s : TRUE) \in D /\ s \ {CHOOSE x \in s : TRUE} \in SUBSET D
        BY <3>2, SmallerSubset DEF Summable
      <4>2. f[CHOOSE x \in s : TRUE] \in Int /\ g[s \ {CHOOSE x \in s : TRUE}] \in Int
        BY <4>1 DEF Summable
      <4> QED BY <3>2, <4>2
    <3> QED BY <3>1, <3>2
  <2> QED BY <2>1
<1>3. ASSUME NEW g \in [SUBSET D -> Int], NEW h \in [SUBSET D -> Int], NEW s \in SUBSET D,
             \A y \in SUBSET D : mu[y] < mu[s] => g[y] = h[y]
      PROVE  Fun[g][s] = Fun[h][s]
  <2>1. CASE s = {}
    BY <2>1
  <2>2. CASE s # {}
    <3> DEFINE y == s \ {CHOOSE x \in s : TRUE}
    <3>1. y \in SUBSET D /\ mu[y] < mu[s]
      BY <2>2, SmallerSubset DEF Summable
    <3>2. g[y] = h[y]
      BY <1>3, <3>1
    <3> QED BY <2>2, <3>2
  <2> QED BY <2>1, <2>2
<1> HIDE DEF mu, Fun
<1>4. Recursive(SUBSET D, Int, mu, Fun)
  <2>1. Int # {}
    OBVIOUS
  <2> QED BY <1>1, <1>2, <1>3, <2>1 DEF Recursive
<1>5. PICK g \in [SUBSET D -> Int] : g = Fun[g]
  <2> DEFINE Dom == SUBSET D
             Vals == Int
  <2>1. Recursive(Dom, Vals, mu, Fun)
    BY <1>4
  <2> HIDE DEF Dom, Vals
  <2>2. \E g \in [Dom -> Vals] : g = Fun[g]
    BY ONLY <2>1, Recursion
  <2> QED BY <2>2 DEF Dom, Vals
<1> DEFINE Is(it) == it = [s \in SUBSET D |-> IF s = {} THEN 0
                             ELSE f[CHOOSE x \in s : TRUE] + it[s \ {CHOOSE x \in s : TRUE}]]
           h == CHOOSE it : Is(it)
<1>6. \A it \in [SUBSET D -> Int] : Is(it) <=> it = Fun[it]
  BY DEF Fun
<1>7. Is(g)
  BY <1>5, <1>6
<1>8. Is(h)
  <2> HIDE DEF Is
  <2> QED BY <1>7
<1>9. Total(f, D) = h[D]
  BY DEF Total
<1> HIDE DEF h
<1>10. /\ DOMAIN h = SUBSET D /\ h = [s \in SUBSET D |-> h[s]]
       /\ \A s \in SUBSET D : h[s] = IF s = {} THEN 0
                                ELSE f[CHOOSE x \in s : TRUE] + h[s \ {CHOOSE x \in s : TRUE}]
  BY <1>8
<1> HIDE DEF Is
<1>11. \A s \in SUBSET D : h[s] \in Int
  <2> DEFINE bad == {c \in Nat : \E s \in SUBSET D : Cardinality(s) = c /\ h[s] \notin Int}
  <2>1. ASSUME bad # {} PROVE FALSE
    <3>1. PICK c \in bad : \A d \in bad : c <= d
      <4>1. bad \subseteq Nat
        OBVIOUS
      <4> HIDE DEF bad
      <4> QED BY <2>1, <4>1, SmallestOf
    <3>2. PICK s \in SUBSET D : Cardinality(s) = c /\ h[s] \notin Int
      BY <3>1
    <3>3. s # {}
      <4>1. ASSUME s = {} PROVE FALSE
        <5>1. h[s] = 0
          BY <1>10, <4>1
        <5> QED BY <3>2, <5>1
      <4> QED BY <4>1
    <3> DEFINE x0 == CHOOSE x \in s : TRUE
               y == s \ {x0}
    <3>4. x0 \in D /\ y \in SUBSET D /\ Cardinality(y) < Cardinality(s)
      BY <3>3, SmallerSubset DEF Summable
    <3>5. h[s] = f[x0] + h[y] /\ f[x0] \in Int
      BY <1>10, <3>3, <3>4 DEF Summable
    <3>6. Cardinality(y) \in Nat /\ c \in Nat
      BY <3>1, <3>4, FS_Subset, FS_CardinalityType DEF Summable
    <3> HIDE DEF x0, y
    <3>7. h[y] \in Int
      BY <3>1, <3>2, <3>4, <3>6
    <3> QED BY <3>2, <3>5, <3>7
  <2>2. \A s \in SUBSET D : Cardinality(s) \in Nat
    BY FS_Subset, FS_CardinalityType DEF Summable
  <2> QED BY <2>1, <2>2
<1>12. h \in [SUBSET D -> Int]
  BY <1>10, <1>11
<1> QED BY <1>9, <1>10, <1>12 DEF SumsOf

(* The sums over a smaller set are the same, and so are those of a function *)
(* that agrees.                                                             *)
LEMMA SumsAgree ==
  ASSUME NEW f, NEW D, NEW g, SumsOf(g, f, D), NEW f2, NEW E, NEW h, SumsOf(h, f2, E),
         IsFiniteSet(E), D \subseteq E, \A x \in D : f[x] = f2[x], NEW T \in SUBSET D
  PROVE  g[T] = h[T]
<1>0. \A s \in SUBSET D : Cardinality(s) \in Nat /\ s \in SUBSET E
  BY FS_Subset, FS_CardinalityType
<1> DEFINE bad == {c \in Nat : \E s \in SUBSET D : Cardinality(s) = c /\ g[s] # h[s]}
<1>1. ASSUME bad # {} PROVE FALSE
  <2>1. PICK c \in bad : \A d \in bad : c <= d
    <3>1. bad \subseteq Nat
      OBVIOUS
    <3> HIDE DEF bad
    <3> QED BY <1>1, <3>1, SmallestOf
  <2>2. PICK s \in SUBSET D : Cardinality(s) = c /\ g[s] # h[s]
    BY <2>1
  <2>3. s # {} /\ s \in SUBSET E
    BY <1>0, <2>2 DEF SumsOf
  <2> DEFINE x0 == CHOOSE x \in s : TRUE
             y == s \ {x0}
  <2>4. x0 \in s /\ y \in SUBSET E /\ Cardinality(y) < Cardinality(s)
    BY <2>3, SmallerSubset
  <2>5. g[s] = f[x0] + g[y] /\ h[s] = f2[x0] + h[y]
    BY <2>2, <2>3 DEF SumsOf
  <2>6. y \in SUBSET D /\ x0 \in D
    BY <2>2, <2>4
  <2> HIDE DEF x0, y
  <2>7. Cardinality(y) \in Nat /\ c \in Nat
    BY <1>0, <2>1, <2>6
  <2>8. g[y] = h[y]
    BY <2>1, <2>2, <2>4, <2>6, <2>7
  <2>9. f[x0] = f2[x0]
    BY <2>6
  <2> QED BY ONLY <2>2, <2>5, <2>8, <2>9
<1> QED BY <1>0, <1>1

(* It does not matter which element is taken first. *)
LEMMA SumsRemove ==
  ASSUME NEW f, NEW D, NEW g, SumsOf(g, f, D), Summable(f, D)
  PROVE  \A T \in SUBSET D : \A x \in T : g[T] = f[x] + g[T \ {x}]
<1>0. \A s \in SUBSET D : Cardinality(s) \in Nat /\ g[s] \in Int
  BY FS_Subset, FS_CardinalityType DEF Summable, SumsOf
<1> DEFINE bad == {c \in Nat : \E s \in SUBSET D : Cardinality(s) = c /\ \E x \in s : g[s] # f[x] + g[s \ {x}]}
<1>1. ASSUME bad # {} PROVE FALSE
  <2>1. PICK c \in bad : \A d \in bad : c <= d
    <3>1. bad \subseteq Nat
      OBVIOUS
    <3> HIDE DEF bad
    <3> QED BY <1>1, <3>1, SmallestOf
  <2>2. PICK s \in SUBSET D : Cardinality(s) = c /\ \E x \in s : g[s] # f[x] + g[s \ {x}]
    BY <2>1
  <2>3. PICK z \in s : g[s] # f[z] + g[s \ {z}]
    BY <2>2
  <2> DEFINE x0 == CHOOSE x \in s : TRUE
             y == s \ {x0}
             v == s \ {z}
             w == (s \ {x0}) \ {z}
  <2>4. x0 \in s /\ y \in SUBSET D /\ Cardinality(y) < Cardinality(s) /\ x0 \in D /\ z \in D
    BY <2>2, <2>3, SmallerSubset DEF Summable
  <2>5. g[s] = f[x0] + g[y]
    BY <2>2, <2>3 DEF SumsOf
  <2>6. z # x0
    BY <2>3, <2>5
  <2> HIDE DEF x0
  <2>7. v \in SUBSET D /\ w \in SUBSET D /\ w = v \ {x0} /\ w = y \ {z} /\ x0 \in v /\ z \in y
    BY <2>3, <2>4, <2>6
  <2>8. Cardinality(v) < Cardinality(s)
    <3>1. IsFiniteSet(s)
      BY FS_Subset DEF Summable
    <3>2. Cardinality(v) = Cardinality(s) - 1
      BY <2>3, <3>1, FS_RemoveElement
    <3> HIDE DEF v
    <3> QED BY <1>0, <2>2, <3>2
  <2> HIDE DEF v, y, w
  <2>9. Cardinality(v) \in Nat /\ Cardinality(y) \in Nat /\ c \in Nat
    BY <1>0, <2>1, <2>4, <2>7
  <2>10. g[y] = f[z] + g[w]
    <3>1. Cardinality(y) \notin bad
      BY <2>1, <2>2, <2>4, <2>9
    <3>2. g[y] = f[z] + g[y \ {z}]
      BY <2>4, <2>7, <2>9, <3>1
    <3> QED BY <2>7, <3>2
  <2>11. g[v] = f[x0] + g[w]
    <3>1. Cardinality(v) \notin bad
      BY <2>1, <2>2, <2>8, <2>9
    <3>2. g[v] = f[x0] + g[v \ {x0}]
      BY <2>7, <2>9, <3>1
    <3> QED BY <2>7, <3>2
  <2>12. f[x0] \in Int /\ f[z] \in Int /\ g[w] \in Int
    BY <1>0, <2>4, <2>7 DEF Summable
  <2>13. g[s] # f[z] + g[v]
    BY <2>3 DEF v
  <2> QED BY ONLY <2>5, <2>10, <2>11, <2>12, <2>13
<1> QED BY <1>0, <1>1

(* The sum of nothing.                                                     *)
LEMMA TotalEmpty == ASSUME NEW f PROVE Total(f, {}) = 0
<1>1. Summable(f, {})
  BY FS_EmptySet DEF Summable
<1>2. PICK g : SumsOf(g, f, {}) /\ g[{}] = Total(f, {})
  BY <1>1, TotalSums
<1> QED BY <1>2 DEF SumsOf

(* Total depends on the values in its set only.                            *)
LEMMA TotalAgrees ==
  ASSUME NEW f, NEW f2, NEW D, Summable(f, D), \A x \in D : f[x] = f2[x]
  PROVE  Total(f, D) = Total(f2, D) /\ Total(f, D) \in Int
<1>1. Summable(f2, D)
  BY DEF Summable
<1>2. PICK g : SumsOf(g, f, D) /\ g[D] = Total(f, D)
  BY TotalSums
<1>3. PICK h : SumsOf(h, f2, D) /\ h[D] = Total(f2, D)
  BY <1>1, TotalSums
<1>4. IsFiniteSet(D) /\ D \subseteq D /\ D \in SUBSET D
  BY DEF Summable
<1>5. g[D] = h[D]
  BY <1>2, <1>3, <1>4, SumsAgree
<1>6. g[D] \in Int
  BY <1>2 DEF SumsOf
<1> QED BY <1>2, <1>3, <1>5, <1>6

(* Total, with one member left out.                                        *)
LEMMA TotalWithout ==
  ASSUME NEW f, NEW D, Summable(f, D), NEW z \in D
  PROVE  Total(f, D) = f[z] + Total(f, D \ {z})
<1> DEFINE V == D \ {z}
<1>1. Summable(f, V) /\ V \subseteq D /\ V \in SUBSET V /\ IsFiniteSet(D)
  BY FS_Subset DEF Summable
<1>2. PICK g : SumsOf(g, f, D) /\ g[D] = Total(f, D)
  BY TotalSums
<1>3. g[D] = f[z] + g[V]
  BY <1>2, SumsRemove
<1> HIDE DEF V
<1>4. PICK h : SumsOf(h, f, V) /\ h[V] = Total(f, V)
  BY <1>1, TotalSums
<1>5. h[V] = g[V]
  BY <1>1, <1>2, <1>4, SumsAgree
<1> QED BY <1>2, <1>3, <1>4, <1>5 DEF V

(* What changes at one argument changes the sum as much. *)
LEMMA TotalChanges ==
  ASSUME NEW f, NEW f2, NEW D, Summable(f, D), Summable(f2, D), NEW z \in D, \A x \in D : x # z => f[x] = f2[x]
  PROVE  Total(f2, D) = Total(f, D) + f2[z] - f[z]
<1> DEFINE V == D \ {z}
<1>1. Total(f, D) = f[z] + Total(f, V) /\ Total(f2, D) = f2[z] + Total(f2, V)
  BY TotalWithout
<1>2. Total(f, V) = Total(f2, V) /\ Total(f, V) \in Int
  <2>1. Summable(f, V) /\ \A x \in V : f[x] = f2[x]
    BY FS_Subset DEF Summable
  <2> HIDE DEF V
  <2> QED BY <2>1, TotalAgrees
<1>3. f[z] \in Int /\ f2[z] \in Int
  BY DEF Summable
<1> QED BY ONLY <1>1, <1>2, <1>3

-----------------------------------------------------------------------------
(***************************************************************************)
(* The multi-level scheduler: the clock and the inductive invariant.       *)
(***************************************************************************)
(* The clock shows the work done.                                          *)
WorkInv == time = Total(burst_time, Q!Ids) - Total(remaining_time, Q!Ids)

(* The inductive invariant of multi_level_sched.c.                         *)
MlfqInv == MlfqTyped /\ QueuesInv /\ FreshInv /\ WorkInv

(* Bursts are natural numbers.                                             *)
LEMMA BurstsAreTimes ==
  ASSUME burst_time \in [Q!Ids -> MlfqBursts]
  PROVE  \A p \in Q!Ids : burst_time[p] \in Nat /\ burst_time[p] \in Int
<1>1. ASSUME NEW p \in Q!Ids PROVE burst_time[p] \in Nat
  <2>1. burst_time[p] \in MlfqBursts
    OBVIOUS
  <2>2. MlfqBursts \subseteq Nat
    BY MlfqConstants
  <2> QED BY <2>1, <2>2
<1> QED BY <1>1

(* The invariant of multi_level_sched.c: its start, and every kind of step. *)
LEMMA MlfqStarts == ASSUME Q!Init PROVE MlfqInv
<1>1. MlfqTyped
  <2>1. /\ arrival_time \in [Q!Ids -> MlfqArrivals] /\ burst_time \in [Q!Ids -> MlfqBursts]
        /\ remaining_time = burst_time /\ rem_after_interrupt = [p \in Q!Ids |-> 0]
        /\ in_q = [k \in Q!Levels |-> {}]
        /\ queue = [k \in Q!Levels |-> <<>>] /\ front = [k \in Q!Levels |-> 0]
        /\ time = 0 /\ finished = {} /\ completed = 0 /\ state = "runs"
    BY DEF Q!Init
  <2>2. \A p \in Q!Ids : burst_time[p] \in Nat
    BY <2>1, MlfqConstants
  <2>3. remaining_time \in [Q!Ids -> Int] /\ \A p \in Q!Ids : remaining_time[p] <= burst_time[p]
    BY <2>1, <2>2
  <2>4. queue \in [Q!Levels -> Seq(Q!Ids)] /\ front \in [Q!Levels -> Nat] /\ in_q \in [Q!Levels -> SUBSET Q!Ids]
    BY <2>1
  <2>5. completed \in 0 .. n
    BY <2>1, MlfqConstants
  <2> QED BY <2>1, <2>3, <2>4, <2>5 DEF MlfqTyped
<1>2. QueuesInv
  <2>1. \A k \in Q!Levels : queue[k] = <<>> /\ in_q[k] = {} /\ front[k] = 0
    BY DEF Q!Init
  <2>2. Lists(<<>>, {}) /\ Len(<<>>) = 0
    <3>1. <<>> \in Seq({}) /\ Len(<<>>) = 0
      OBVIOUS
    <3> QED BY <3>1 DEF Lists
  <2>3. in_q[1] = {} /\ in_q[2] = {} /\ in_q[3] = {}
    BY <2>1, MlfqNumbers
  <2>4. ASSUME NEW k \in Q!Levels PROVE Lists(queue[k], in_q[k]) /\ front[k] <= Len(queue[k])
    <3>1. queue[k] = <<>> /\ in_q[k] = {} /\ front[k] = 0 /\ 0 <= 0
      BY <2>1
    <3> QED BY ONLY <2>2, <3>1
  <2> QED BY <2>3, <2>4 DEF QueuesInv
<1>3. FreshInv
  BY DEF Q!Init, FreshInv
<1>4. WorkInv
  <2>1. Summable(burst_time, Q!Ids)
    BY <1>1, MlfqNumbers, BurstsAreTimes DEF MlfqTyped, Summable
  <2>2. Total(burst_time, Q!Ids) \in Int
    BY <2>1, TotalAgrees
  <2>3. time = 0 /\ remaining_time = burst_time
    BY DEF Q!Init
  <2> QED BY <2>2, <2>3 DEF WorkInv
<1> QED BY <1>1, <1>2, <1>3, <1>4 DEF MlfqInv

(* A step that changes nothing.                                            *)
LEMMA MlfqStutters == ASSUME MlfqInv, UNCHANGED Q!mlfqVars PROVE MlfqInv'
<1>1. /\ arrival_time' = arrival_time /\ burst_time' = burst_time /\ remaining_time' = remaining_time
      /\ rem_after_interrupt' = rem_after_interrupt /\ in_q' = in_q /\ queue' = queue /\ front' = front
      /\ time' = time /\ finished' = finished /\ completed' = completed /\ state' = state
  BY DEF Q!mlfqVars, Q!inputs
<1> QED BY <1>1 DEF MlfqInv, MlfqTyped, QueuesInv, FreshInv, WorkInv, Left

(* The last step.                                                          *)
LEMMA MlfqFinishes == ASSUME MlfqInv, Q!Finish PROVE MlfqInv'
<1>1. /\ arrival_time' = arrival_time /\ burst_time' = burst_time /\ remaining_time' = remaining_time
      /\ rem_after_interrupt' = rem_after_interrupt /\ in_q' = in_q /\ queue' = queue /\ front' = front
      /\ time' = time /\ finished' = finished /\ completed' = completed /\ state' = "done"
  BY DEF Q!Finish, Q!inputs
<1> QED BY <1>1 DEF MlfqInv, MlfqTyped, QueuesInv, FreshInv, WorkInv, Left

(* The passes before a stale entry.                                        *)
LEMMA MlfqStale == ASSUME MlfqInv, NEW k \in Q!Levels, Stale(k) PROVE MlfqInv'
<1>1. /\ PassDone(k) /\ completed' \in 0 .. n
      /\ arrival_time' = arrival_time /\ burst_time' = burst_time /\ remaining_time' = remaining_time
      /\ rem_after_interrupt' = rem_after_interrupt /\ front' = front
      /\ time' = time /\ finished' = finished /\ state' = state
      /\ in_q' \in [Q!Levels -> SUBSET Q!Ids] /\ queue' \in [Q!Levels -> Seq(Q!Ids)]
  BY DEF Stale, PassDone
<1>2. MlfqTyped'
  BY <1>1 DEF MlfqInv, MlfqTyped
<1>3. QueuesInv' /\ Left(1)' = Left(1)
  BY <1>1, FrontStays, MlfqNumbers DEF MlfqInv
<1>4. FreshInv'
  BY <1>1, <1>3 DEF MlfqInv, FreshInv
<1>5. WorkInv'
  BY <1>1 DEF MlfqInv, WorkInv
<1> QED BY <1>2, <1>3, <1>4, <1>5 DEF MlfqInv

(* A turn of a process.                                                    *)
LEMMA MlfqTurns == ASSUME MlfqInv, NEW k \in Q!Levels, NEW e \in Nat, Turn(k, e) PROVE MlfqInv'
<1> DEFINE p == Q!get_top(k)
<1>0. MlfqTyped /\ QueuesInv /\ FreshInv /\ WorkInv
  BY DEF MlfqInv
<1>1. /\ PassDone(k) /\ p \in Q!Ids /\ p \notin finished /\ (k # 1 => p \in Left(1))
      /\ arrival_time' = arrival_time /\ burst_time' = burst_time /\ state' = state
      /\ remaining_time' = [remaining_time EXCEPT ![p] = @ - e] /\ time' = time + e
      /\ rem_after_interrupt' \in [Q!Ids -> Nat]
      /\ \A r \in Q!Ids : r # p => rem_after_interrupt'[r] = rem_after_interrupt[r]
      /\ \/ finished' = finished
         \/ finished' = finished \union {p} /\ remaining_time[p] - e = 0
      /\ completed' \in 0 .. n
      /\ in_q' \in [Q!Levels -> SUBSET Q!Ids] /\ queue' \in [Q!Levels -> Seq(Q!Ids)]
  BY DEF Turn, PassDone
<1>2. \/ front' = [front EXCEPT ![k] = @ + 1]
      \/ k # 1 /\ front' = front
  BY DEF Turn
<1>3. /\ QueuesInv' /\ front' \in [Q!Levels -> Nat]
      /\ Left(1) \subseteq Left(1)' /\ p \in Left(1)' /\ Left(1)' \subseteq Left(1) \union {p}
  <2>0. 1 \in Q!Levels
    BY MlfqNumbers
  <2>1. CASE front' = [front EXCEPT ![k] = @ + 1]
    <3>1. /\ QueuesInv' /\ front' \in [Q!Levels -> Nat]
          /\ \A m \in Q!Levels : Left(m)' = IF m = k THEN Left(m) \union {p} ELSE Left(m)
      BY <1>0, <1>1, <2>1, FrontMoves
    <3>2. Left(1)' = IF 1 = k THEN Left(1) \union {p} ELSE Left(1)
      BY <2>0, <3>1
    <3> QED BY <1>1, <3>1, <3>2
  <2>2. CASE k # 1 /\ front' = front
    <3>1. QueuesInv' /\ Left(1)' = Left(1)
      BY <1>0, <1>1, <2>0, <2>2, FrontStays
    <3> QED BY <1>0, <1>1, <2>2, <3>1 DEF MlfqTyped
  <2> QED BY <1>2, <2>1, <2>2
<1> HIDE DEF p
<1>4. /\ remaining_time' \in [Q!Ids -> Int] /\ remaining_time'[p] = remaining_time[p] - e
      /\ \A r \in Q!Ids : r # p => remaining_time'[r] = remaining_time[r]
      /\ remaining_time[p] \in Int /\ burst_time[p] \in Int /\ e \in Nat
  <2>1. remaining_time \in [Q!Ids -> Int] /\ burst_time[p] \in Int
    BY <1>0, <1>1, BurstsAreTimes DEF MlfqTyped
  <2> QED BY <1>1, <2>1
<1>5. \A r \in Q!Ids : remaining_time'[r] <= burst_time'[r]
  <2>1. remaining_time[p] <= burst_time[p]
    BY <1>0, <1>1 DEF MlfqTyped
  <2>2. remaining_time'[p] <= burst_time[p]
    BY ONLY <1>4, <2>1
  <2>3. ASSUME NEW r \in Q!Ids, r # p PROVE remaining_time'[r] <= burst_time[r]
    BY <1>0, <1>4, <2>3 DEF MlfqTyped
  <2> QED BY <1>1, <2>2, <2>3
<1>6. MlfqTyped'
  <2>1. time' \in Nat
    BY <1>0, <1>1 DEF MlfqTyped
  <2>2. finished' \subseteq Q!Ids
    BY <1>0, <1>1 DEF MlfqTyped
  <2> QED BY <1>0, <1>1, <1>3, <1>4, <1>5, <2>1, <2>2 DEF MlfqTyped
<1>7. FreshInv'
  <2>1. ASSUME NEW r \in Q!Ids, r \notin Left(1)'
        PROVE  remaining_time'[r] = burst_time'[r] /\ rem_after_interrupt'[r] = 0 /\ r \notin finished'
    <3>1. r # p /\ r \notin Left(1)
      BY <1>3, <2>1
    <3> QED BY <1>0, <1>1, <1>4, <3>1 DEF FreshInv
  <2>2. ASSUME NEW r \in finished' PROVE remaining_time'[r] = 0
    <3>1. CASE r = p
      BY <1>1, <1>4, <2>2, <3>1
    <3>2. CASE r # p
      <4>1. r \in finished /\ r \in Q!Ids
        BY <1>0, <1>1, <2>2, <3>2 DEF MlfqTyped
      <4> QED BY <1>0, <1>4, <3>2, <4>1 DEF FreshInv
    <3> QED BY <3>1, <3>2
  <2> QED BY <2>1, <2>2 DEF FreshInv
<1>8. WorkInv'
  <2>1. Summable(remaining_time, Q!Ids) /\ Summable(remaining_time', Q!Ids) /\ Summable(burst_time, Q!Ids)
    <3>1. IsFiniteSet(Q!Ids)
      BY MlfqNumbers
    <3>2. \A r \in Q!Ids : remaining_time[r] \in Int /\ remaining_time'[r] \in Int /\ burst_time[r] \in Int
      BY <1>0, <1>4, BurstsAreTimes DEF MlfqTyped
    <3> QED BY <3>1, <3>2 DEF Summable
  <2>2. Total(remaining_time', Q!Ids) = Total(remaining_time, Q!Ids) + remaining_time'[p] - remaining_time[p]
    <3> DEFINE f == remaining_time
               f2 == remaining_time'
               D == Q!Ids
    <3>1. Summable(f, D) /\ Summable(f2, D) /\ p \in D /\ \A r \in D : r # p => f[r] = f2[r]
      BY <1>1, <1>4, <2>1
    <3> HIDE DEF f, f2, D
    <3>2. Total(f2, D) = Total(f, D) + f2[p] - f[p]
      BY <3>1, TotalChanges
    <3> QED BY <3>2 DEF f, f2, D
  <2>3. Total(remaining_time, Q!Ids) \in Int /\ Total(burst_time, Q!Ids) \in Int
    BY <2>1, TotalAgrees
  <2>4. time = Total(burst_time, Q!Ids) - Total(remaining_time, Q!Ids)
    BY <1>0 DEF WorkInv
  <2>5. time' = Total(burst_time, Q!Ids) - Total(remaining_time', Q!Ids)
    BY ONLY <1>1, <1>4, <2>2, <2>3, <2>4
  <2> QED BY <1>1, <2>5 DEF WorkInv
<1> QED BY <1>3, <1>6, <1>7, <1>8 DEF MlfqInv

(* Every step keeps the invariant.                                         *)
LEMMA MlfqGoesOn == ASSUME MlfqInv, Q!Next \/ UNCHANGED Q!mlfqVars PROVE MlfqInv'
<1>1. CASE Q!Next
  <2>1. \/ \E k \in Q!Levels : Stale(k) \/ \E e \in Nat : Turn(k, e)
        \/ UNCHANGED Q!mlfqVars
        \/ Q!Finish
    BY <1>1, MlfqSteps DEF MlfqInv
  <2>2. ASSUME NEW k \in Q!Levels, Stale(k) PROVE MlfqInv'
    BY <2>2, MlfqStale
  <2>3. ASSUME NEW k \in Q!Levels, NEW e \in Nat, Turn(k, e) PROVE MlfqInv'
    BY <2>3, MlfqTurns
  <2> QED BY <2>1, <2>2, <2>3, MlfqStutters, MlfqFinishes
<1> QED BY <1>1, MlfqStutters

(* What the invariant says in the words of the module. *)
LEMMA MlfqKeeps == ASSUME MlfqInv PROVE Q!TypeOK /\ Q!TimeIsWork
<1>1. ASSUME NEW k \in Q!Levels PROVE front[k] \in 0 .. Len(queue[k])
  <2>1. front[k] \in Nat /\ front[k] <= Len(queue[k]) /\ Len(queue[k]) \in Nat
    BY DEF MlfqInv, MlfqTyped, QueuesInv
  <2> QED BY <2>1
<1>2. Q!TimeIsWork
  BY TotalMlfq DEF MlfqInv, WorkInv, FreshInv, Q!TimeIsWork
<1>3. ASSUME NEW k \in Q!Levels PROVE Len(queue[k]) <= n
  <2> DEFINE s == queue[k]
             c == Len(s)
  <2>1. Lists(s, in_q[k]) /\ in_q[k] \subseteq Q!Ids
    BY DEF MlfqInv, MlfqTyped, QueuesInv
  <2>2. s \in Seq(Q!Ids) /\ c \in Nat
    BY DEF MlfqInv, MlfqTyped
  <2> HIDE DEF c, s
  <2>3. s \in [1 .. c -> Q!Ids]
    BY <2>2 DEF c
  <2>4. s \in Injection(1 .. c, Q!Ids)
    BY <2>1, <2>3 DEF Injection, IsInjective, Lists, c
  <2>5. IsFiniteSet(1 .. c) /\ Cardinality(1 .. c) = c
    BY <2>2, FS_Interval
  <2>6. Cardinality(1 .. c) <= Cardinality(Q!Ids)
    <3>1. IsFiniteSet(Q!Ids)
      BY MlfqNumbers
    <3> QED BY <2>4, <3>1, FS_Injection
  <2> QED BY <2>5, <2>6, MlfqNumbers DEF c, s
<1>4. Q!TypeOK
  BY <1>1, <1>3 DEF MlfqInv, MlfqTyped, Q!TypeOK
<1> QED BY <1>2, <1>4

-----------------------------------------------------------------------------
(***************************************************************************)
(* The multi-level scheduler: the levels.                                  *)
(***************************************************************************)
(* p has had so many units, or its whole burst.                            *)
Served(p, units) == remaining_time[p] = 0 \/ burst_time[p] - remaining_time[p] >= units

(* When all arrive together, who has left a queue has had its turns, and    *)
(* the next queue is not served before all have left.                       *)
LevelsInv == Q!AllAtZero =>
  /\ \A p \in Q!Ids : rem_after_interrupt[p] = 0 /\ remaining_time[p] >= 0
  /\ \A p \in Q!Ids :
       /\ p \in Left(1) => Served(p, q1_quantum)
       /\ p \in Left(2) => Served(p, q1_quantum + q2_quantum)
       /\ p \notin Left(2) => burst_time[p] - remaining_time[p] <= q1_quantum
       /\ p \notin Left(3) => burst_time[p] - remaining_time[p] <= q1_quantum + q2_quantum
  /\ Left(2) # {} => Q!Ids \subseteq Left(1)
  /\ Left(3) # {} => \A p \in Q!Ids : Served(p, q1_quantum + q2_quantum)

(* Who arrived at 0 is in the first queue, or has left it.                 *)
LEMMA AllArrive ==
  ASSUME MlfqInv, Q!AllAtZero
  PROVE  Q!FlagsNow[1] = Q!Ids /\ \A w \in Int : ~Q!Interrupted(w)
<1>0. 1 \in Q!Levels
  BY MlfqNumbers
<1>1. Q!FlagsNow[1] = in_q[1] \union Q!Entrants(1) /\ in_q[1] \subseteq Q!Ids
  BY <1>0, QueuesGrow DEF MlfqInv, MlfqTyped
<1>2. ASSUME NEW p \in Q!Ids, p \notin in_q[1] PROVE p \in Q!Entrants(1)
  <2>1. p \notin Left(1)
    <3>1. queue[1] \in Seq(in_q[1]) /\ front[1] <= Len(queue[1]) /\ front[1] \in Nat /\ Len(queue[1]) \in Nat
      BY <1>0 DEF MlfqInv, QueuesInv, MlfqTyped, Lists
    <3>2. \A j \in 1 .. Len(queue[1]) : queue[1][j] \in in_q[1]
      BY <3>1
    <3> QED BY <1>2, <3>1, <3>2 DEF Left
  <2>2. p \notin finished
    BY <2>1 DEF MlfqInv, FreshInv
  <2>3. arrival_time[p] <= time
    BY DEF MlfqInv, MlfqTyped, Q!AllAtZero
  <2> QED BY <1>2, <2>2, <2>3 DEF Q!Entrants, Q!Enters
<1>3. Q!FlagsNow[1] = Q!Ids
  <2>1. Q!Entrants(1) \subseteq Q!Ids
    BY DEF Q!Entrants
  <2> QED BY <1>1, <1>2, <2>1
<1>4. \A w \in Int : ~Q!Interrupted(w)
  BY <1>3 DEF Q!Interrupted, Q!Arrives
<1> QED BY <1>3, <1>4

(* The length of a turn that is not cut short. *)
Allowance(k) ==
  CASE k = 1 -> q1_quantum [] k = 2 -> q2_quantum [] k = 3 -> remaining_time[Q!get_top(3)]

(* A turn that nothing interrupts.                                         *)
FullTurn(k, e) ==
  /\ Turn(k, e) /\ front' = [front EXCEPT ![k] = @ + 1] /\ rem_after_interrupt'[Q!get_top(k)] = 0
  /\ e = IF remaining_time[Q!get_top(k)] <= Allowance(k) THEN remaining_time[Q!get_top(k)] ELSE Allowance(k)

(* When all arrive together, every turn is full.                           *)
LEMMA FullTurns ==
  ASSUME MlfqInv, LevelsInv, Q!AllAtZero, Q!Next
  PROVE  \/ \E k \in Q!Levels : Stale(k) \/ \E e \in Nat : FullTurn(k, e)
         \/ UNCHANGED Q!mlfqVars
         \/ Q!Finish
<1>0. MlfqTyped /\ QueuesInv /\ FreshInv
  BY DEF MlfqInv
<1>1. ASSUME NEW k \in Q!Levels, Q!Pass(k), Allowance(k) \in Nat, Q!Run(k, Q!get_top(k), Allowance(k)),
             k # 1 => remaining_time[Q!get_top(k)] > 0
      PROVE  \E e \in Nat : FullTurn(k, e)
  <2> DEFINE w == Allowance(k)
  <2>1. w \in Nat /\ Q!Run(k, Q!get_top(k), w)
    BY <1>1
  <2>10. k = 1 => w = q1_quantum
    BY DEF Allowance
  <2> HIDE DEF w
  <2>2. PICK e \in Nat :
           /\ Turn(k, e) /\ front' = [front EXCEPT ![k] = @ + 1] /\ rem_after_interrupt'[Q!get_top(k)] = 0
           /\ rem_after_interrupt[Q!get_top(k)] = 0 =>
                e = IF remaining_time[Q!get_top(k)] <= w THEN remaining_time[Q!get_top(k)] ELSE w
    BY <1>0, <1>1, <2>1, <2>10, RunTurns
  <2>3. rem_after_interrupt[Q!get_top(k)] = 0
    <3>1. Q!get_top(k) \in Q!Ids
      BY <1>0, <1>1, Tops
    <3> QED BY <3>1 DEF LevelsInv
  <2> QED BY <2>2, <2>3 DEF FullTurn, w
<1>2. q1_quantum \in Nat /\ q2_quantum \in Nat /\ q2_quantum \in Int /\ 1 \in Q!Levels /\ 2 \in Q!Levels /\ 3 \in Q!Levels
  BY MlfqConstants, MlfqNumbers
<1>3. ASSUME Q!RunQueue1 PROVE \E e \in Nat : FullTurn(1, e)
  <2>1. Q!Pass(1) /\ Q!Run(1, Q!get_top(1), q1_quantum) /\ Allowance(1) = q1_quantum
    BY <1>3 DEF Q!RunQueue1, Allowance
  <2> QED BY <1>1, <1>2, <2>1
<1>4. ASSUME Q!RunQueue2 PROVE \E e \in Nat : FullTurn(2, e)
  <2>1. /\ Q!Pass(2) /\ Q!Run(2, Q!get_top(2), q2_quantum) /\ Allowance(2) = q2_quantum
        /\ remaining_time[Q!get_top(2)] > 0
    BY <1>4 DEF Q!RunQueue2, Allowance
  <2> QED BY <1>1, <1>2, <2>1
<1>5. ASSUME Q!RunQueue3 PROVE \E e \in Nat : FullTurn(3, e)
  <2> DEFINE w == remaining_time[Q!get_top(3)]
  <2>1. Q!Pass(3) /\ Q!Run(3, Q!get_top(3), w) /\ Allowance(3) = w /\ w > 0
    BY <1>5 DEF Q!RunQueue3, Allowance
  <2>2. w \in Nat
    BY <1>0, <1>2, <2>1, Tops
  <2> QED BY <1>1, <1>2, <2>1, <2>2
<1>6. ~Q!InterruptQueue2
  BY <1>2, AllArrive DEF Q!InterruptQueue2
<1>7. ~Q!InterruptQueue3
  <2>1. SUFFICES ASSUME Q!InterruptQueue3 PROVE FALSE
    OBVIOUS
  <2>2. Q!Pass(3) /\ Q!Interrupted(remaining_time[Q!get_top(3)])
    BY <2>1 DEF Q!InterruptQueue3
  <2>3. remaining_time[Q!get_top(3)] \in Int
    BY <1>0, <1>2, <2>2, Tops
  <2> QED BY <2>2, <2>3, AllArrive
<1>8. ASSUME NEW k \in Q!Levels, k # 1, Q!StaleHead(k) PROVE Stale(k)
  <2>1. Q!Pass(k) /\ completed' = completed + 1 /\ UNCHANGED <<remaining_time, rem_after_interrupt, front, time, finished>>
        /\ remaining_time[Q!get_top(k)] <= 0
    BY <1>8 DEF Q!StaleHead
  <2>2. PassDone(k) /\ Heads(k) /\ completed + 1 \in 0 .. n /\ k # 1
    BY <1>0, <1>8, <2>1, Tops
  <2> QED BY <2>1, <2>2 DEF Stale
<1>9. ASSUME Q!NobodyToRun PROVE UNCHANGED Q!mlfqVars
  BY <1>9 DEF Q!NobodyToRun
<1> QED BY <1>2, <1>3, <1>4, <1>5, <1>6, <1>7, <1>8, <1>9 DEF Q!Next

(* LevelsInv: every kind of step keeps it.                                 *)
LEMMA LevelsStale == ASSUME MlfqInv, LevelsInv, NEW k \in Q!Levels, Stale(k) PROVE LevelsInv'
<1>1. /\ burst_time' = burst_time /\ remaining_time' = remaining_time /\ arrival_time' = arrival_time
      /\ rem_after_interrupt' = rem_after_interrupt /\ front' = front /\ PassDone(k)
  BY DEF Stale, PassDone
<1>2. Left(1)' = Left(1) /\ Left(2)' = Left(2) /\ Left(3)' = Left(3)
  BY <1>1, FrontStays, MlfqNumbers DEF MlfqInv
<1> QED BY <1>1, <1>2 DEF LevelsInv, Served, Q!AllAtZero

(* A step that gives nobody time.                                          *)
LEMMA LevelsSame ==
  ASSUME LevelsInv, UNCHANGED <<arrival_time, burst_time, remaining_time, rem_after_interrupt, queue, front>>
  PROVE  LevelsInv'
  BY DEF LevelsInv, Served, Q!AllAtZero, Left

(* A turn: who goes on to a level waited for the others.                   *)
LEMMA LevelsTurns ==
  ASSUME MlfqInv, LevelsInv, Q!AllAtZero, NEW k \in Q!Levels, NEW e \in Nat, FullTurn(k, e),
         k = 3 => Q!Ids \subseteq Left(1) /\ \A r \in Q!Ids : remaining_time[r] = 0 \/ r \in Left(2)
  PROVE  LevelsInv'
<1> DEFINE p == Q!get_top(k)
           w == Allowance(k)
<1>0. /\ MlfqTyped /\ FreshInv
      /\ q1_quantum \in Nat /\ q2_quantum \in Nat /\ q1_quantum + q2_quantum \in Nat
  BY MlfqConstants DEF MlfqInv
<1>1. /\ PassDone(k) /\ p \in Q!Ids /\ p \notin Left(k) /\ (k # 1 => p \in Left(1))
      /\ arrival_time' = arrival_time /\ burst_time' = burst_time
      /\ remaining_time' = [remaining_time EXCEPT ![p] = @ - e]
      /\ \A r \in Q!Ids : r # p => rem_after_interrupt'[r] = rem_after_interrupt[r]
      /\ rem_after_interrupt'[p] = 0
      /\ front' = [front EXCEPT ![k] = @ + 1]
      /\ e = IF remaining_time[p] <= w THEN remaining_time[p] ELSE w
      /\ k = 2 => Q!Ids \subseteq Left(1)
  <2>1. /\ PassDone(k) /\ p \in Q!Ids /\ p \notin Left(k) /\ (k # 1 => p \in Left(1))
        /\ arrival_time' = arrival_time /\ burst_time' = burst_time
        /\ remaining_time' = [remaining_time EXCEPT ![p] = @ - e]
        /\ \A r \in Q!Ids : r # p => rem_after_interrupt'[r] = rem_after_interrupt[r]
        /\ rem_after_interrupt'[p] = 0
        /\ front' = [front EXCEPT ![k] = @ + 1]
        /\ e = IF remaining_time[p] <= w THEN remaining_time[p] ELSE w
    BY DEF FullTurn, Turn, PassDone
  <2>2. ASSUME k = 2 PROVE Q!Ids \subseteq Left(1)
    <3>1. 1 \in Q!Levels /\ 1 < k
      BY <2>2, MlfqNumbers
    <3>2. in_q'[1] = Left(1) /\ in_q'[1] = in_q[1] \union Q!Entrants(1)
      BY <2>1, <3>1 DEF PassDone
    <3>3. Q!FlagsNow[1] = Q!Ids /\ Q!FlagsNow[1] = in_q[1] \union Q!Entrants(1)
      BY <3>1, AllArrive, QueuesGrow DEF MlfqInv
    <3> QED BY <3>2, <3>3
  <2> QED BY <2>1, <2>2
<1>2. \A m \in Q!Levels : Left(m)' = IF m = k THEN Left(m) \union {p} ELSE Left(m)
  BY <1>0, <1>1, FrontMoves
<1>3. w = (CASE k = 1 -> q1_quantum [] k = 2 -> q2_quantum [] k = 3 -> remaining_time[p])
  BY MlfqNumbers DEF Allowance
<1> HIDE DEF p, w
<1>4. /\ \A r \in Q!Ids : remaining_time[r] \in Int /\ burst_time[r] \in Int /\ remaining_time[r] <= burst_time[r]
      /\ remaining_time'[p] = remaining_time[p] - e
      /\ \A r \in Q!Ids : r # p => remaining_time'[r] = remaining_time[r]
  BY <1>0, <1>1, BurstsAreTimes DEF MlfqTyped
<1> DEFINE old(r) == remaining_time[r]
           now(r) == remaining_time'[r]
           all(r) == burst_time[r]
           L1 == Left(1)
           L2 == Left(2)
           L3 == Left(3)
           N1 == Left(1)'
           N2 == Left(2)'
           N3 == Left(3)'
           a == q1_quantum
           b == q2_quantum
<1>5. /\ \A r \in Q!Ids : old(r) \in Int /\ all(r) \in Int /\ old(r) <= all(r) /\ old(r) >= 0
      /\ \A r \in Q!Ids : r # p => now(r) = old(r)
      /\ now(p) = old(p) - e
      /\ a \in Nat /\ b \in Nat /\ p \in Q!Ids /\ e \in Nat
  BY <1>0, <1>1, <1>4 DEF LevelsInv
<1>6. /\ \A r \in Q!Ids :
           /\ r \in L1 => old(r) = 0 \/ all(r) - old(r) >= a
           /\ r \in L2 => old(r) = 0 \/ all(r) - old(r) >= a + b
           /\ r \notin L2 => all(r) - old(r) <= a
           /\ r \notin L3 => all(r) - old(r) <= a + b
      /\ L2 # {} => Q!Ids \subseteq L1
      /\ L3 # {} => \A r \in Q!Ids : old(r) = 0 \/ all(r) - old(r) >= a + b
  BY DEF LevelsInv, Served
<1>7. \A r \in Q!Ids : r \notin L1 => old(r) = all(r)
  BY <1>0 DEF FreshInv
<1>8. /\ N1 = (IF k = 1 THEN L1 \union {p} ELSE L1)
      /\ N2 = (IF k = 2 THEN L2 \union {p} ELSE L2)
      /\ N3 = (IF k = 3 THEN L3 \union {p} ELSE L3)
  BY <1>2, MlfqNumbers
<1>9. k = 1 \/ k = 2 \/ k = 3
  BY MlfqNumbers
<1>10. /\ p \notin Left(k) /\ (k # 1 => p \in L1)
       /\ k = 2 => Q!Ids \subseteq L1
       /\ k = 3 => Q!Ids \subseteq L1 /\ \A r \in Q!Ids : old(r) = 0 \/ r \in L2
       /\ k = 1 => p \notin L1
       /\ k = 2 => p \notin L2
       /\ k = 3 => p \notin L3
       /\ k = 1 => e = IF old(p) <= a THEN old(p) ELSE a
       /\ k = 2 => e = IF old(p) <= b THEN old(p) ELSE b
       /\ k = 3 => e = old(p)
  BY <1>1, <1>3, <1>5
<1> HIDE DEF old, now, all, L1, L2, L3, N1, N2, N3, a, b
<1>11. /\ \A r \in Q!Ids :
            /\ now(r) >= 0
            /\ r \in N1 => now(r) = 0 \/ all(r) - now(r) >= a
            /\ r \in N2 => now(r) = 0 \/ all(r) - now(r) >= a + b
            /\ r \notin N2 => all(r) - now(r) <= a
            /\ r \notin N3 => all(r) - now(r) <= a + b
       /\ N2 # {} => Q!Ids \subseteq N1
       /\ N3 # {} => \A r \in Q!Ids : now(r) = 0 \/ all(r) - now(r) >= a + b
  <2>1. CASE k = 1
    <3>1. N1 = L1 \union {p} /\ N2 = L2 /\ N3 = L3 /\ p \notin L1 /\ (e = IF old(p) <= a THEN old(p) ELSE a)
          /\ old(p) = all(p)
      BY <1>5, <1>7, <1>8, <1>10, <2>1
    <3>2. L2 = {} /\ (L3 # {} => old(p) = 0)
      <4>1. L2 = {}
        BY ONLY <1>5, <1>6, <3>1
      <4>2. ASSUME L3 # {} PROVE old(p) = 0
        <5>1. a + b \in Nat /\ (old(p) = 0 \/ all(p) - old(p) >= a + b)
          BY ONLY <1>5, <1>6, <4>2
        <5>2. all(p) - old(p) = 0
          BY ONLY <1>5, <3>1
        <5>3. a > 0
          BY MlfqConstants DEF a
        <5> QED BY ONLY <1>5, <5>1, <5>2, <5>3
      <4> QED BY <4>1, <4>2
    <3>3. /\ now(p) >= 0 /\ (now(p) = 0 \/ all(p) - now(p) >= a) /\ all(p) - now(p) <= a
          /\ all(p) - now(p) <= a + b /\ (old(p) = 0 => now(p) = 0)
      BY ONLY <1>5, <3>1
    <3>4. ASSUME NEW r \in Q!Ids
          PROVE /\ now(r) >= 0
                /\ r \in N1 => now(r) = 0 \/ all(r) - now(r) >= a
                /\ r \notin N2 => all(r) - now(r) <= a
                /\ r \notin N3 => all(r) - now(r) <= a + b
                /\ N3 # {} => now(r) = 0 \/ all(r) - now(r) >= a + b
      <4>1. CASE r = p
        BY ONLY <3>1, <3>2, <3>3, <4>1
      <4>2. CASE r # p
        BY ONLY <1>5, <1>6, <3>1, <3>4, <4>2
      <4> QED BY <4>1, <4>2
    <3> QED BY ONLY <3>1, <3>2, <3>4
  <2>2. CASE k = 2
    <3>1. N1 = L1 /\ N2 = L2 \union {p} /\ N3 = L3 /\ p \notin L2 /\ (e = IF old(p) <= b THEN old(p) ELSE b)
          /\ p \in L1 /\ Q!Ids \subseteq L1
      BY <1>5, <1>8, <1>10, <2>2
    <3>2. (old(p) = 0 \/ all(p) - old(p) >= a) /\ all(p) - old(p) <= a
      BY ONLY <1>5, <1>6, <3>1
    <3>3. /\ now(p) >= 0 /\ (now(p) = 0 \/ all(p) - now(p) >= a + b)
          /\ all(p) - now(p) <= a + b
      BY ONLY <1>5, <3>1, <3>2
    <3>4. ASSUME NEW r \in Q!Ids
          PROVE /\ now(r) >= 0
                /\ now(r) = 0 \/ all(r) - now(r) >= a
                /\ r \in N2 => now(r) = 0 \/ all(r) - now(r) >= a + b
                /\ r \notin N2 => all(r) - now(r) <= a
                /\ r \notin N3 => all(r) - now(r) <= a + b
                /\ N3 # {} => now(r) = 0 \/ all(r) - now(r) >= a + b
      <4>1. CASE r = p
        <5>1. now(r) = 0 \/ all(r) - now(r) >= a
          BY ONLY <1>5, <3>3, <4>1
        <5> QED BY ONLY <3>1, <3>3, <4>1, <5>1
      <4>2. CASE r # p
        BY ONLY <1>5, <1>6, <3>1, <3>4, <4>2
      <4> QED BY <4>1, <4>2
    <3> QED BY ONLY <3>1, <3>4
  <2>3. CASE k = 3
    <3>1. N1 = L1 /\ N2 = L2 /\ N3 = L3 \union {p} /\ p \notin L3 /\ e = old(p)
          /\ Q!Ids \subseteq L1 /\ \A r \in Q!Ids : old(r) = 0 \/ r \in L2
      BY <1>5, <1>8, <1>10, <2>3
    <3>2. now(p) = 0
      BY ONLY <1>5, <3>1
    <3>3. old(p) # 0 => p \in L2
      BY <1>5, <3>1
    <3>4. ASSUME NEW r \in Q!Ids
          PROVE /\ now(r) >= 0
                /\ now(r) = 0 \/ all(r) - now(r) >= a
                /\ now(r) = 0 \/ all(r) - now(r) >= a + b
                /\ r \notin N2 => all(r) - now(r) <= a
                /\ r \notin N3 => all(r) - now(r) <= a + b
      <4>1. CASE r = p
        <5>1. p \notin L2 => all(p) - now(p) <= a
          BY ONLY <1>5, <1>6, <3>2, <3>3
        <5> QED BY ONLY <1>5, <3>1, <3>2, <4>1, <5>1
      <4>2. CASE r # p
        BY ONLY <1>5, <1>6, <3>1, <3>4, <4>2
      <4> QED BY <4>1, <4>2
    <3> QED BY ONLY <3>1, <3>4
  <2> QED BY <1>9, <2>1, <2>2, <2>3
<1>12. \A r \in Q!Ids : rem_after_interrupt'[r] = 0
  BY <1>1 DEF LevelsInv
<1> QED BY <1>1, <1>11, <1>12 DEF LevelsInv, Served, old, now, all, N1, N2, N3, a, b

(* Every step keeps the order of the levels.                               *)
LEMMA LevelsGoOn ==
  ASSUME MlfqInv, LevelsInv, Q!Next \/ UNCHANGED Q!mlfqVars
  PROVE  LevelsInv'
<1>0. arrival_time' = arrival_time
  BY DEF Q!Next, Q!RunQueue1, Q!RunQueue2, Q!RunQueue3, Q!InterruptQueue2, Q!InterruptQueue3, Q!StaleHead,
         Q!NobodyToRun, Q!Finish, Q!Pass, Q!mlfqVars, Q!inputs
<1>1. CASE ~Q!AllAtZero
  BY <1>0, <1>1 DEF LevelsInv, Q!AllAtZero
<1>2. CASE UNCHANGED Q!mlfqVars
  BY <1>2, LevelsSame DEF Q!mlfqVars, Q!inputs
<1>3. CASE Q!AllAtZero /\ Q!Next
  <2>1. \/ \E k \in Q!Levels : Stale(k) \/ \E e \in Nat : FullTurn(k, e)
        \/ UNCHANGED Q!mlfqVars
        \/ Q!Finish
    BY <1>3, FullTurns
  <2>2. ASSUME Q!Finish PROVE LevelsInv'
    BY <2>2, LevelsSame DEF Q!Finish, Q!inputs
  <2>3. ASSUME NEW k \in Q!Levels, NEW e \in Nat, FullTurn(k, e) PROVE LevelsInv'
    <3>1. ASSUME k = 3 PROVE Q!Ids \subseteq Left(1) /\ \A r \in Q!Ids : remaining_time[r] = 0 \/ r \in Left(2)
      <4>1. 1 \in Q!Levels /\ 2 \in Q!Levels /\ 1 < k /\ 2 < k
        BY <3>1, MlfqNumbers
      <4>2. /\ in_q'[1] = Left(1) /\ in_q'[1] = in_q[1] \union Q!Entrants(1)
            /\ in_q'[2] = Left(2) /\ in_q'[2] = in_q[2] \union Q!Entrants(2)
            /\ Left(1) \subseteq in_q[1]
        BY <2>3, <4>1 DEF FullTurn, Turn, PassDone
      <4>3. Q!FlagsNow[1] = Q!Ids /\ Q!FlagsNow[1] = in_q[1] \union Q!Entrants(1)
        BY <1>3, <4>1, AllArrive, QueuesGrow DEF MlfqInv
      <4>4. Q!Ids \subseteq Left(1) /\ Q!Ids \subseteq in_q[1]
        BY <4>2, <4>3
      <4>5. ASSUME NEW r \in Q!Ids, remaining_time[r] # 0 PROVE r \in Left(2)
        <5>1. r \notin finished /\ arrival_time[r] <= time /\ in_q[3] \subseteq in_q[2]
          BY <1>3, <4>5 DEF MlfqInv, FreshInv, QueuesInv, MlfqTyped, Q!AllAtZero
        <5>2. r \in in_q[2] \/ r \in Q!Entrants(2)
          BY <4>4, <5>1 DEF Q!Entrants, Q!Enters
        <5> QED BY <4>2, <5>2
      <4> QED BY <4>4, <4>5
    <3> QED BY <1>3, <2>3, <3>1, LevelsTurns
  <2>4. ASSUME NEW k \in Q!Levels, Stale(k) PROVE LevelsInv'
    BY <2>4, LevelsStale
  <2> QED BY <1>2, <2>1, <2>2, <2>3, <2>4
<1> QED BY <1>1, <1>2, <1>3

(* At the start nobody has had a turn.                                     *)
LEMMA LevelsStart == ASSUME Q!Init PROVE LevelsInv
<1>1. MlfqInv
  BY MlfqStarts
<1>2. \A p \in Q!Ids : burst_time[p] \in Nat /\ remaining_time[p] = burst_time[p] /\ rem_after_interrupt[p] = 0
  BY <1>1, BurstsAreTimes DEF MlfqInv, MlfqTyped, Q!Init
<1>3. Left(1) = {} /\ Left(2) = {} /\ Left(3) = {}
  <2>1. front[1] = 0 /\ front[2] = 0 /\ front[3] = 0
    BY MlfqNumbers DEF Q!Init
  <2> QED BY <2>1 DEF Left
<1>4. q1_quantum \in Nat /\ q2_quantum \in Nat
  BY MlfqConstants
<1>5. \A p \in Q!Ids : burst_time[p] - remaining_time[p] = 0 /\ remaining_time[p] >= 0
  BY <1>2
<1> QED BY <1>2, <1>3, <1>4, <1>5 DEF LevelsInv

(* The invariant gives the property.                                       *)
LEMMA LevelsKeep == ASSUME MlfqInv, LevelsInv PROVE Q!LevelsInOrder
<1> SUFFICES ASSUME Q!AllAtZero, NEW p \in Q!Ids, NEW r \in Q!Ids
             PROVE  /\ burst_time[p] - remaining_time[p] > q1_quantum =>
                         burst_time[r] - remaining_time[r] >= Q!Min({burst_time[r], q1_quantum})
                    /\ burst_time[p] - remaining_time[p] > q1_quantum + q2_quantum =>
                         burst_time[r] - remaining_time[r] >= Q!Min({burst_time[r], q1_quantum + q2_quantum})
  BY DEF Q!LevelsInOrder, Q!Used
<1> DEFINE a == q1_quantum
           b == q1_quantum + q2_quantum
           up == burst_time[p] - remaining_time[p]
           br == burst_time[r]
           rr == remaining_time[r]
<1>1. a \in Int /\ b \in Int /\ br \in Int /\ rr \in Int /\ up \in Int
  <2>1. burst_time[p] \in Int /\ burst_time[r] \in Int /\ remaining_time[p] \in Int /\ remaining_time[r] \in Int
    BY BurstsAreTimes DEF MlfqInv, MlfqTyped
  <2> QED BY <2>1, MlfqConstants
<1>2. /\ Q!Min({br, a}) = (IF br <= a THEN br ELSE a)
      /\ Q!Min({br, b}) = (IF br <= b THEN br ELSE b)
  BY <1>1, LesserOf
<1>3. /\ up > a => rr = 0 \/ br - rr >= a
      /\ up > b => rr = 0 \/ br - rr >= b
  <2>1. ASSUME up > a PROVE rr = 0 \/ br - rr >= a
    <3>1. p \in Left(2)
      BY <1>1, <2>1 DEF LevelsInv
    <3> QED BY <3>1 DEF LevelsInv, Served
  <2>2. ASSUME up > b PROVE rr = 0 \/ br - rr >= b
    <3>1. p \in Left(3)
      BY <1>1, <2>2 DEF LevelsInv
    <3> QED BY <3>1 DEF LevelsInv, Served
  <2> QED BY <2>1, <2>2
<1> HIDE DEF a, b, up, br, rr
<1>4. /\ up > a => br - rr >= Q!Min({br, a})
      /\ up > b => br - rr >= Q!Min({br, b})
  BY ONLY <1>1, <1>2, <1>3
<1> QED BY <1>4 DEF a, b, up, br, rr

-----------------------------------------------------------------------------
(***************************************************************************)
(* The multi-level scheduler: its end.                                     *)
(***************************************************************************)
(* The head of queue k is stale, and nobody is in a queue above it, nor     *)
(* will be before the clock moves.                                          *)
Blocked(k) ==
  /\ Q!Stale(k)
  /\ \A j \in Q!Levels : j < k =>
       front[j] = Len(queue[j]) /\ in_q[j] = Left(j) /\ Q!Entrants(j) = {}

(* The counter is that of the processes marked, or a stale head is all that *)
(* the passes get to see; who has left the first queue had its whole turn.  *)
CutInv ==
  /\ \/ completed = Cardinality(finished)
     \/ completed > Cardinality(finished) /\ \E k \in 2 .. 3 : Blocked(k)
  /\ \A p \in Left(1) : remaining_time[p] <= 0 \/ burst_time[p] - remaining_time[p] >= q1_quantum

(* The number of processes marked. *)
LEMMA MarkedFinite ==
  ASSUME MlfqInv
  PROVE  IsFiniteSet(finished) /\ Cardinality(finished) \in Nat /\ completed \in Nat
<1>1. finished \subseteq Q!Ids /\ IsFiniteSet(Q!Ids) /\ completed \in 0 .. n /\ n \in Nat
  BY MlfqNumbers, MlfqConstants DEF MlfqInv, MlfqTyped
<1> QED BY <1>1, FS_Subset, FS_CardinalityType

(* Counting a stale head leaves it where it is, the first of all. *)
LEMMA CutStale == ASSUME MlfqInv, CutInv, NEW k \in Q!Levels, Stale(k) PROVE CutInv'
<1>1. /\ PassDone(k) /\ Heads(k) /\ k \in 2 .. 3 /\ remaining_time[Q!get_top(k)] <= 0
      /\ completed' = completed + 1
      /\ UNCHANGED <<arrival_time, burst_time, remaining_time, front, time, finished>>
  BY MlfqNumbers DEF Stale, PassDone
<1>2. completed' > Cardinality(finished)'
  BY <1>1, MarkedFinite DEF CutInv
<1>3. Left(1)' = Left(1) /\ \A m \in Q!Levels : Left(m)' = Left(m)
  BY <1>1, FrontStays, MlfqNumbers DEF MlfqInv
<1>4. Q!Stale(k)'
  BY <1>1 DEF Heads, Q!Stale
<1>5. ASSUME NEW j \in Q!Levels, j < k
      PROVE  front'[j] = Len(queue'[j]) /\ in_q'[j] = Left(j)' /\ Q!Entrants(j)' = {}
  <2>1. /\ in_q'[j] = in_q[j] \union Q!Entrants(j) /\ in_q'[j] = Left(j) /\ Left(j) \subseteq in_q[j]
    BY <1>5, <1>1 DEF PassDone
  <2>2. front'[j] = Len(queue'[j])
    BY <1>1, <1>5 DEF Heads
  <2>3. in_q'[1] = in_q[1] \union Q!Entrants(1) /\ in_q'[3] = in_q[3] \union Q!Entrants(3)
    BY <1>1, MlfqNumbers DEF PassDone
  <2>4. ASSUME NEW p \in Q!Entrants(j)' PROVE FALSE
    <3>1. p \in Q!Ids \ finished /\ arrival_time[p] <= time /\ Q!Enters(p, j)'
      BY <1>1, <2>4 DEF Q!Entrants, Q!Ids
    <3>2. CASE j = 1
      <4>1. p \notin in_q[1]
        BY <2>3, <3>1, <3>2 DEF Q!Enters
      <4>2. p \in Q!Entrants(1)
        BY <3>1, <4>1 DEF Q!Entrants, Q!Enters
      <4> QED BY <2>1, <3>2, <4>1, <4>2
    <3>3. CASE j = 2
      <4>1. p \in in_q'[1] /\ p \notin in_q[2] /\ p \notin in_q[3]
        BY <2>1, <2>3, <3>1, <3>3 DEF Q!Enters
      <4>2. p \in in_q[1]
        <5>1. in_q'[1] = Left(1) /\ Left(1) \subseteq in_q[1]
          BY <1>1, <1>5, <3>3, MlfqNumbers DEF PassDone
        <5> QED BY <4>1, <5>1
      <4>3. p \in Q!Entrants(2)
        BY <3>1, <4>1, <4>2 DEF Q!Entrants, Q!Enters
      <4> QED BY <2>1, <3>3, <4>1, <4>3
    <3> QED BY <1>1, <1>5, <3>2, <3>3, MlfqNumbers
  <2> QED BY <1>3, <2>1, <2>2, <2>4
<1>6. Q!Levels' = Q!Levels
  BY DEF Q!Levels
<1> QED BY <1>1, <1>2, <1>3, <1>4, <1>5, <1>6 DEF CutInv, Blocked

(* Nobody has a turn behind a stale head. *)
LEMMA BlockedStays ==
  ASSUME MlfqInv, NEW b \in 2 .. 3, Blocked(b), NEW k \in Q!Levels, NEW e \in Nat, Turn(k, e)
  PROVE  FALSE
<1> DEFINE p == Q!get_top(k)
           f == front[b] + 1
<1>1. /\ PassDone(k) /\ Heads(k) /\ (k # 1 => remaining_time[p] > 0) /\ p \in Q!Ids
      /\ p \in in_q'[k] /\ p \notin Left(k)
      /\ in_q'[k] = in_q[k] \union Q!Entrants(k)
      /\ remaining_time[p] \in Int
  BY DEF Turn, PassDone, MlfqInv, MlfqTyped
<1>2. b \in Q!Levels /\ (b = 2 \/ b = 3) /\ front[b] \in Nat
  BY MlfqNumbers DEF MlfqInv, MlfqTyped
<1>3. front[b] < Len(queue[b]) /\ remaining_time[queue[b][f]] <= 0
  BY DEF Blocked, Q!Stale
<1>4. CASE k < b
  BY <1>1, <1>2, <1>4 DEF Blocked
<1>5. CASE b < k
  BY <1>1, <1>2, <1>3, <1>5 DEF Heads
<1>6. CASE k = b
  <2>1. f \in 1 .. Len(queue[b])
    BY <1>1, <1>2, <1>3 DEF Heads
  <2>2. p = queue'[b][f] /\ queue'[b][f] = queue[b][f]
    BY <1>1, <1>2, <1>6, <2>1 DEF Heads
  <2> HIDE DEF p, f
  <2> QED BY <1>1, <1>2, <1>3, <1>6, <2>2
<1> QED BY <1>2, <1>4, <1>5, <1>6, MlfqNumbers

(* A turn counts the process that ends with it, and no other. *)
LEMMA CutTurns ==
  ASSUME MlfqInv, CutInv, NEW k \in Q!Levels, NEW e \in Nat, Turn(k, e)
  PROVE  CutInv'
<1> DEFINE p == Q!get_top(k)
<1>1. /\ PassDone(k) /\ p \in Q!Ids /\ p \notin finished /\ burst_time' = burst_time
      /\ remaining_time' = [remaining_time EXCEPT ![p] = @ - e]
      /\ k = 1 => remaining_time[p] <= e \/ q1_quantum <= e
      /\ k # 1 => p \in Left(1)
      /\ \/ finished' = finished /\ completed' = completed
         \/ finished' = finished \union {p} /\ completed' = completed + 1
      /\ \/ front' = [front EXCEPT ![k] = @ + 1]
         \/ k # 1 /\ front' = front
      /\ remaining_time \in [Q!Ids -> Int] /\ \A r \in Q!Ids : remaining_time[r] <= burst_time[r]
      /\ Left(1) \subseteq in_q[1] /\ in_q[1] \subseteq Q!Ids
  BY MlfqNumbers DEF Turn, PassDone, MlfqInv, MlfqTyped
<1>2. completed = Cardinality(finished)
  BY BlockedStays DEF CutInv
<1>3. completed' = Cardinality(finished')
  BY <1>1, <1>2, MarkedFinite, FS_AddElement
<1>4. Left(1)' \subseteq Left(1) \union {p} /\ (p \in Left(1)' /\ p \notin Left(1) => k = 1)
  <2>0. 1 \in Q!Levels /\ MlfqTyped
    BY MlfqNumbers DEF MlfqInv
  <2>1. CASE front' = [front EXCEPT ![k] = @ + 1]
    <3>1. Left(1)' = IF 1 = k THEN Left(1) \union {p} ELSE Left(1)
      BY <1>1, <2>0, <2>1, FrontMoves
    <3> QED BY <1>1, <3>1
  <2>2. CASE front' = front
    <3>1. Left(1)' = Left(1)
      BY <1>1, <2>0, <2>2, FrontStays
    <3> QED BY <3>1
  <2> QED BY <1>1, <2>1, <2>2
<1>5. ASSUME NEW r \in Left(1)'
      PROVE  remaining_time'[r] <= 0 \/ burst_time'[r] - remaining_time'[r] >= q1_quantum
  <2>0. /\ r \in Q!Ids /\ remaining_time[r] \in Int /\ burst_time[r] \in Int /\ q1_quantum \in Int
        /\ remaining_time[r] <= burst_time[r]
    <3>1. r \in Q!Ids
      BY <1>1, <1>4, <1>5
    <3> QED BY <1>1, <3>1, BurstsAreTimes, MlfqConstants DEF MlfqInv, MlfqTyped
  <2>1. remaining_time'[r] = IF r = p THEN remaining_time[r] - e ELSE remaining_time[r]
    BY <1>1, <2>0
  <2>2. CASE r \in Left(1)
    <3>1. remaining_time[r] <= 0 \/ burst_time[r] - remaining_time[r] >= q1_quantum
      BY <2>2 DEF CutInv
    <3> HIDE DEF p
    <3> QED BY <1>1, <2>0, <2>1, <3>1
  <2>3. CASE r \notin Left(1)
    <3>1. r = p /\ (remaining_time[r] <= e \/ q1_quantum <= e)
      BY <1>1, <1>4, <1>5, <2>3
    <3>2. remaining_time'[r] = remaining_time[r] - e
      BY <2>1, <3>1
    <3> HIDE DEF p
    <3> QED BY <1>1, <2>0, <3>1, <3>2
  <2> QED BY <2>2, <2>3
<1> QED BY <1>3, <1>5 DEF CutInv

(* Every step keeps it. *)
LEMMA CutGoesOn ==
  ASSUME MlfqInv, CutInv, Q!Next \/ UNCHANGED Q!mlfqVars
  PROVE  CutInv'
<1>1. ASSUME UNCHANGED <<arrival_time, burst_time, remaining_time, in_q, queue, front, time, finished, completed>>
      PROVE  CutInv'
  <2>1. \A k : Left(k)' = Left(k) /\ Q!Stale(k)' = Q!Stale(k) /\ Q!Entrants(k)' = Q!Entrants(k)
    BY <1>1 DEF Left, Q!Stale, Q!Entrants, Q!Enters, Q!Ids
  <2>2. \A k : Blocked(k)' = Blocked(k)
    BY <1>1, <2>1 DEF Blocked, Q!Levels
  <2> QED BY <1>1, <2>1, <2>2 DEF CutInv
<1>2. CASE UNCHANGED Q!mlfqVars
  BY <1>1, <1>2 DEF Q!mlfqVars, Q!inputs
<1>3. CASE Q!Next
  <2>1. \/ \E k \in Q!Levels : Stale(k) \/ \E e \in Nat : Turn(k, e)
        \/ UNCHANGED Q!mlfqVars
        \/ Q!Finish
    BY <1>3, MlfqSteps DEF MlfqInv
  <2>2. CASE Q!Finish
    BY <1>1, <2>2 DEF Q!Finish, Q!inputs
  <2> QED BY <1>2, <2>1, <2>2, CutStale, CutTurns
<1> QED BY <1>2, <1>3

LEMMA CutStarts == ASSUME Q!Init PROVE CutInv
<1>1. completed = 0 /\ finished = {} /\ front[1] = 0
  BY MlfqNumbers DEF Q!Init
<1>2. Left(1) = {}
  BY <1>1 DEF Left
<1> QED BY <1>1, <1>2, FS_EmptySet DEF CutInv

(* The invariant gives the property. *)
LEMMA CutKeeps == ASSUME MlfqInv, CutInv PROVE Q!CutShortByStaleHead
<1>1. CASE completed = Cardinality(finished)
  BY <1>1, MlfqCardinality DEF Q!CutShortByStaleHead
<1>2. CASE completed > Cardinality(finished)
  <2>1. PICK k \in 2 .. 3 : Blocked(k)
    BY <1>2, MarkedFinite DEF CutInv
  <2>2. \A j \in 1 .. k - 1 : front[j] = Len(queue[j])
    BY <2>1 DEF Blocked, Q!Levels
  <2>3. in_q[1] = Left(1) /\ Q!Entrants(1) = {}
    BY <2>1, MlfqNumbers DEF Blocked
  <2>4. ASSUME NEW p \in Q!Ids, arrival_time[p] <= time
        PROVE  Q!Used(p) >= Q!Min({burst_time[p], q1_quantum})
    <3>1. /\ remaining_time[p] \in Int /\ burst_time[p] \in Int /\ q1_quantum \in Int
          /\ remaining_time[p] <= burst_time[p]
      BY BurstsAreTimes, MlfqConstants DEF MlfqInv, MlfqTyped
    <3>2. remaining_time[p] <= 0 \/ burst_time[p] - remaining_time[p] >= q1_quantum
      <4>1. CASE p \in finished
        BY <4>1 DEF MlfqInv, FreshInv
      <4>2. CASE p \notin finished
        <5>1. p \in Left(1)
          BY <2>3, <2>4, <4>2 DEF Q!Entrants, Q!Enters
        <5> QED BY <5>1 DEF CutInv
      <4> QED BY <4>1, <4>2
    <3>3. Q!Min({burst_time[p], q1_quantum}) = IF burst_time[p] <= q1_quantum THEN burst_time[p] ELSE q1_quantum
      BY <3>1, LesserOf
    <3> QED BY <3>1, <3>2, <3>3 DEF Q!Used
  <2> QED BY <1>2, <2>1, <2>2, <2>4, MlfqCardinality DEF Q!CutShortByStaleHead, Blocked
<1> QED BY <1>1, <1>2 DEF CutInv

-----------------------------------------------------------------------------
(***************************************************************************)
(* Folds, and the sort routines.                                           *)
(***************************************************************************)
(* What a fold takes last. *)
Top(s) == CHOOSE x \in s : \A y \in s : x >= y

(* Top is the largest of a set of numbers.                                 *)
LEMMA TopOf ==
  ASSUME NEW m \in Nat, NEW s \in SUBSET (1 .. m), s # {}
  PROVE  /\ Top(s) \in s /\ Top(s) \in 1 .. m /\ s \ {Top(s)} \in SUBSET (1 .. m)
         /\ Cardinality(s) \in Nat /\ Cardinality(s \ {Top(s)}) < Cardinality(s)
<1>1. IsFiniteSet(1 .. m) /\ IsFiniteSet(s) /\ s \subseteq Nat
  <2>1. IsFiniteSet(1 .. m)
    BY FS_Interval
  <2>2. s \subseteq 1 .. m
    OBVIOUS
  <2>3. IsFiniteSet(s)
    BY ONLY <2>1, <2>2, FS_Subset
  <2> QED BY <2>1, <2>2, <2>3
<1>2. \E x \in s : \A y \in s : y <= x
  BY <1>1, LargestOf
<1>3. \E x \in s : \A y \in s : x >= y
  BY <1>1, <1>2
<1>4. Top(s) \in s
  BY <1>3 DEF Top
<1>5. Cardinality(s) \in Nat /\ IsFiniteSet(s \ {Top(s)}) /\ Cardinality(s \ {Top(s)}) = Cardinality(s) - 1
  BY <1>1, <1>4, FS_RemoveElement, FS_CardinalityType
<1>6. Cardinality(s \ {Top(s)}) < Cardinality(s)
  BY ONLY <1>5
<1> QED BY <1>4, <1>5, <1>6

(* An interval that starts at 1 ends in its Top.                           *)
LEMMA TopInterval ==
  ASSUME NEW j \in Nat, j # 0
  PROVE  1 .. j # {} /\ Top(1 .. j) = j /\ (1 .. j) \ {j} = 1 .. j - 1
<1>1. j \in 1 .. j /\ (\A y \in 1 .. j : j >= y) /\ (1 .. j) \ {j} = 1 .. j - 1
  OBVIOUS
<1>2. \A x \in 1 .. j : (\A y \in 1 .. j : x >= y) => x = j
  <2>1. ASSUME NEW x \in 1 .. j, \A y \in 1 .. j : x >= y PROVE x = j
    <3>1. x >= j /\ x <= j /\ x \in Nat
      BY <1>1, <2>1
    <3> QED BY <3>1
  <2> QED BY <2>1
<1> QED BY <1>1, <1>2 DEF Top

(* A fold over 1, ..., m that stays in V; F[j] is its step at j.            *)
FoldIn(m, V, b, F) == m \in Nat /\ b \in V /\ F \in [1 .. m -> [V -> V]]

(* What the fold yields on every subset.                                   *)
FoldValues(g, m, V, b, F) ==
  /\ g \in [SUBSET (1 .. m) -> V]
  /\ \A s \in SUBSET (1 .. m) : g[s] = IF s = {} THEN b ELSE F[Top(s)][g[s \ {Top(s)}]]

(* A fold over 1, ..., m takes its steps in that order.                    *)
LEMMA FoldSteps ==
  ASSUME NEW m, NEW V, NEW b, NEW F, FoldIn(m, V, b, F)
  PROVE  \E g : FoldValues(g, m, V, b, F)
<1> USE DEF FoldIn
<1> DEFINE Dom == SUBSET (1 .. m)
           mu == [s \in Dom |-> Cardinality(s)]
           Fun == [g \in [Dom -> V] |-> [s \in Dom |-> IF s = {} THEN b ELSE F[Top(s)][g[s \ {Top(s)}]]]]
<1>1. mu \in [Dom -> Nat]
  <2>1. ASSUME NEW s \in Dom PROVE Cardinality(s) \in Nat
    <3>1. IsFiniteSet(1 .. m)
      BY FS_Interval
    <3> QED BY <3>1, FS_Subset, FS_CardinalityType
  <2> QED BY <2>1
<1>2. Fun \in [[Dom -> V] -> [Dom -> V]]
  <2>1. ASSUME NEW g \in [Dom -> V], NEW s \in Dom
        PROVE  (IF s = {} THEN b ELSE F[Top(s)][g[s \ {Top(s)}]]) \in V
    <3>1. CASE s = {}
      BY <3>1
    <3>2. CASE s # {}
      <4>1. Top(s) \in 1 .. m /\ s \ {Top(s)} \in Dom
        BY <3>2, TopOf
      <4>2. g[s \ {Top(s)}] \in V /\ F[Top(s)] \in [V -> V]
        BY <4>1
      <4> QED BY <3>2, <4>2
    <3> QED BY <3>1, <3>2
  <2> HIDE DEF Dom
  <2> QED BY <2>1
<1>3. ASSUME NEW g \in [Dom -> V], NEW h \in [Dom -> V], NEW s \in Dom,
             \A y \in Dom : mu[y] < mu[s] => g[y] = h[y]
      PROVE  Fun[g][s] = Fun[h][s]
  <2>1. CASE s = {}
    BY <2>1
  <2>2. CASE s # {}
    <3> DEFINE y == s \ {Top(s)}
    <3>1. y \in Dom /\ mu[y] < mu[s]
      BY <2>2, TopOf
    <3>2. g[y] = h[y]
      BY <1>3, <3>1
    <3> QED BY <2>2, <3>2
  <2> QED BY <2>1, <2>2
<1> HIDE DEF mu, Fun, Dom
<1>4. Recursive(Dom, V, mu, Fun)
  BY <1>1, <1>2, <1>3 DEF Recursive
<1>5. \E g \in [Dom -> V] : g = Fun[g]
  BY ONLY <1>4, Recursion
<1>6. PICK g \in [Dom -> V] : g = Fun[g]
  BY <1>5
<1>7. \A s \in Dom : Fun[g][s] = IF s = {} THEN b ELSE F[Top(s)][g[s \ {Top(s)}]]
  BY DEF Fun
<1>8. FoldValues(g, m, V, b, F)
  BY <1>6, <1>7 DEF Dom, FoldValues
<1> QED BY <1>8

(* The values a fold goes through. *)
Trace(r, m, V, F) ==
  /\ r \in [0 .. m -> V]
  /\ \A j \in 1 .. m : j - 1 \in 0 .. m /\ r[j] = F[j][r[j - 1]]


(* The arrays that list every process.                                     *)
Arrays == {t \in [S!Ids -> S!Ids] : {t[k] : k \in S!Ids} = S!Ids}

(* Exchanging two entries keeps an array one.                              *)
LEMMA ExchangedArrays ==
  ASSUME NEW t \in Arrays, NEW j \in S!Ids, NEW k \in S!Ids
  PROVE  /\ S!Exchanged(t, j, k) \in Arrays
         /\ S!Exchanged(t, j, k)[j] = t[k] /\ S!Exchanged(t, j, k)[k] = t[j]
         /\ \A i \in S!Ids : i # j /\ i # k => S!Exchanged(t, j, k)[i] = t[i]
<1> DEFINE u == S!Exchanged(t, j, k)
<1>1. t \in [S!Ids -> S!Ids] /\ {t[i] : i \in S!Ids} = S!Ids
  BY DEF Arrays
<1>2. u = [t EXCEPT ![j] = t[k], ![k] = t[j]]
  BY DEF S!Exchanged
<1> HIDE DEF u
<1>3. /\ u \in [S!Ids -> S!Ids] /\ u[j] = t[k] /\ u[k] = t[j]
      /\ \A i \in S!Ids : i # j /\ i # k => u[i] = t[i]
  BY <1>1, <1>2
<1>4. ASSUME NEW p \in S!Ids PROVE \E i \in S!Ids : u[i] = p
  <2>1. PICK i \in S!Ids : t[i] = p
    BY <1>1
  <2> QED BY <1>3, <2>1
<1>5. {u[i] : i \in S!Ids} = S!Ids
  BY <1>3, <1>4
<1> QED BY <1>3, <1>5 DEF u, Arrays

(* The assumptions on Schedulers' constants.                               *)
LEMMA SchedulersConstants ==
  /\ n \in Nat \ {0} /\ quantum \in Nat \ {0}
  /\ Bursts \subseteq Nat /\ Arrivals \subseteq Nat /\ Priorities \subseteq Int
  BY SimulatorsAssumption DEF SimulatorsAssumption, S!SchedulersAssumption

(* The process ids.                                                        *)
LEMMA SchedulersIds ==
  /\ S!Ids = Q!Ids /\ S!Ids = 1 .. n /\ IsFiniteSet(S!Ids) /\ Cardinality(S!Ids) = n /\ S!Ids \subseteq Nat
  /\ 1 \in S!Ids /\ n - 1 \in Nat
  /\ \A p : S!Cardinality(p) = Cardinality(p)
<1>1. S!Ids = Q!Ids /\ S!Ids = 1 .. n
  BY DEF S!Ids, Q!Ids
<1>2. n - 1 \in Nat /\ 1 \in 1 .. n
  BY SchedulersConstants
<1>3. \A p : S!Cardinality(p) = Cardinality(p)
  BY DEF S!Cardinality, Cardinality
<1> QED BY <1>1, <1>2, <1>3, MlfqNumbers

(* For a fold over 1, ..., m there is a trace. *)
Folded(h, m, V, b, F) ==
  \A s \in SUBSET (1 .. m) : h[s] = IF s = {} THEN b
             ELSE IF h[s \ {Top(s)}] \in V THEN F[Top(s)][h[s \ {Top(s)}]] ELSE h[s]

(* The values of a fold over 1, ..., m form a trace.                       *)
LEMMA FoldTraces ==
  ASSUME NEW m, NEW V, NEW b, NEW F, FoldIn(m, V, b, F), NEW h, Folded(h, m, V, b, F)
  PROVE  \E r : Trace(r, m, V, F) /\ r[0] = b /\ r[m] = h[1 .. m]
<1> USE DEF FoldIn, Folded
<1> DEFINE r == [j \in 0 .. m |-> h[1 .. j]]
<1>1. ASSUME NEW j \in 1 .. m
      PROVE  /\ j - 1 \in 0 .. m /\ 1 .. j \in SUBSET (1 .. m) /\ 1 .. j # {}
             /\ Top(1 .. j) = j /\ (1 .. j) \ {j} = 1 .. j - 1
  <2>1. j \in Nat /\ j # 0 /\ j - 1 \in 0 .. m /\ 1 .. j \in SUBSET (1 .. m)
    OBVIOUS
  <2> QED BY <2>1, TopInterval
<1>2. ASSUME NEW j \in 1 .. m, h[1 .. j - 1] \in V PROVE h[1 .. j] = F[j][h[1 .. j - 1]]
  <2> DEFINE s == 1 .. j
  <2>1. s \in SUBSET (1 .. m) /\ s # {} /\ Top(s) = j /\ s \ {Top(s)} = 1 .. j - 1
    BY <1>1
  <2> HIDE DEF s
  <2>2. h[s] = IF h[s \ {Top(s)}] \in V THEN F[Top(s)][h[s \ {Top(s)}]] ELSE h[s]
    BY <2>1
  <2>3. h[s \ {Top(s)}] \in V
    BY <1>2, <2>1
  <2>4. h[s] = F[j][h[1 .. j - 1]]
    BY <2>1, <2>2, <2>3
  <2> QED BY <2>4 DEF s
<1>3. h[1 .. 0] = b
  <2>1. 1 .. 0 = {} /\ {} \in SUBSET (1 .. m)
    OBVIOUS
  <2> QED BY <2>1
<1> DEFINE bad == {j \in 0 .. m : h[1 .. j] \notin V}
<1>4. ASSUME bad # {} PROVE FALSE
  <2>1. PICK j \in bad : \A i \in bad : j <= i
    <3>1. bad \subseteq Nat
      OBVIOUS
    <3> HIDE DEF bad
    <3> QED BY <1>4, <3>1, SmallestOf
  <2>2. j \in 0 .. m /\ h[1 .. j] \notin V
    BY <2>1
  <2>3. j # 0
    BY <1>3, <2>2
  <2>4. j \in 1 .. m /\ j - 1 \in 0 .. m /\ ~(j <= j - 1)
    BY <2>2, <2>3
  <2>5. h[1 .. j - 1] \in V
    BY <2>1, <2>4
  <2>6. h[1 .. j] = F[j][h[1 .. j - 1]] /\ F[j] \in [V -> V]
    BY <1>2, <2>4, <2>5
  <2> QED BY <2>2, <2>5, <2>6
<1>5. \A j \in 0 .. m : h[1 .. j] \in V
  BY <1>4
<1>6. r \in [0 .. m -> V]
  BY <1>5
<1>7. \A j \in 1 .. m : j - 1 \in 0 .. m /\ r[j] = F[j][r[j - 1]]
  <2>1. ASSUME NEW j \in 1 .. m PROVE j - 1 \in 0 .. m /\ r[j] = F[j][r[j - 1]]
    <3>1. j - 1 \in 0 .. m /\ j \in 0 .. m
      OBVIOUS
    <3>2. h[1 .. j - 1] \in V
      BY <1>5, <3>1
    <3> QED BY <1>2, <3>1, <3>2
  <2> QED BY <2>1
<1>8. r[0] = b /\ r[m] = h[1 .. m]
  BY <1>3
<1> HIDE DEF r
<1> QED BY <1>6, <1>7, <1>8 DEF Trace

(* The smallest that selection_sort() looks for is there.                  *)
LEMMA LeastExists ==
  ASSUME burst_time \in [S!Ids -> Nat], NEW t \in Arrays, NEW j \in S!Ids
  PROVE  /\ S!Least(t, j) \in S!Ids /\ S!Least(t, j) \in j .. n
         /\ \A m \in j .. n : burst_time[t[S!Least(t, j)]] <= burst_time[t[m]]
<1>0. S!Ids = 1 .. n /\ j \in Nat /\ n \in Nat /\ j .. n \subseteq S!Ids /\ j \in j .. n
      /\ t \in [S!Ids -> S!Ids]
  <2>1. S!Ids = 1 .. n /\ n \in Nat
    BY SchedulersIds, SchedulersConstants
  <2>2. j \in 1 .. n
    BY <2>1
  <2>3. j \in Nat /\ j .. n \subseteq 1 .. n /\ j \in j .. n
    BY ONLY <2>1, <2>2
  <2> QED BY <2>1, <2>3 DEF Arrays
<1> DEFINE b(k) == burst_time[t[k]]
           values == {b(k) : k \in j .. n}
<1>1. \A k \in j .. n : b(k) \in Nat
  BY <1>0
<1>2. PICK v \in values : \A w \in values : v <= w
  <2>1. values \subseteq Nat /\ values # {}
    BY <1>0, <1>1
  <2> HIDE DEF values
  <2> QED BY <2>1, SmallestOf
<1> DEFINE best == {k \in j .. n : b(k) = v}
<1>3. PICK k \in best : \A i \in best : k <= i
  <2>1. j .. n \subseteq Nat
    BY <1>0
  <2>2. \E i \in j .. n : b(i) = v
    BY <1>2
  <2>3. best \subseteq Nat /\ best # {}
    BY <2>1, <2>2
  <2> HIDE DEF best
  <2> QED BY <2>3, SmallestOf
<1>4. k \in j .. n /\ \A m \in j .. n : b(k) <= b(m)
  BY <1>2, <1>3
<1>5. ASSUME NEW m \in j .. k - 1 PROVE b(k) < b(m)
  <2>1. m \in j .. n /\ m < k /\ m \in Nat /\ k \in Nat
    BY <1>0, <1>4
  <2>2. m \notin best
    BY <1>3, <2>1
  <2>3. b(m) # v /\ b(k) = v /\ b(k) <= b(m) /\ b(k) \in Nat /\ b(m) \in Nat
    BY <1>1, <1>3, <1>4, <2>1, <2>2
  <2> HIDE DEF b
  <2> QED BY ONLY <2>3
<1>6. \E i \in j .. n : /\ \A m \in j .. n : b(i) <= b(m)
                        /\ \A m \in j .. i - 1 : b(i) < b(m)
  BY <1>4, <1>5
<1>7. S!Least(t, j) = CHOOSE i \in j .. n : /\ \A m \in j .. n : b(i) <= b(m)
                                            /\ \A m \in j .. i - 1 : b(i) < b(m)
  BY DEF S!Least
<1>8. S!Least(t, j) \in j .. n /\ \A m \in j .. n : b(S!Least(t, j)) <= b(m)
  BY <1>6, <1>7
<1> QED BY <1>0, <1>8

(* The arrays that selection_sort() goes through.                          *)
LEMMA SelectionTraces ==
  ASSUME burst_time \in [S!Ids -> Nat], NEW t \in Arrays
  PROVE  \E r \in [0 .. n - 1 -> Arrays] :
            /\ r[0] = t /\ r[n - 1] = S!selection_sort(t)
            /\ \A j \in 1 .. n - 1 : j - 1 \in 0 .. n - 1 /\ r[j] = S!Select(r[j - 1], j)
<1> DEFINE m == n - 1
           qq == [j \in 1 .. n - 1 |-> j]
           F == [j \in 1 .. m |-> [u \in Arrays |-> S!Select(u, j)]]
           Is(it) == it = [s \in SUBSET (DOMAIN qq) |-> IF s = {} THEN t
                             ELSE S!Select(it[s \ {Top(s)}], qq[Top(s)])]
           h == CHOOSE it : Is(it)
<1>0. m \in Nat /\ DOMAIN qq = 1 .. m /\ (\A j \in 1 .. m : qq[j] = j) /\ 1 .. m \subseteq S!Ids
  <2>1. m \in Nat /\ S!Ids = 1 .. n /\ n \in Nat
    BY SchedulersIds, SchedulersConstants
  <2>2. 1 .. n - 1 \subseteq 1 .. n
    BY <2>1
  <2> QED BY <2>1, <2>2
<1>1. S!selection_sort(t) = h[DOMAIN qq]
  BY DEF S!selection_sort, S!FoldLeft, S!MapThenFoldSet, S!Max, Top
<1>2. F \in [1 .. m -> [Arrays -> Arrays]]
  <2>1. ASSUME NEW j \in 1 .. m, NEW u \in Arrays PROVE S!Select(u, j) \in Arrays
    <3>1. j \in S!Ids /\ S!Least(u, j) \in S!Ids
      BY <1>0, LeastExists
    <3> QED BY <3>1, ExchangedArrays DEF S!Select
  <2> QED BY <2>1
<1>3. \A j \in 1 .. m : \A u \in Arrays : F[j][u] = S!Select(u, j)
  OBVIOUS
<1> HIDE DEF F, m, qq
<1>a. FoldIn(m, Arrays, t, F)
  BY <1>0, <1>2 DEF FoldIn
<1>4. PICK g : FoldValues(g, m, Arrays, t, F)
  BY <1>a, FoldSteps
<1>5. ASSUME NEW s \in SUBSET (1 .. m)
      PROVE  g[s] = IF s = {} THEN t ELSE S!Select(g[s \ {Top(s)}], qq[Top(s)])
  <2>1. CASE s = {}
    BY <1>4, <2>1 DEF FoldValues
  <2>2. CASE s # {}
    <3>1. Top(s) \in 1 .. m /\ s \ {Top(s)} \in SUBSET (1 .. m)
      BY <1>0, <2>2, TopOf
    <3>2. g[s] = F[Top(s)][g[s \ {Top(s)}]] /\ g[s \ {Top(s)}] \in Arrays /\ qq[Top(s)] = Top(s)
      BY <1>0, <1>4, <2>2, <3>1 DEF FoldValues
    <3> QED BY <1>3, <2>2, <3>1, <3>2
  <2> QED BY <2>1, <2>2
<1>6. Is(g)
  BY <1>0, <1>4, <1>5 DEF FoldValues
<1>7. Is(h)
  <2> HIDE DEF Is
  <2> QED BY <1>6
<1> HIDE DEF h
<1>8. \A s \in SUBSET (1 .. m) : h[s] = IF s = {} THEN t ELSE S!Select(h[s \ {Top(s)}], qq[Top(s)])
  BY <1>0, <1>7
<1> HIDE DEF Is
<1>9. ASSUME NEW s \in SUBSET (1 .. m)
      PROVE  h[s] = IF s = {} THEN t
                    ELSE IF h[s \ {Top(s)}] \in Arrays THEN F[Top(s)][h[s \ {Top(s)}]] ELSE h[s]
  <2>1. CASE s = {}
    BY <1>8, <2>1
  <2>2. CASE s # {}
    <3>1. Top(s) \in 1 .. m /\ h[s] = S!Select(h[s \ {Top(s)}], Top(s))
      BY <1>0, <1>8, <2>2, TopOf
    <3> QED BY <1>3, <2>2, <3>1
  <2> QED BY <2>1, <2>2
<1>10. PICK r : Trace(r, m, Arrays, F) /\ r[0] = t /\ r[m] = h[1 .. m]
  <2>1. Folded(h, m, Arrays, t, F)
    BY <1>9 DEF Folded
  <2> QED BY <1>a, <2>1, FoldTraces
<1>11. \A j \in 1 .. m : j - 1 \in 0 .. m /\ r[j] = S!Select(r[j - 1], j)
  BY <1>3, <1>10 DEF Trace
<1>12. r \in [0 .. m -> Arrays] /\ r[0] = t /\ r[m] = S!selection_sort(t)
  BY <1>0, <1>1, <1>10 DEF Trace
<1> QED BY <1>11, <1>12 DEF m

(* selection_sort() returns an array of all processes, by their bursts.    *)
LEMMA SelectionSorts ==
  ASSUME burst_time \in [S!Ids -> Nat], NEW t \in Arrays
  PROVE  /\ S!selection_sort(t) \in Arrays
         /\ \A i, k \in S!Ids : i <= k =>
              burst_time[S!selection_sort(t)[i]] <= burst_time[S!selection_sort(t)[k]]
<1>0. n - 1 \in Nat /\ n \in Nat /\ S!Ids = 1 .. n
  BY SchedulersIds, SchedulersConstants
<1>1. PICK r \in [0 .. n - 1 -> Arrays] :
         /\ r[0] = t /\ r[n - 1] = S!selection_sort(t)
         /\ \A j \in 1 .. n - 1 : j - 1 \in 0 .. n - 1 /\ r[j] = S!Select(r[j - 1], j)
  BY SelectionTraces
<1> DEFINE b(u, i) == burst_time[u[i]]
           Done(j) == \A i \in 1 .. j : \A k \in 1 .. n : i <= k => b(r[j], i) <= b(r[j], k)
           bad == {j \in 0 .. n - 1 : ~Done(j)}
<1>2. Done(0)
  OBVIOUS
<1>3. ASSUME NEW j \in 1 .. n - 1, Done(j - 1) PROVE Done(j)
  <2> DEFINE u == r[j - 1]
             x == S!Least(u, j)
             v == r[j]
  <2>1. j \in S!Ids /\ j \in Nat /\ u \in Arrays
    BY <1>0, <1>1
  <2>2. v = S!Exchanged(u, j, x)
    BY <1>1 DEF S!Select
  <2> HIDE DEF u, v
  <2>3. x \in S!Ids /\ x \in j .. n /\ \A m \in j .. n : b(u, x) <= b(u, m)
    BY <2>1, LeastExists
  <2> HIDE DEF x
  <2>4. v[j] = u[x] /\ v[x] = u[j] /\ \A i \in S!Ids : i # j /\ i # x => v[i] = u[i]
    <3> DEFINE w == S!Exchanged(u, j, x)
    <3>1. w[j] = u[x] /\ w[x] = u[j] /\ \A i \in S!Ids : i # j /\ i # x => w[i] = u[i]
      BY <2>1, <2>3, ExchangedArrays
    <3> HIDE DEF w
    <3>2. v = w
      BY <2>2 DEF w
    <3> QED BY <3>1, <3>2
  <2>5. ASSUME NEW k \in j .. n PROVE \E m \in j .. n : v[k] = u[m]
    <3>1. k \in S!Ids /\ j \in j .. n
      BY <1>0, <2>1
    <3> QED BY <2>3, <2>4, <3>1
  <2>6. ASSUME NEW i \in 1 .. j - 1 PROVE v[i] = u[i]
    <3>1. i \in S!Ids /\ i # j /\ i # x
      BY <1>0, <2>1, <2>3
    <3> QED BY <2>4, <3>1
  <2>7. ASSUME NEW i \in 1 .. j, NEW k \in 1 .. n, i <= k PROVE b(v, i) <= b(v, k)
    <3>1. CASE i = j
      <4>1. k \in j .. n
        BY <2>1, <2>7, <3>1
      <4> QED BY <2>3, <2>4, <2>5, <3>1, <4>1
    <3>2. CASE i # j
      <4>1. i \in 1 .. j - 1 /\ (k \in 1 .. j - 1 \/ k \in j .. n)
        BY <2>1, <2>7, <3>2
      <4>2. \A m \in 1 .. n : i <= m => b(u, i) <= b(u, m)
        BY <1>3, <4>1 DEF u
      <4>3. CASE k \in 1 .. j - 1
        BY <2>6, <2>7, <4>1, <4>2, <4>3
      <4>4. CASE k \in j .. n
        <5>1. PICK m \in j .. n : v[k] = u[m]
          BY <2>5, <4>4
        <5>2. m \in 1 .. n /\ i <= m
          BY <1>0, <2>1, <4>1
        <5> QED BY <2>6, <4>1, <4>2, <5>1, <5>2
      <4> QED BY <4>1, <4>3, <4>4
    <3> QED BY <3>1, <3>2
  <2> QED BY <2>7 DEF v
<1> HIDE DEF Done
<1>4. ASSUME bad # {} PROVE FALSE
  <2>1. PICK j \in bad : \A i \in bad : j <= i
    <3>1. bad \subseteq Nat
      OBVIOUS
    <3> HIDE DEF bad
    <3> QED BY <1>4, <3>1, SmallestOf
  <2>2. j \in 1 .. n - 1 /\ j - 1 \in 0 .. n - 1 /\ ~(j <= j - 1)
    BY <1>0, <1>2, <2>1
  <2> QED BY <1>3, <2>1, <2>2
<1>5. Done(n - 1)
  BY <1>0, <1>4
<1> DEFINE v == r[n - 1]
<1>6. v = S!selection_sort(t) /\ v \in Arrays
  BY <1>0, <1>1
<1>7. ASSUME NEW i \in S!Ids, NEW k \in S!Ids, i <= k PROVE b(v, i) <= b(v, k)
  <2>1. CASE i \in 1 .. n - 1
    BY <1>0, <1>5, <1>7, <2>1 DEF Done
  <2>2. CASE i \notin 1 .. n - 1
    <3>1. i = k
      BY <1>0, <1>7, <2>2
    <3>2. b(v, i) \in Nat
      BY <1>6 DEF Arrays
    <3> QED BY <3>1, <3>2
  <2> QED BY <2>1, <2>2
<1> HIDE DEF v
<1> QED BY <1>6, <1>7

(* The arrays that exchange_sort() goes through, in the inner loop and in   *)
(* the outer one.                                                           *)
SettleTrace(r, t, key, j) ==
  /\ n - j \in Nat /\ r \in [0 .. n - j -> Arrays] /\ r[0] = t /\ S!Settle(t, key, j) = r[n - j]
  /\ \A k \in 1 .. n - j : k - 1 \in 0 .. n - j /\ r[k] = S!Compare(r[k - 1], key, j, j + k)

(* The arrays after each round of the outer loop.                          *)
ExchangeTrace(r, t, key) ==
  /\ r \in [0 .. n - 1 -> Arrays] /\ r[0] = t /\ S!exchange_sort(t, key) = r[n - 1]
  /\ \A k \in 1 .. n - 1 : k - 1 \in 0 .. n - 1 /\ r[k] = S!Settle(r[k - 1], key, k)

(* The inner loop goes through such arrays.                                *)
LEMMA SettleTraces ==
  ASSUME NEW t \in Arrays, NEW key, NEW j \in 1 .. n - 1
  PROVE  \E r : SettleTrace(r, t, key, j)
<1> DEFINE m == n - j
           qq == [k \in 1 .. n - j |-> j + k]
           F == [k \in 1 .. m |-> [u \in Arrays |-> S!Compare(u, key, j, j + k)]]
           Is(it) == it = [s \in SUBSET (DOMAIN qq) |-> IF s = {} THEN t
                             ELSE S!Compare(it[s \ {Top(s)}], key, j, qq[Top(s)])]
           h == CHOOSE it : Is(it)
<1>0. m \in Nat /\ DOMAIN qq = 1 .. m /\ (\A k \in 1 .. m : qq[k] = j + k) /\ (\A k \in 1 .. m : j + k \in S!Ids) /\ j \in S!Ids
  <2>1. n \in Nat /\ S!Ids = 1 .. n /\ j \in Nat /\ 1 <= j /\ j <= n - 1
    BY SchedulersIds, SchedulersConstants
  <2>2. m \in Nat /\ j \in 1 .. n /\ \A k \in 1 .. m : j + k \in 1 .. n
    BY <2>1
  <2> QED BY <2>1, <2>2
<1>1. S!Settle(t, key, j) = h[DOMAIN qq]
  BY DEF S!Settle, S!FoldLeft, S!MapThenFoldSet, S!Max, Top
<1>2. F \in [1 .. m -> [Arrays -> Arrays]]
  <2>1. ASSUME NEW k \in 1 .. m, NEW u \in Arrays PROVE S!Compare(u, key, j, j + k) \in Arrays
    <3>1. j \in S!Ids /\ j + k \in S!Ids
      BY <1>0
    <3> QED BY <3>1, ExchangedArrays DEF S!Compare
  <2> QED BY <2>1
<1>3. \A k \in 1 .. m : \A u \in Arrays : F[k][u] = S!Compare(u, key, j, j + k)
  OBVIOUS
<1> HIDE DEF F, m, qq
<1>a. FoldIn(m, Arrays, t, F)
  BY <1>0, <1>2 DEF FoldIn
<1>4. PICK g : FoldValues(g, m, Arrays, t, F)
  BY <1>a, FoldSteps
<1>5. ASSUME NEW s \in SUBSET (1 .. m)
      PROVE  g[s] = IF s = {} THEN t ELSE S!Compare(g[s \ {Top(s)}], key, j, qq[Top(s)])
  <2>1. CASE s = {}
    BY <1>4, <2>1 DEF FoldValues
  <2>2. CASE s # {}
    <3>1. Top(s) \in 1 .. m /\ s \ {Top(s)} \in SUBSET (1 .. m)
      BY <1>0, <2>2, TopOf
    <3>2. g[s] = F[Top(s)][g[s \ {Top(s)}]] /\ g[s \ {Top(s)}] \in Arrays /\ qq[Top(s)] = j + Top(s)
      BY <1>0, <1>4, <2>2, <3>1 DEF FoldValues
    <3> QED BY <1>3, <2>2, <3>1, <3>2
  <2> QED BY <2>1, <2>2
<1>6. Is(g)
  BY <1>0, <1>4, <1>5 DEF FoldValues
<1>7. Is(h)
  <2> HIDE DEF Is
  <2> QED BY <1>6
<1> HIDE DEF h
<1>8. \A s \in SUBSET (1 .. m) : h[s] = IF s = {} THEN t ELSE S!Compare(h[s \ {Top(s)}], key, j, qq[Top(s)])
  BY <1>0, <1>7
<1> HIDE DEF Is
<1>9. Folded(h, m, Arrays, t, F)
  <2>1. ASSUME NEW s \in SUBSET (1 .. m)
        PROVE  h[s] = IF s = {} THEN t
                      ELSE IF h[s \ {Top(s)}] \in Arrays THEN F[Top(s)][h[s \ {Top(s)}]] ELSE h[s]
    <3>1. CASE s = {}
      BY <1>8, <3>1
    <3>2. CASE s # {}
      <4>1. Top(s) \in 1 .. m /\ h[s] = S!Compare(h[s \ {Top(s)}], key, j, j + Top(s))
        BY <1>0, <1>8, <3>2, TopOf
      <4> QED BY <1>3, <3>2, <4>1
    <3> QED BY <3>1, <3>2
  <2> QED BY <2>1 DEF Folded
<1>10. PICK r : Trace(r, m, Arrays, F) /\ r[0] = t /\ r[m] = h[1 .. m]
  BY <1>a, <1>9, FoldTraces
<1>11. r \in [0 .. m -> Arrays] /\ \A k \in 1 .. m : k - 1 \in 0 .. m /\ r[k] = F[k][r[k - 1]]
  BY <1>10 DEF Trace
<1>12. ASSUME NEW k \in 1 .. m PROVE k - 1 \in 0 .. m /\ r[k] = S!Compare(r[k - 1], key, j, j + k)
  <2>1. k - 1 \in 0 .. m /\ r[k] = F[k][r[k - 1]] /\ r[k - 1] \in Arrays
    BY <1>11
  <2> QED BY <1>3, <2>1
<1>13. S!Settle(t, key, j) = r[m]
  BY <1>0, <1>1, <1>10
<1>14. SettleTrace(r, t, key, j)
  BY <1>0, <1>10, <1>11, <1>12, <1>13 DEF m, SettleTrace
<1> QED BY <1>14

(* After the inner loop the entry at j is no larger than those behind it.  *)
LEMMA Settles ==
  ASSUME NEW t \in Arrays, NEW key \in [S!Ids -> Int], NEW j \in 1 .. n - 1
  PROVE  /\ S!Settle(t, key, j) \in Arrays
         /\ \A i \in 1 .. j - 1 : S!Settle(t, key, j)[i] = t[i]
         /\ \A i \in j .. n : key[S!Settle(t, key, j)[j]] <= key[S!Settle(t, key, j)[i]]
<1>a. PICK r : SettleTrace(r, t, key, j)
  BY SettleTraces
<1>1. /\ n - j \in Nat /\ r \in [0 .. n - j -> Arrays] /\ r[0] = t /\ S!Settle(t, key, j) = r[n - j]
      /\ \A k \in 1 .. n - j : k - 1 \in 0 .. n - j /\ r[k] = S!Compare(r[k - 1], key, j, j + k)
  BY <1>a DEF SettleTrace
<1>0. n \in Nat /\ S!Ids = 1 .. n /\ j \in Nat /\ 1 <= j /\ j <= n - 1 /\ j \in S!Ids
  BY SchedulersIds, SchedulersConstants
<1> DEFINE Good(k) == /\ \A i \in 1 .. j - 1 : r[k][i] = t[i]
                      /\ \A i \in j .. j + k : key[r[k][j]] <= key[r[k][i]]
           bad == {k \in 0 .. n - j : ~Good(k)}
<1>2. ASSUME bad # {} PROVE FALSE
  <2>1. PICK k \in bad : \A i \in bad : k <= i
    <3>1. bad \subseteq Nat
      OBVIOUS
    <3> HIDE DEF bad
    <3> QED BY <1>2, <3>1, SmallestOf
  <2>2. k \in 0 .. n - j /\ ~Good(k)
    BY <2>1
  <2>3. Good(0)
    <3>1. ASSUME NEW i \in j .. j + 0 PROVE i = j
      BY <1>0, <3>1
    <3>2. key[t[j]] \in Int
      BY <1>0 DEF Arrays
    <3> QED BY <1>1, <3>1, <3>2
  <2>4. k # 0
    BY <2>2, <2>3
  <2>5. k \in 1 .. n - j /\ k - 1 \in 0 .. n - j /\ ~(k <= k - 1) /\ k \in Nat
    BY <1>0, <2>2, <2>4
  <2>6. Good(k - 1)
    BY <2>1, <2>5
  <2> DEFINE u == r[k - 1]
             v == r[k]
             c == j + k
  <2>7. u \in Arrays /\ v = S!Compare(u, key, j, c) /\ c \in S!Ids /\ c \in Nat /\ c > j /\ v \in Arrays
    BY <1>0, <1>1, <2>2, <2>5
  <2>8. /\ \A i \in 1 .. j - 1 : u[i] = t[i] /\ i \in S!Ids /\ i # j /\ i # c
        /\ \A i \in j .. c - 1 : key[u[j]] <= key[u[i]]
        /\ \A i \in j .. c : i \in S!Ids /\ (i = c \/ i \in j .. c - 1)
    <3>1. /\ \A i \in 1 .. j - 1 : u[i] = t[i]
          /\ \A i \in j .. j + (k - 1) : key[u[j]] <= key[u[i]]
      BY <2>6
    <3>2. j + (k - 1) = c - 1 /\ c \in 1 .. n
      BY <1>0, <2>2, <2>5, <2>7
    <3>3. \A i \in 1 .. j - 1 : i \in S!Ids /\ i # j /\ i # c
      BY <1>0, <2>7
    <3>4. \A i \in j .. c : i \in S!Ids /\ (i = c \/ i \in j .. c - 1)
      BY <1>0, <2>7, <3>2
    <3> QED BY <3>1, <3>2, <3>3, <3>4
  <2>9. \A i \in S!Ids : key[u[i]] \in Int
    BY <2>7 DEF Arrays
  <2> HIDE DEF u, v, c
  <2>10. CASE key[u[j]] > key[u[c]]
    <3>1. v = S!Exchanged(u, j, c)
      BY <2>7, <2>10 DEF S!Compare
    <3>2. v[j] = u[c] /\ v[c] = u[j] /\ \A i \in S!Ids : i # j /\ i # c => v[i] = u[i]
      <4>1. u \in Arrays /\ j \in S!Ids /\ c \in S!Ids
        BY <1>0, <2>7
      <4>2. u \in [S!Ids -> S!Ids] /\ v = [u EXCEPT ![j] = u[c], ![c] = u[j]]
        BY <3>1, <4>1 DEF Arrays, S!Exchanged
      <4> QED BY ONLY <4>1, <4>2
    <3>3. \A i \in 1 .. j - 1 : v[i] = t[i]
      BY <2>8, <3>2
    <3>4. ASSUME NEW i \in j .. c PROVE key[v[j]] <= key[v[i]]
      <4>1. CASE i = j
        BY <1>0, <2>7, <2>9, <3>2, <4>1
      <4>2. CASE i = c
        <5>1. key[u[c]] \in Int /\ key[u[j]] \in Int
          BY <1>0, <2>7, <2>9
        <5> QED BY ONLY <2>10, <3>2, <4>2, <5>1
      <4>3. CASE i # j /\ i # c
        <5>1. v[i] = u[i] /\ key[u[j]] <= key[u[i]] /\ key[u[i]] \in Int
          BY <2>8, <2>9, <3>2, <3>4, <4>3
        <5>2. key[u[c]] \in Int /\ key[u[j]] \in Int
          BY <1>0, <2>7, <2>9
        <5>3. key[u[c]] <= key[u[i]]
          BY ONLY <2>10, <5>1, <5>2
        <5> QED BY <3>2, <5>1, <5>3
      <4> QED BY <4>1, <4>2, <4>3
    <3> QED BY <2>2, <3>3, <3>4 DEF v, c
  <2>11. CASE ~(key[u[j]] > key[u[c]])
    <3>1. v = u
      BY <2>7, <2>11 DEF S!Compare
    <3>2. key[u[j]] <= key[u[c]]
      <4>1. key[u[c]] \in Int /\ key[u[j]] \in Int
        BY <1>0, <2>7, <2>9
      <4> QED BY ONLY <2>11, <4>1
    <3>3. \A i \in j .. c : key[v[j]] <= key[v[i]]
      BY <2>8, <3>1, <3>2
    <3> QED BY <2>2, <2>8, <3>1, <3>3 DEF v, c
  <2> QED BY <2>10, <2>11
<1>3. Good(n - j) /\ j + (n - j) = n
  <2>1. n - j \in 0 .. n - j /\ j + (n - j) = n
    BY ONLY <1>0, <1>1
  <2> HIDE DEF Good
  <2> QED BY <1>2, <2>1
<1> QED BY <1>1, <1>3

(* The outer loop goes through such arrays.                                *)
LEMMA ExchangeTraces ==
  ASSUME NEW t \in Arrays, NEW key \in [S!Ids -> Int]
  PROVE  \E r : ExchangeTrace(r, t, key)
<1> DEFINE m == n - 1
           qq == [k \in 1 .. n - 1 |-> k]
           F == [k \in 1 .. m |-> [u \in Arrays |-> S!Settle(u, key, k)]]
           Is(it) == it = [s \in SUBSET (DOMAIN qq) |-> IF s = {} THEN t
                             ELSE S!Settle(it[s \ {Top(s)}], key, qq[Top(s)])]
           h == CHOOSE it : Is(it)
<1>0. m \in Nat /\ DOMAIN qq = 1 .. m /\ (\A k \in 1 .. m : qq[k] = k)
  BY SchedulersIds
<1>1. S!exchange_sort(t, key) = h[DOMAIN qq]
  BY DEF S!exchange_sort, S!FoldLeft, S!MapThenFoldSet, S!Max, Top
<1>2. F \in [1 .. m -> [Arrays -> Arrays]]
  <2>1. ASSUME NEW k \in 1 .. m, NEW u \in Arrays PROVE S!Settle(u, key, k) \in Arrays
    BY Settles
  <2> QED BY <2>1
<1>3. \A k \in 1 .. m : \A u \in Arrays : F[k][u] = S!Settle(u, key, k)
  OBVIOUS
<1> HIDE DEF F, m, qq
<1>a. FoldIn(m, Arrays, t, F)
  BY <1>0, <1>2 DEF FoldIn
<1>4. PICK g : FoldValues(g, m, Arrays, t, F)
  BY <1>a, FoldSteps
<1>5. ASSUME NEW s \in SUBSET (1 .. m)
      PROVE  g[s] = IF s = {} THEN t ELSE S!Settle(g[s \ {Top(s)}], key, qq[Top(s)])
  <2>1. CASE s = {}
    BY <1>4, <2>1 DEF FoldValues
  <2>2. CASE s # {}
    <3>1. Top(s) \in 1 .. m /\ s \ {Top(s)} \in SUBSET (1 .. m)
      BY <1>0, <2>2, TopOf
    <3>2. g[s] = F[Top(s)][g[s \ {Top(s)}]] /\ g[s \ {Top(s)}] \in Arrays /\ qq[Top(s)] = Top(s)
      BY <1>0, <1>4, <2>2, <3>1 DEF FoldValues
    <3> QED BY <1>3, <2>2, <3>1, <3>2
  <2> QED BY <2>1, <2>2
<1>6. Is(g)
  BY <1>0, <1>4, <1>5 DEF FoldValues
<1>7. Is(h)
  <2> HIDE DEF Is
  <2> QED BY <1>6
<1> HIDE DEF h
<1>8. \A s \in SUBSET (1 .. m) : h[s] = IF s = {} THEN t ELSE S!Settle(h[s \ {Top(s)}], key, qq[Top(s)])
  BY <1>0, <1>7
<1> HIDE DEF Is
<1>9. Folded(h, m, Arrays, t, F)
  <2>1. ASSUME NEW s \in SUBSET (1 .. m)
        PROVE  h[s] = IF s = {} THEN t
                      ELSE IF h[s \ {Top(s)}] \in Arrays THEN F[Top(s)][h[s \ {Top(s)}]] ELSE h[s]
    <3>1. CASE s = {}
      BY <1>8, <3>1
    <3>2. CASE s # {}
      <4>1. Top(s) \in 1 .. m /\ h[s] = S!Settle(h[s \ {Top(s)}], key, Top(s))
        BY <1>0, <1>8, <3>2, TopOf
      <4> QED BY <1>3, <3>2, <4>1
    <3> QED BY <3>1, <3>2
  <2> QED BY <2>1 DEF Folded
<1>10. PICK r : Trace(r, m, Arrays, F) /\ r[0] = t /\ r[m] = h[1 .. m]
  BY <1>a, <1>9, FoldTraces
<1>11. r \in [0 .. m -> Arrays] /\ \A k \in 1 .. m : k - 1 \in 0 .. m /\ r[k] = F[k][r[k - 1]]
  BY <1>10 DEF Trace
<1>12. ASSUME NEW k \in 1 .. m PROVE k - 1 \in 0 .. m /\ r[k] = S!Settle(r[k - 1], key, k)
  <2>1. k - 1 \in 0 .. m /\ r[k] = F[k][r[k - 1]] /\ r[k - 1] \in Arrays
    BY <1>11
  <2> QED BY <1>3, <2>1
<1>13. S!exchange_sort(t, key) = r[m]
  BY <1>0, <1>1, <1>10
<1>14. ExchangeTrace(r, t, key)
  BY <1>10, <1>11, <1>12, <1>13 DEF m, ExchangeTrace
<1> QED BY <1>14

(* exchange_sort() moves a smallest key to the front. *)
LEMMA ExchangeSorts ==
  ASSUME NEW t \in Arrays, NEW key \in [S!Ids -> Int]
  PROVE  /\ S!exchange_sort(t, key) \in Arrays
         /\ \A p \in S!Ids : key[S!exchange_sort(t, key)[1]] <= key[p]
<1>a. PICK r : ExchangeTrace(r, t, key)
  BY ExchangeTraces
<1>1. /\ r \in [0 .. n - 1 -> Arrays] /\ r[0] = t /\ S!exchange_sort(t, key) = r[n - 1]
      /\ \A k \in 1 .. n - 1 : k - 1 \in 0 .. n - 1 /\ r[k] = S!Settle(r[k - 1], key, k)
  BY <1>a DEF ExchangeTrace
<1>0. n \in Nat \ {0} /\ S!Ids = 1 .. n /\ n - 1 \in 0 .. n - 1 /\ n - 1 \in Nat /\ 1 \in S!Ids
  BY SchedulersIds, SchedulersConstants
<1> DEFINE Good(k) == \A p \in S!Ids : key[r[k][1]] <= key[p]
           bad == {k \in 1 .. n - 1 : ~Good(k)}
<1>2. ASSUME bad # {} PROVE FALSE
  <2>1. PICK k \in bad : \A i \in bad : k <= i
    <3>1. bad \subseteq Nat
      OBVIOUS
    <3> HIDE DEF bad
    <3> QED BY <1>2, <3>1, SmallestOf
  <2>2. k \in 1 .. n - 1 /\ k \in Nat /\ ~Good(k)
    BY <2>1
  <2> DEFINE u == r[k - 1]
             v == r[k]
  <2>3. u \in Arrays /\ v = S!Settle(u, key, k)
    BY <1>1, <2>2
  <2> HIDE DEF u, v
  <2>4. /\ v \in Arrays
        /\ \A i \in 1 .. k - 1 : v[i] = u[i]
        /\ \A i \in k .. n : key[v[k]] <= key[v[i]]
    BY <2>2, <2>3, Settles
  <2>5. CASE k = 1
    <3>1. ASSUME NEW p \in S!Ids PROVE key[v[1]] <= key[p]
      <4>1. PICK i \in S!Ids : v[i] = p
        BY <2>4 DEF Arrays
      <4> QED BY <1>0, <2>4, <2>5, <4>1
    <3> QED BY <2>2, <3>1 DEF v
  <2>6. CASE k # 1
    <3>1. k - 1 \in 1 .. n - 1 /\ ~(k <= k - 1) /\ 1 \in 1 .. k - 1
      BY <1>0, <2>2, <2>6
    <3>2. Good(k - 1)
      BY <2>1, <3>1
    <3>3. v[1] = u[1]
      BY <2>4, <3>1
    <3> QED BY <2>2, <3>2, <3>3 DEF u, v
  <2> QED BY <2>5, <2>6
<1>3. r[n - 1] \in Arrays
  BY <1>0, <1>1
<1>4. CASE n = 1
  <2>1. r[n - 1] = t /\ S!Ids = {1} /\ t[1] \in S!Ids
    BY <1>0, <1>1, <1>4 DEF Arrays
  <2>2. t[1] = 1 /\ key[1] \in Int
    BY <2>1
  <2> QED BY <1>1, <1>3, <2>1, <2>2
<1>5. CASE n # 1
  <2>1. n - 1 \in 1 .. n - 1
    BY <1>0, <1>5
  <2>2. Good(n - 1)
    BY <1>2, <2>1
  <2> QED BY <1>1, <1>3, <2>2
<1> QED BY <1>4, <1>5

-----------------------------------------------------------------------------
(***************************************************************************)
(* The schedulers with one queue: who runs, and the types.                 *)
(***************************************************************************)
(* A finite set has a member with the lowest key.                          *)
LEMMA FiniteBest ==
  ASSUME NEW T, IsFiniteSet(T), T # {}, NEW key, \A p \in T : key[p] \in Int
  PROVE  \E p \in T : \A r \in T : key[p] <= key[r]
<1> DEFINE HasBest(U) == \E p \in U : \A r \in U : key[p] <= key[r]
           bad == {c \in Nat : \E U \in SUBSET T : U # {} /\ IsFiniteSet(U) /\ Cardinality(U) = c /\ ~HasBest(U)}
<1>1. ASSUME bad # {} PROVE FALSE
  <2>1. PICK c \in bad : \A d \in bad : c <= d
    <3>1. bad \subseteq Nat
      OBVIOUS
    <3> HIDE DEF bad
    <3> QED BY <1>1, <3>1, SmallestOf
  <2>2. PICK U \in SUBSET T : U # {} /\ IsFiniteSet(U) /\ Cardinality(U) = c /\ ~HasBest(U)
    BY <2>1
  <2>3. PICK x \in U : TRUE
    BY <2>2
  <2> DEFINE V == U \ {x}
  <2>4. IsFiniteSet(V) /\ Cardinality(V) = c - 1 /\ Cardinality(V) \in Nat /\ V \in SUBSET T
    <3>1. IsFiniteSet(V) /\ Cardinality(V) = Cardinality(U) - 1
      BY <2>2, FS_RemoveElement
    <3> QED BY <2>2, <3>1, FS_CardinalityType
  <2>5. CASE V = {}
    <3>1. U = {x} /\ key[x] \in Int
      BY <2>2, <2>5
    <3> QED BY <2>2, <3>1
  <2>6. CASE V # {}
    <3>1. HasBest(V)
      <4>1. c - 1 \in Nat /\ ~(c <= c - 1)
        BY <2>1, <2>4
      <4> HIDE DEF V, HasBest
      <4> QED BY <2>1, <2>4, <2>6, <4>1
    <3>2. PICK p \in V : \A r \in V : key[p] <= key[r]
      BY <3>1
    <3>3. key[p] \in Int /\ key[x] \in Int /\ p \in U /\ \A r \in U : r = x \/ r \in V
      BY <2>2
    <3>4. CASE key[p] <= key[x]
      BY <2>2, <3>2, <3>3, <3>4
    <3>5. CASE key[x] <= key[p]
      <4>1. ASSUME NEW r \in U PROVE key[x] <= key[r]
        <5>1. CASE r = x
          BY <3>3, <5>1
        <5>2. CASE r # x
          <6>1. key[p] <= key[r] /\ key[r] \in Int
            BY <2>2, <3>2, <3>3, <5>2
          <6> QED BY ONLY <3>3, <3>5, <6>1
        <5> QED BY <5>1, <5>2
      <4> QED BY <2>2, <4>1
    <3> QED BY <3>3, <3>4, <3>5
  <2> QED BY <2>5, <2>6
<1>2. Cardinality(T) \in Nat
  BY FS_CardinalityType
<1> QED BY <1>1, <1>2

(* The first in the array of a set of processes. *)
LEMMA FirstIn ==
  ASSUME processes \in Arrays, NEW T, T \subseteq S!Ids, T # {}
  PROVE  \E k \in S!Ids : processes[k] \in T /\ \A m \in 1 .. k - 1 : processes[m] \notin T
<1> DEFINE at == {k \in S!Ids : processes[k] \in T}
<1>1. PICK k \in at : \A m \in at : k <= m
  <2>1. PICK p \in T : TRUE
    OBVIOUS
  <2>2. \E k \in S!Ids : processes[k] = p
    BY DEF Arrays
  <2>3. at # {} /\ at \subseteq Nat
    BY <2>2, SchedulersIds
  <2> HIDE DEF at
  <2> QED BY <2>3, SmallestOf
<1>2. ASSUME NEW m \in 1 .. k - 1 PROVE processes[m] \notin T
  <2>1. k \in 1 .. n /\ n \in Nat /\ S!Ids = 1 .. n
    BY SchedulersIds, SchedulersConstants
  <2>2. m \in 1 .. n /\ ~(k <= m)
    BY <2>1
  <2> QED BY <1>1, <2>1, <2>2
<1> QED BY <1>1, <1>2

(* FirstBest returns a member of the set it is given, with the lowest key. *)
LEMMA FirstBestIn ==
  ASSUME processes \in Arrays, NEW T, T \subseteq S!Ids, T # {}, NEW key, \A p \in T : key[p] \in Int
  PROVE  S!FirstBest(T, key) \in T /\ \A r \in T : key[S!FirstBest(T, key)] <= key[r]
<1> DEFINE Best == {p \in T : \A r \in T : key[p] <= key[r]}
<1>1. IsFiniteSet(T)
  BY SchedulersIds, FS_Subset
<1>2. Best # {} /\ Best \subseteq S!Ids
  BY <1>1, FiniteBest
<1>3. S!FirstBest(T, key) = processes[CHOOSE k \in S!Ids : processes[k] \in Best /\ \A m \in 1 .. k - 1 : processes[m] \notin Best]
  BY DEF S!FirstBest
<1>4. \A p \in Best : p \in T /\ \A r \in T : key[p] <= key[r]
  OBVIOUS
<1> HIDE DEF Best
<1>5. \E k \in S!Ids : processes[k] \in Best /\ \A m \in 1 .. k - 1 : processes[m] \notin Best
  BY <1>2, FirstIn
<1> QED BY <1>3, <1>4, <1>5

(* FirstUnfinished returns a process that is not completed.                *)
LEMMA FirstUnfinishedIn ==
  ASSUME processes \in Arrays, completed \subseteq S!Ids, completed # S!Ids
  PROVE  S!FirstUnfinished \in S!Ids /\ S!FirstUnfinished \notin completed
<1> DEFINE T == S!Ids \ completed
<1>1. PICK k \in S!Ids : processes[k] \in T /\ \A m \in 1 .. k - 1 : processes[m] \notin T
  <2>1. T \subseteq S!Ids /\ T # {}
    OBVIOUS
  <2> HIDE DEF T
  <2> QED BY <2>1, FirstIn
<1>2. \A m \in 1 .. k - 1 : processes[m] \in S!Ids
  <2>1. k \in 1 .. n /\ n \in Nat /\ S!Ids = 1 .. n
    BY SchedulersIds, SchedulersConstants
  <2>2. \A m \in 1 .. k - 1 : m \in S!Ids
    BY <2>1
  <2> QED BY <2>2 DEF Arrays
<1>3. \E i \in S!Ids : processes[i] \notin completed /\ \A m \in 1 .. i - 1 : processes[m] \in completed
  BY <1>1, <1>2
<1>4. S!FirstUnfinished = processes[CHOOSE i \in S!Ids : processes[i] \notin completed /\ \A m \in 1 .. i - 1 : processes[m] \in completed]
  BY DEF S!FirstUnfinished
<1>5. \E i \in S!Ids : S!FirstUnfinished = processes[i] /\ processes[i] \notin completed
  BY <1>3, <1>4
<1> QED BY <1>5 DEF Arrays

(* The types of the simulators' variables, as the proofs use them.         *)
LEMMA SchedulerTimes ==
  ASSUME S!TypeOK
  PROVE  /\ processes \in Arrays
         /\ S!time \in Nat /\ S!time = Len(chart) /\ chart \in Seq(S!Ids \union {0})
         /\ completed \subseteq S!Ids /\ IsFiniteSet(completed) /\ Cardinality(completed) \in Nat
         /\ \A p \in S!Ids : /\ burst_time[p] \in Nat /\ arrival_time[p] \in Nat /\ remaining[p] \in Nat
                             /\ remaining[p] <= burst_time[p] /\ waiting_time[p] \in Int
         /\ burst_time \in [S!Ids -> Nat] /\ arrival_time \in [S!Ids -> Nat] /\ remaining \in [S!Ids -> Nat]
<1>1. processes \in Arrays
  BY DEF S!TypeOK, Arrays
<1>2. S!time \in Nat /\ S!time = Len(chart) /\ chart \in Seq(S!Ids \union {0})
  BY DEF S!TypeOK, S!time
<1>3. completed \subseteq S!Ids /\ IsFiniteSet(completed) /\ Cardinality(completed) \in Nat
  <2>1. completed \subseteq S!Ids
    BY DEF S!TypeOK
  <2>2. IsFiniteSet(completed)
    BY <2>1, SchedulersIds, FS_Subset
  <2> QED BY <2>1, <2>2, FS_CardinalityType
<1>4. burst_time \in [S!Ids -> Nat] /\ arrival_time \in [S!Ids -> Nat] /\ remaining \in [S!Ids -> Nat]
  <2>1. Bursts \subseteq Nat /\ Arrivals \union {0} \subseteq Nat
    BY SchedulersConstants
  <2> QED BY <2>1 DEF S!TypeOK
<1>5. \A p \in S!Ids : remaining[p] <= burst_time[p] /\ waiting_time[p] \in Int
  BY DEF S!TypeOK
<1> QED BY <1>1, <1>2, <1>3, <1>4, <1>5

(* A chart with u units more.                                              *)
LEMMA LongerCharts ==
  ASSUME NEW V, NEW c \in Seq(V), NEW p \in V, NEW u \in Nat, NEW d, d = c \o [k \in 1 .. u |-> p]
  PROVE  /\ d \in Seq(V) /\ Len(d) = Len(c) + u /\ Len(c) \in Nat
         /\ \A j \in 1 .. Len(c) : d[j] = c[j]
         /\ \A j \in Len(c) + 1 .. Len(c) + u : d[j] = p
<1> DEFINE e == [k \in 1 .. u |-> p]
<1>1. e \in Seq(V) /\ Len(e) = u /\ \A k \in 1 .. u : e[k] = p
  OBVIOUS
<1> HIDE DEF e
<1>2. c \o e \in Seq(V) /\ Len(c \o e) = Len(c) + u /\ Len(c) \in Nat /\ \A j \in 1 .. Len(c) : (c \o e)[j] = c[j]
  BY <1>1
<1>3. ASSUME NEW j \in Len(c) + 1 .. Len(c) + u PROVE (c \o e)[j] = p
  <2>1. j \in 1 .. Len(c) + Len(e) /\ ~(j <= Len(c)) /\ j - Len(c) \in 1 .. u
    BY <1>1, <1>2
  <2>2. (c \o e)[j] = e[j - Len(c)]
    BY <1>1, <2>1
  <2> QED BY <1>1, <2>1, <2>2
<1> QED BY <1>2, <1>3 DEF e

(* A turn keeps the types.                                                 *)
LEMMA RunKeepsTypes ==
  ASSUME S!TypeOK, NEW p \in S!Ids, NEW u \in Nat, NEW d, S!Run(p, u, d)
  PROVE  S!TypeOK'
<1>1. /\ chart' = chart \o [k \in 1 .. u |-> p]
      /\ remaining' = [remaining EXCEPT ![p] = IF @ > u THEN @ - u ELSE 0]
      /\ completed' = IF d THEN completed \union {p} ELSE completed
      /\ waiting_time' =
           IF d THEN [waiting_time EXCEPT ![p] = S!time + u - arrival_time[p] - burst_time[p]]
           ELSE waiting_time
      /\ policy' = policy /\ arrival_time' = arrival_time /\ burst_time' = burst_time /\ priority' = priority
      /\ processes' = processes /\ state' = state
  BY DEF S!Run, S!inputs
<1>2. /\ S!time \in Nat /\ chart \in Seq(S!Ids \union {0}) /\ completed \subseteq S!Ids
      /\ \A q \in S!Ids : burst_time[q] \in Nat /\ arrival_time[q] \in Nat /\ remaining[q] \in Nat /\ remaining[q] <= burst_time[q]
      /\ remaining \in [S!Ids -> Nat]
  BY SchedulerTimes
<1>3. chart' \in Seq(S!Ids \union {0})
  BY <1>1, <1>2, LongerCharts
<1>4. completed' \subseteq S!Ids
  BY <1>1, <1>2
<1>5. remaining' \in [S!Ids -> Nat] /\ \A q \in S!Ids : remaining'[q] <= burst_time'[q]
  <2> DEFINE x == IF remaining[p] > u THEN remaining[p] - u ELSE 0
  <2>1. x \in Nat /\ x <= burst_time[p]
    <3>1. remaining[p] \in Nat /\ remaining[p] <= burst_time[p] /\ burst_time[p] \in Nat
      BY <1>2
    <3> QED BY ONLY <3>1
  <2>2. remaining' = [remaining EXCEPT ![p] = x]
    BY <1>1
  <2> HIDE DEF x
  <2> QED BY <1>1, <1>2, <2>1, <2>2
<1>6. waiting_time' \in [S!Ids -> Int]
  <2>1. waiting_time \in [S!Ids -> Int]
    BY DEF S!TypeOK
  <2>2. S!time + u - arrival_time[p] - burst_time[p] \in Int
    BY <1>2
  <2> QED BY <1>1, <2>1, <2>2
<1> QED BY <1>1, <1>3, <1>4, <1>5, <1>6 DEF S!TypeOK

(* Who runs, in each of the programs. *)
LEMMA Turns ==
  ASSUME S!TypeOK
  PROVE  /\ S!sjf => \E p \in S!Ids : /\ p = processes[Cardinality(completed) + 1] /\ completed # S!Ids
                                      /\ Cardinality(completed) + 1 \in S!Ids
                                      /\ S!Run(p, burst_time[p], TRUE) /\ policy = "sjf"
         /\ S!srtf => \E p \in S!Arrived(S!time) :
                         /\ S!Run(p, 1, remaining[p] = 1) /\ policy = "srtf"
                         /\ \A q \in S!Arrived(S!time) : remaining[p] <= remaining[q]
         /\ S!hrrn => \E p \in S!Arrived(S!time) : S!Run(p, burst_time[p], TRUE) /\ policy = "hrrn"
         /\ S!rr => \/ \E p \in S!Ids \ completed : \E u \in Nat :
                         /\ remaining[p] > 0 /\ u > 0 /\ u <= remaining[p]
                         /\ S!Run(p, u, remaining[p] = u) /\ policy = "rr"
                    \/ UNCHANGED S!schedulerVars
<1>0. /\ processes \in Arrays /\ completed \subseteq S!Ids /\ IsFiniteSet(completed)
      /\ \A q \in S!Ids : burst_time[q] \in Nat /\ arrival_time[q] \in Nat /\ remaining[q] \in Nat
      /\ S!time \in Nat
  BY SchedulerTimes
<1>1. ASSUME S!sjf
      PROVE \E p \in S!Ids : /\ p = processes[Cardinality(completed) + 1] /\ completed # S!Ids
                             /\ Cardinality(completed) + 1 \in S!Ids
                             /\ S!Run(p, burst_time[p], TRUE) /\ policy = "sjf"
  <2>1. /\ completed # S!Ids /\ policy = "sjf"
        /\ S!Run(processes[S!Cardinality(completed) + 1], burst_time[processes[S!Cardinality(completed) + 1]], TRUE)
    BY <1>1 DEF S!sjf, S!Ready
  <2>2. Cardinality(completed) + 1 \in S!Ids
    <3>1. IsFiniteSet(S!Ids) /\ Cardinality(S!Ids) = n /\ S!Ids = 1 .. n /\ n \in Nat
      BY SchedulersIds, SchedulersConstants
    <3>2. Cardinality(completed) <= Cardinality(S!Ids) /\ Cardinality(completed) \in Nat
      BY <1>0, <3>1, FS_Subset, FS_CardinalityType
    <3>3. Cardinality(completed) # Cardinality(S!Ids)
      BY <1>0, <2>1, <3>1, FS_Subset
    <3> QED BY <3>1, <3>2, <3>3
  <2>3. processes[Cardinality(completed) + 1] \in S!Ids
    BY <1>0, <2>2 DEF Arrays
  <2>4. S!Cardinality(completed) = Cardinality(completed)
    BY SchedulersIds
  <2> QED BY <2>1, <2>2, <2>3, <2>4
<1>2. S!Arrived(S!time) \subseteq S!Ids
  BY DEF S!Arrived
<1>3. ASSUME S!srtf
      PROVE  \E p \in S!Arrived(S!time) : /\ S!Run(p, 1, remaining[p] = 1) /\ policy = "srtf"
                                          /\ \A q \in S!Arrived(S!time) : remaining[p] <= remaining[q]
  <2> DEFINE p == S!FirstBest(S!Arrived(S!time), remaining)
  <2>1. S!Arrived(S!time) # {} /\ policy = "srtf" /\ S!Run(p, 1, remaining[p] = 1)
    BY <1>3 DEF S!srtf, S!Ready
  <2>2. p \in S!Arrived(S!time) /\ \A q \in S!Arrived(S!time) : remaining[p] <= remaining[q]
    <3>1. \A q \in S!Arrived(S!time) : remaining[q] \in Int
      BY <1>0, <1>2
    <3> QED BY <1>0, <1>2, <2>1, <3>1, FirstBestIn
  <2> HIDE DEF p
  <2> QED BY <2>1, <2>2
<1>4. ASSUME S!hrrn PROVE \E p \in S!Arrived(S!time) : S!Run(p, burst_time[p], TRUE) /\ policy = "hrrn"
  <2> DEFINE key == S!Descending(S!Ratio)
             p == S!FirstBest(S!Arrived(S!time), key)
  <2>1. /\ S!Arrived(S!time) # {} /\ policy = "hrrn" /\ S!Run(p, burst_time[p], TRUE)
        /\ \A q \in S!Arrived(S!time) : burst_time[q] # 0
    BY <1>4 DEF S!hrrn, S!Ready
  <2>2. ASSUME NEW q \in S!Arrived(S!time) PROVE key[q] \in Int
    <3>1. key[q] = -((burst_time[q] + S!time - arrival_time[q]) \div burst_time[q])
      BY DEF S!Descending, S!Ratio
    <3>2. burst_time[q] \in Nat /\ burst_time[q] # 0 /\ burst_time[q] + S!time - arrival_time[q] \in Int
      BY <1>0, <1>2, <2>1
    <3> HIDE DEF key
    <3>3. (burst_time[q] + S!time - arrival_time[q]) \div burst_time[q] \in Int
      BY ONLY <3>2
    <3> QED BY <3>1, <3>3
  <2> HIDE DEF key
  <2>3. p \in S!Arrived(S!time)
    BY <1>0, <1>2, <2>1, <2>2, FirstBestIn
  <2> HIDE DEF p
  <2> QED BY <2>1, <2>3
<1>5. ASSUME S!rr, ~UNCHANGED S!schedulerVars
      PROVE  \E p \in S!Ids \ completed : \E u \in Nat :
               /\ remaining[p] > 0 /\ u > 0 /\ u <= remaining[p]
               /\ S!Run(p, u, remaining[p] = u) /\ policy = "rr"
  <2> DEFINE p == S!FirstUnfinished
             u == IF remaining[p] > quantum THEN quantum ELSE remaining[p]
  <2>1. completed # S!Ids /\ policy = "rr" /\ remaining[p] > 0 /\ S!Run(p, u, remaining[p] = u)
    BY <1>5 DEF S!rr, S!Ready
  <2>2. p \in S!Ids \ completed
    BY <1>0, <2>1, FirstUnfinishedIn
  <2>3. u \in Nat /\ u > 0 /\ u <= remaining[p]
    <3>1. remaining[p] \in Nat /\ quantum \in Nat \ {0}
      BY <1>0, <2>2, SchedulersConstants
    <3> QED BY <2>1, <3>1
  <2> HIDE DEF u, p
  <2> QED BY <2>1, <2>2, <2>3
<1> QED BY <1>1, <1>3, <1>4, <1>5

(* Every step keeps the types.                                             *)
LEMMA SchedulersKeepTypes ==
  ASSUME S!TypeOK, S!Next \/ UNCHANGED S!schedulerVars
  PROVE  S!TypeOK'
<1>1. ASSUME NEW p \in S!Ids, NEW d, S!Run(p, burst_time[p], d) PROVE S!TypeOK'
  <2>1. burst_time[p] \in Nat
    BY SchedulerTimes
  <2> QED BY <1>1, <2>1, RunKeepsTypes
<1>2. S!Arrived(S!time) \subseteq S!Ids
  BY DEF S!Arrived
<1>3. CASE UNCHANGED S!schedulerVars
  BY <1>3 DEF S!schedulerVars, S!inputs, S!TypeOK
<1>4. CASE S!sjf
  BY <1>1, <1>4, Turns
<1>5. CASE S!srtf
  <2>1. PICK p \in S!Arrived(S!time) : S!Run(p, 1, remaining[p] = 1)
    BY <1>5, Turns
  <2>2. p \in S!Ids /\ 1 \in Nat
    BY <1>2
  <2> QED BY <2>1, <2>2, RunKeepsTypes
<1>6. CASE S!hrrn
  BY <1>1, <1>2, <1>6, Turns
<1>7. CASE S!rr
  <2>1. ASSUME NEW p \in S!Ids \ completed, NEW u \in Nat, S!Run(p, u, remaining[p] = u) PROVE S!TypeOK'
    BY <2>1, RunKeepsTypes
  <2> QED BY <1>3, <1>7, <2>1, Turns
<1>8. ASSUME state' \in {"done", "crashed"}, UNCHANGED <<S!inputs, remaining, completed, waiting_time, chart>>
      PROVE  S!TypeOK'
  BY <1>8 DEF S!inputs, S!TypeOK
<1>9. CASE S!srtf_idle
  <2>1. chart' = Append(chart, 0) /\ UNCHANGED <<S!inputs, remaining, completed, waiting_time, state>>
    BY <1>9 DEF S!srtf_idle
  <2>2. chart' \in Seq(S!Ids \union {0})
    BY <2>1 DEF S!TypeOK
  <2> QED BY <2>1, <2>2 DEF S!inputs, S!TypeOK
<1>10. CASE S!hrrn_no_candidate
  BY <1>1, <1>8, <1>10 DEF S!hrrn_no_candidate, S!inputs
<1>11. CASE S!hrrn_divides_by_zero
  BY <1>8, <1>11 DEF S!hrrn_divides_by_zero, S!inputs
<1>12. CASE S!Finish
  BY <1>8, <1>12 DEF S!Finish, S!inputs
<1> QED BY <1>3, <1>4, <1>5, <1>6, <1>7, <1>9, <1>10, <1>11, <1>12 DEF S!Next

(* The array as it is read.                                                *)
LEMMA UnsortedArray == S!Unsorted \in Arrays
<1>1. \A k \in S!Ids : S!Unsorted[k] = k
  BY DEF S!Unsorted
<1>2. S!Unsorted \in [S!Ids -> S!Ids]
  BY DEF S!Unsorted
<1>3. {S!Unsorted[k] : k \in S!Ids} = S!Ids
  BY <1>1
<1> QED BY <1>2, <1>3 DEF Arrays

(* The types at the start; HRRN.c's array begins with the first to arrive. *)
LEMMA SchedulersStart ==
  ASSUME S!Init
  PROVE  /\ S!TypeOK
         /\ policy = "hrrn" => \A p \in S!Ids : arrival_time[processes[1]] <= arrival_time[p]
<1>1. /\ policy \in {"sjf", "srtf", "hrrn", "rr"}
      /\ burst_time \in [S!Ids -> IF policy = "srtf" THEN Bursts \ {0} ELSE Bursts]
      /\ arrival_time \in [S!Ids -> IF policy \in {"srtf", "hrrn"} THEN Arrivals ELSE {0}]
      /\ priority \in [S!Ids -> IF policy = "rr" THEN Priorities ELSE {0}]
      /\ processes = CASE policy = "sjf"  -> S!selection_sort(S!Unsorted)
                   [] policy = "srtf" -> S!Unsorted
                   [] policy = "hrrn" -> S!exchange_sort(S!Unsorted, arrival_time)
                   [] policy = "rr"   -> S!exchange_sort(S!Unsorted, S!Descending(priority))
      /\ remaining = burst_time /\ completed = {} /\ waiting_time = [p \in S!Ids |-> 0]
      /\ chart = (IF policy = "hrrn" THEN S!Idle(arrival_time[processes[1]]) ELSE <<>>)
      /\ state = "runs"
  BY DEF S!Init
<1>2. burst_time \in [S!Ids -> Bursts] /\ arrival_time \in [S!Ids -> Arrivals \union {0}] /\ priority \in [S!Ids -> Priorities \union {0}]
  <2>1. burst_time \in [S!Ids -> Bursts]
    BY <1>1
  <2>2. arrival_time \in [S!Ids -> Arrivals \union {0}]
    BY <1>1
  <2>3. priority \in [S!Ids -> Priorities \union {0}]
    BY <1>1
  <2> QED BY <2>1, <2>2, <2>3
<1>3. burst_time \in [S!Ids -> Nat] /\ arrival_time \in [S!Ids -> Nat] /\ arrival_time \in [S!Ids -> Int]
      /\ \A p \in S!Ids : burst_time[p] <= burst_time[p]
  <2>1. Bursts \subseteq Nat /\ Arrivals \union {0} \subseteq Nat
    BY SchedulersConstants
  <2>2. burst_time \in [S!Ids -> Nat] /\ arrival_time \in [S!Ids -> Nat]
    BY <1>2, <2>1
  <2>3. \A p \in S!Ids : burst_time[p] \in Int /\ arrival_time[p] \in Int
    BY <2>2
  <2> QED BY <2>2, <2>3
<1>4. S!Descending(priority) \in [S!Ids -> Int]
  <2>1. Priorities \union {0} \subseteq Int
    BY SchedulersConstants
  <2>2. priority \in [S!Ids -> Int]
    BY <1>2, <2>1
  <2> QED BY <2>2 DEF S!Descending
<1>5. processes \in Arrays /\ (policy = "hrrn" => \A p \in S!Ids : arrival_time[processes[1]] <= arrival_time[p])
  <2>1. CASE policy = "sjf"
    <3>1. processes = S!selection_sort(S!Unsorted)
      BY <1>1, <2>1
    <3> QED BY <1>3, <2>1, <3>1, UnsortedArray, SelectionSorts
  <2>2. CASE policy = "srtf"
    BY <1>1, <2>2, UnsortedArray
  <2>3. CASE policy = "hrrn"
    <3>1. processes = S!exchange_sort(S!Unsorted, arrival_time)
      BY <1>1, <2>3
    <3> QED BY <1>3, <3>1, UnsortedArray, ExchangeSorts
  <2>4. CASE policy = "rr"
    <3>1. processes = S!exchange_sort(S!Unsorted, S!Descending(priority))
      BY <1>1, <2>4
    <3> QED BY <1>4, <2>4, <3>1, UnsortedArray, ExchangeSorts
  <2> QED BY <1>1, <2>1, <2>2, <2>3, <2>4
<1>6. chart \in Seq(S!Ids \union {0})
  <2>1. ASSUME NEW t \in Nat PROVE S!Idle(t) \in Seq(S!Ids \union {0})
    BY DEF S!Idle
  <2>2. arrival_time[processes[1]] \in Nat
    BY <1>3, <1>5, SchedulersIds DEF Arrays
  <2>3. <<>> \in Seq(S!Ids \union {0})
    OBVIOUS
  <2> QED BY <1>1, <2>1, <2>2, <2>3
<1>7. S!TypeOK
  <2>1. waiting_time \in [S!Ids -> Int] /\ remaining \in [S!Ids -> Nat] /\ \A p \in S!Ids : remaining[p] <= burst_time[p]
    BY <1>1, <1>3
  <2>2. processes \in [S!Ids -> S!Ids] /\ {processes[k] : k \in S!Ids} = S!Ids
    BY <1>5 DEF Arrays
  <2> QED BY <1>1, <1>2, <1>6, <2>1, <2>2 DEF S!TypeOK
<1> QED BY <1>5, <1>7

-----------------------------------------------------------------------------
(***************************************************************************)
(* The schedulers with one queue: what the tables say.                     *)
(***************************************************************************)
(* Everybody has had the CPU for what is gone of the burst, and only after  *)
(* the arrival; the waiting time of who is completed goes by the last unit. *)
CountInv ==
  /\ \A p \in S!Ids : /\ Cardinality(S!Units(p)) = burst_time[p] - remaining[p]
                      /\ \A j \in S!Units(p) : j > arrival_time[p]
  /\ \A p \in completed : /\ remaining[p] = 0
                          /\ burst_time[p] > 0 =>
                               waiting_time[p] = S!LastUnit(p) - arrival_time[p] - burst_time[p]

(* The units a process had are finitely many.                              *)
LEMMA UnitsFinite ==
  ASSUME S!TypeOK, NEW p
  PROVE  IsFiniteSet(S!Units(p)) /\ Cardinality(S!Units(p)) \in Nat /\ S!Units(p) \subseteq Nat
         /\ S!Units(p) \subseteq 1 .. S!time
<1>1. S!time \in Nat /\ S!Units(p) \subseteq 1 .. S!time
  BY SchedulerTimes DEF S!Units
<1>2. IsFiniteSet(1 .. S!time)
  BY <1>1, FS_Interval
<1>3. IsFiniteSet(S!Units(p))
  BY <1>1, <1>2, FS_Subset
<1>4. S!Units(p) \subseteq Nat
  BY <1>1
<1> QED BY <1>1, <1>3, <1>4, FS_CardinalityType

(* Max returns the greatest.                                               *)
LEMMA MaxOf ==
  ASSUME NEW U, U \subseteq Nat, NEW j \in U, \A i \in U : i <= j
  PROVE  (CHOOSE x \in U : \A y \in U : x >= y) = j
<1> DEFINE c == CHOOSE x \in U : \A y \in U : x >= y
<1>1. \A i \in U : j >= i
  OBVIOUS
<1>2. c \in U /\ \A y \in U : c >= y
  BY <1>1
<1> HIDE DEF c
<1>3. c >= j /\ c <= j /\ c \in Nat /\ j \in Nat
  BY <1>2
<1>4. c = j
  BY ONLY <1>3
<1> QED BY <1>4 DEF c

(* The last unit of a process is the greatest of them.                     *)
LEMMA LastIs ==
  ASSUME NEW p, S!TypeOK, NEW j \in S!Units(p), \A i \in S!Units(p) : i <= j
  PROVE  S!LastUnit(p) = j
<1> DEFINE U == S!Units(p)
<1>1. S!LastUnit(p) = CHOOSE x \in U : \A y \in U : x >= y
  BY DEF S!LastUnit, S!Max
<1>2. U \subseteq Nat
  BY UnitsFinite
<1>3. j \in U /\ \A i \in U : i <= j
  OBVIOUS
<1> HIDE DEF U
<1> QED BY ONLY <1>1, <1>2, <1>3, MaxOf

(* p gets the CPU when it can use it. *)
ProperTurn(p, u, d) ==
  /\ S!Run(p, u, d) /\ p \in S!Ids /\ p \notin completed
  /\ u \in Nat /\ u <= remaining[p] /\ arrival_time[p] <= S!time
  /\ d => remaining[p] = u /\ (u > 0 \/ burst_time[p] = 0)

(* What a proper turn changes.                                             *)
LEMMA TurnEffects ==
  ASSUME S!TypeOK, NEW p, NEW u, NEW d, ProperTurn(p, u, d)
  PROVE  /\ S!TypeOK' /\ S!time' = S!time + u /\ S!time \in Nat
         /\ \A q \in S!Ids : S!Units(q)' = IF q = p THEN S!Units(q) \union (S!time + 1 .. S!time + u) ELSE S!Units(q)
         /\ \A q \in S!Ids : remaining'[q] = IF q = p THEN remaining[q] - u ELSE remaining[q]
         /\ completed' = IF d THEN completed \union {p} ELSE completed
         /\ \A q \in S!Ids : waiting_time'[q] = IF q = p /\ d THEN S!time + u - arrival_time[p] - burst_time[p]
                                                              ELSE waiting_time[q]
         /\ policy' = policy /\ arrival_time' = arrival_time /\ burst_time' = burst_time
         /\ processes' = processes /\ state' = state
<1>1. /\ S!Run(p, u, d) /\ p \in S!Ids /\ p \notin completed
      /\ u \in Nat /\ u <= remaining[p] /\ arrival_time[p] <= S!time
  BY DEF ProperTurn
<1>2. /\ chart' = chart \o [k \in 1 .. u |-> p]
      /\ remaining' = [remaining EXCEPT ![p] = IF @ > u THEN @ - u ELSE 0]
      /\ completed' = IF d THEN completed \union {p} ELSE completed
      /\ waiting_time' =
           IF d THEN [waiting_time EXCEPT ![p] = S!time + u - arrival_time[p] - burst_time[p]]
           ELSE waiting_time
      /\ policy' = policy /\ arrival_time' = arrival_time /\ burst_time' = burst_time
      /\ processes' = processes /\ state' = state
  BY <1>1 DEF S!Run, S!inputs
<1>3. S!TypeOK'
  BY <1>1, RunKeepsTypes
<1>4. /\ S!time \in Nat /\ S!time = Len(chart) /\ chart \in Seq(S!Ids \union {0})
      /\ \A q \in S!Ids : remaining[q] \in Nat /\ waiting_time[q] \in Int
      /\ remaining \in [S!Ids -> Nat]
  BY SchedulerTimes
<1>5. /\ Len(chart') = Len(chart) + u
      /\ \A j \in 1 .. Len(chart) : chart'[j] = chart[j]
      /\ \A j \in Len(chart) + 1 .. Len(chart) + u : chart'[j] = p
  BY <1>1, <1>2, <1>4, LongerCharts
<1>6. S!time' = S!time + u
  BY <1>4, <1>5 DEF S!time
<1>7. ASSUME NEW q \in S!Ids
      PROVE  S!Units(q)' = IF q = p THEN S!Units(q) \union (S!time + 1 .. S!time + u) ELSE S!Units(q)
  <2> DEFINE T == S!time
  <2>1. S!Units(q) = {j \in 1 .. T : chart[j] = q} /\ S!Units(q)' = {j \in 1 .. T + u : chart'[j] = q}
    BY <1>6 DEF S!Units
  <2>2. /\ T \in Nat /\ u \in Nat
        /\ \A j \in 1 .. T : chart'[j] = chart[j]
        /\ \A j \in T + 1 .. T + u : chart'[j] = p
    BY <1>1, <1>4, <1>5
  <2> HIDE DEF T
  <2>3. 1 .. T + u = (1 .. T) \union (T + 1 .. T + u) /\ (1 .. T) \intersect (T + 1 .. T + u) = {}
    BY ONLY <2>2
  <2>4. S!Units(q)' = {j \in 1 .. T : chart[j] = q} \union {j \in T + 1 .. T + u : p = q}
    BY ONLY <2>1, <2>2, <2>3
  <2>5. q = p => {j \in T + 1 .. T + u : p = q} = T + 1 .. T + u
    OBVIOUS
  <2>6. q # p => {j \in T + 1 .. T + u : p = q} = {}
    OBVIOUS
  <2> QED BY <2>1, <2>4, <2>5, <2>6 DEF T
<1>8. \A q \in S!Ids : remaining'[q] = IF q = p THEN remaining[q] - u ELSE remaining[q]
  <2> DEFINE x == IF remaining[p] > u THEN remaining[p] - u ELSE 0
  <2>1. x = remaining[p] - u
    <3>1. remaining[p] \in Nat
      BY <1>1, <1>4
    <3> QED BY ONLY <1>1, <3>1
  <2>2. remaining' = [remaining EXCEPT ![p] = x]
    BY <1>2
  <2> HIDE DEF x
  <2> QED BY <1>4, <2>1, <2>2
<1>9. \A q \in S!Ids : waiting_time'[q] = IF q = p /\ d THEN S!time + u - arrival_time[p] - burst_time[p]
                                                        ELSE waiting_time[q]
  <2>1. waiting_time \in [S!Ids -> Int]
    BY DEF S!TypeOK
  <2> QED BY <1>2, <2>1
<1> QED BY <1>2, <1>3, <1>4, <1>6, <1>7, <1>8, <1>9

(* A proper turn keeps CountInv.                                           *)
LEMMA CountTurns ==
  ASSUME S!TypeOK, CountInv, NEW p, NEW u, NEW d, ProperTurn(p, u, d)
  PROVE  CountInv'
<1>1. /\ p \in S!Ids /\ p \notin completed /\ u \in Nat /\ u <= remaining[p] /\ arrival_time[p] <= S!time
      /\ d => remaining[p] = u /\ (u > 0 \/ burst_time[p] = 0)
  BY DEF ProperTurn
<1>2. /\ S!TypeOK' /\ S!time' = S!time + u /\ S!time \in Nat
      /\ \A q \in S!Ids : S!Units(q)' = IF q = p THEN S!Units(q) \union (S!time + 1 .. S!time + u) ELSE S!Units(q)
      /\ \A q \in S!Ids : remaining'[q] = IF q = p THEN remaining[q] - u ELSE remaining[q]
      /\ completed' = IF d THEN completed \union {p} ELSE completed
      /\ \A q \in S!Ids : waiting_time'[q] = IF q = p /\ d THEN S!time + u - arrival_time[p] - burst_time[p]
                                                           ELSE waiting_time[q]
      /\ arrival_time' = arrival_time /\ burst_time' = burst_time
  BY TurnEffects
<1>3. /\ completed \subseteq S!Ids
      /\ \A q \in S!Ids : burst_time[q] \in Nat /\ arrival_time[q] \in Nat /\ remaining[q] \in Nat
  BY SchedulerTimes
<1> DEFINE New == S!time + 1 .. S!time + u
<1>4. /\ Cardinality(S!Units(p)') = Cardinality(S!Units(p)) + u
      /\ \A j \in S!Units(p)' : j > arrival_time[p]
  <2>1. S!Units(p)' = S!Units(p) \union New
    BY <1>1, <1>2
  <2>2. IsFiniteSet(New) /\ Cardinality(New) = u
    <3>1. S!time + 1 \in Int /\ S!time + u \in Int
      BY <1>1, <1>2
    <3>2. IsFiniteSet(New) /\ Cardinality(New) = IF S!time + 1 > S!time + u THEN 0 ELSE (S!time + u) - (S!time + 1) + 1
      <4> DEFINE aa == S!time + 1
                 bb == S!time + u
      <4>1. aa \in Int /\ bb \in Int
        BY <3>1
      <4> HIDE DEF aa, bb
      <4>2. IsFiniteSet(aa .. bb) /\ Cardinality(aa .. bb) = IF aa > bb THEN 0 ELSE bb - aa + 1
        BY ONLY <4>1, FS_Interval
      <4> QED BY <4>2 DEF aa, bb
    <3> HIDE DEF New
    <3> QED BY <1>1, <1>2, <3>2
  <2>3. S!Units(p) \intersect New = {}
    <3>1. S!Units(p) \subseteq 1 .. S!time
      BY UnitsFinite
    <3> QED BY <1>1, <1>2, <3>1
  <2>4. \A j \in New : j > arrival_time[p]
    <3>1. arrival_time[p] \in Nat
      BY <1>1, <1>3
    <3> QED BY <1>1, <1>2, <3>1
  <2> HIDE DEF New
  <2>5. IsFiniteSet(S!Units(p)) /\ Cardinality(S!Units(p)) \in Nat
    BY UnitsFinite
  <2>6. Cardinality(S!Units(p) \union New) = Cardinality(S!Units(p)) + Cardinality(New) - Cardinality({})
    BY <2>2, <2>3, <2>5, FS_Union
  <2>7. Cardinality({}) = 0
    BY FS_EmptySet
  <2>8. Cardinality(S!Units(p) \union New) = Cardinality(S!Units(p)) + u
    BY ONLY <1>1, <2>2, <2>5, <2>6, <2>7
  <2> QED BY <1>1, <2>1, <2>4, <2>8 DEF CountInv
<1> HIDE DEF New
<1>5. ASSUME NEW q \in S!Ids
      PROVE  Cardinality(S!Units(q)') = burst_time'[q] - remaining'[q] /\ \A j \in S!Units(q)' : j > arrival_time'[q]
  <2>1. CASE q = p
    <3>1. Cardinality(S!Units(p)) = burst_time[p] - remaining[p]
      BY <1>1 DEF CountInv
    <3>2. burst_time[p] \in Nat /\ remaining[p] \in Nat /\ remaining'[p] = remaining[p] - u
      BY <1>1, <1>2, <1>3
    <3>3. Cardinality(S!Units(p)') = burst_time[p] - remaining'[p]
      BY ONLY <1>1, <1>4, <3>1, <3>2
    <3> QED BY <1>2, <1>4, <2>1, <3>3
  <2>2. CASE q # p
    <3>1. S!Units(q)' = S!Units(q) /\ remaining'[q] = remaining[q]
      BY <1>2, <2>2
    <3> QED BY <1>2, <3>1 DEF CountInv
  <2> QED BY <2>1, <2>2
<1>6. ASSUME NEW q \in completed'
      PROVE  /\ remaining'[q] = 0
             /\ burst_time'[q] > 0 =>
                  waiting_time'[q] = S!LastUnit(q)' - arrival_time'[q] - burst_time'[q]
  <2>1. CASE q = p
    <3>1. d
      BY <1>1, <1>2, <1>6, <2>1
    <3>2. remaining'[p] = 0
      <4>1. remaining'[p] = remaining[p] - u /\ remaining[p] = u
        BY <1>1, <1>2, <3>1
      <4> QED BY ONLY <1>1, <4>1
    <3>3. ASSUME burst_time[p] > 0
          PROVE  S!LastUnit(p)' = S!time + u /\ waiting_time'[p] = S!time + u - arrival_time[p] - burst_time[p]
      <4>1. u > 0
        BY <1>1, <1>3, <3>1, <3>3
      <4>2. S!Units(p)' = S!Units(p) \union (S!time + 1 .. S!time + u)
        BY <1>1, <1>2
      <4>3. S!time + u \in S!time + 1 .. S!time + u /\ S!time + u \in Nat
        BY <1>1, <1>2, <4>1
      <4>4. S!Units(p)' \subseteq 1 .. S!time'
        <5>1. S!Units(p) \subseteq 1 .. S!time
          BY UnitsFinite
        <5> QED BY <1>1, <1>2, <4>2, <5>1
      <4> DEFINE U == S!Units(p)'
                 j == S!time + u
      <4>5. j \in U /\ j \in Nat /\ (\A i \in U : i <= j /\ j >= i) /\ U \subseteq Nat
        BY <1>1, <1>2, <4>2, <4>3, <4>4
      <4>6. S!LastUnit(p)' = CHOOSE x \in U : \A y \in U : x >= y
        BY DEF S!LastUnit, S!Max
      <4> HIDE DEF U, j
      <4>8. S!LastUnit(p)' = j
        BY ONLY <4>5, <4>6, MaxOf
      <4> QED BY <1>1, <1>2, <3>1, <4>8 DEF j
    <3>4. burst_time' = burst_time /\ arrival_time' = arrival_time
      BY <1>2
    <3>5. ASSUME burst_time[p] > 0 PROVE waiting_time'[p] = S!LastUnit(p)' - arrival_time[p] - burst_time[p]
      <4>1. S!LastUnit(p)' = S!time + u /\ waiting_time'[p] = S!time + u - arrival_time[p] - burst_time[p]
        BY <3>3, <3>5
      <4>2. S!time \in Nat /\ u \in Nat /\ arrival_time[p] \in Nat /\ burst_time[p] \in Nat
        BY <1>1, <1>2, <1>3
      <4> QED BY ONLY <4>1, <4>2
    <3> QED BY ONLY <2>1, <3>2, <3>4, <3>5
  <2>2. CASE q # p
    <3>1. q \in completed /\ q \in S!Ids
      BY <1>2, <1>3, <1>6, <2>2
    <3>2. S!Units(q)' = S!Units(q) /\ remaining'[q] = remaining[q] /\ waiting_time'[q] = waiting_time[q]
      BY <1>2, <2>2, <3>1
    <3>3. S!LastUnit(q)' = S!LastUnit(q)
      BY <3>2 DEF S!LastUnit, S!Max
    <3> QED BY <1>2, <3>1, <3>2, <3>3 DEF CountInv
  <2> QED BY <2>1, <2>2
<1> QED BY <1>5, <1>6 DEF CountInv

(* What the first of the two tables' properties says follows. *)
LEMMA CountsSay ==
  ASSUME S!TypeOK, CountInv, NEW p \in completed, burst_time[p] > 0
  PROVE  /\ Cardinality(S!Units(p)) = burst_time[p]
         /\ \A t \in S!Units(p) : t > arrival_time[p]
         /\ waiting_time[p] =
              Cardinality({t \in arrival_time[p] + 1 .. S!LastUnit(p) : chart[t] # p})
<1>1. /\ p \in S!Ids /\ burst_time[p] \in Nat /\ arrival_time[p] \in Nat /\ remaining[p] = 0
      /\ Cardinality(S!Units(p)) = burst_time[p] - remaining[p]
      /\ \A j \in S!Units(p) : j > arrival_time[p]
      /\ waiting_time[p] = S!LastUnit(p) - arrival_time[p] - burst_time[p]
  BY SchedulerTimes DEF CountInv
<1>2. Cardinality(S!Units(p)) = burst_time[p]
  BY ONLY <1>1
<1> DEFINE U == S!Units(p)
           a == arrival_time[p]
           x == S!LastUnit(p)
           V == a + 1 .. x
<1>3. IsFiniteSet(U) /\ U \subseteq Nat /\ U = {j \in 1 .. S!time : chart[j] = p} /\ S!time \in Nat
  BY UnitsFinite, SchedulerTimes DEF S!Units
<1>4. U # {}
  <2>1. ASSUME U = {} PROVE FALSE
    <3>1. Cardinality(U) = 0
      BY <2>1, FS_EmptySet
    <3> QED BY <1>1, <1>2, <3>1
  <2> QED BY <2>1
<1>5. x \in U /\ \A j \in U : j <= x
  <2>1. PICK j \in U : \A i \in U : i <= j
    <3> HIDE DEF U
    <3> QED BY <1>3, <1>4, LargestOf
  <2>2. x = j
    BY <2>1, LastIs
  <2> QED BY <2>1, <2>2
<1> HIDE DEF x
<1>6. U \subseteq V /\ x \in Nat /\ x > a /\ a \in Nat /\ V \subseteq 1 .. S!time
  <2>1. x \in Nat /\ x > a /\ a \in Nat /\ x \in 1 .. S!time
    BY <1>1, <1>3, <1>5
  <2>2. \A j \in U : j \in Nat /\ j > a /\ j <= x
    BY <1>1, <1>3, <1>5
  <2> HIDE DEF U
  <2> QED BY <1>3, <2>1, <2>2
<1>7. {t \in V : chart[t] # p} = V \ U
  BY <1>3, <1>6
<1>8. Cardinality(V \ U) = Cardinality(V) - Cardinality(V \intersect U) /\ IsFiniteSet(V) /\ Cardinality(V) = x - a
  <2>1. IsFiniteSet(V) /\ Cardinality(V) = IF a + 1 > x THEN 0 ELSE x - (a + 1) + 1
    <3>1. a + 1 \in Int /\ x \in Int
      BY <1>6
    <3> QED BY <3>1, FS_Interval
  <2>2. Cardinality(V) = x - a
    <3> HIDE DEF V
    <3> QED BY <1>6, <2>1
  <2> HIDE DEF V, U
  <2> QED BY <2>1, <2>2, FS_Difference
<1>9. V \intersect U = U
  BY <1>6
<1> HIDE DEF V, U, a
<1>10. Cardinality(V \ U) = x - a - burst_time[p]
  BY <1>2, <1>8, <1>9 DEF U
<1>11. {t \in a + 1 .. x : chart[t] # p} = V \ U
  BY <1>7 DEF V
<1>12. waiting_time[p] = Cardinality({t \in a + 1 .. x : chart[t] # p})
  BY <1>1, <1>10, <1>11 DEF a, x
<1> QED BY <1>1, <1>2, <1>12 DEF a, x

(* A sum of naturals over fewer is not more. *)
LEMMA TotalGrows ==
  ASSUME NEW f, NEW D, IsFiniteSet(D), \A x \in D : f[x] \in Nat, NEW T, T \subseteq D,
         NEW z \in D, z \notin T
  PROVE  /\ Total(f, T) + f[z] <= Total(f, D)
         /\ Total(f, T \union {z}) = Total(f, T) + f[z]
         /\ Total(f, T) \in Int
<1>0. IsFiniteSet(T) /\ Summable(f, D)
  BY FS_Subset DEF Summable
<1> DEFINE bad == {c \in Nat : \E U \in SUBSET D : Cardinality(U) = c /\ ~(Total(f, U) >= 0)}
<1>1. \A U \in SUBSET D : Summable(f, U) /\ Total(f, U) \in Int /\ Cardinality(U) \in Nat
  <2>1. ASSUME NEW U \in SUBSET D PROVE Summable(f, U) /\ Cardinality(U) \in Nat
    BY FS_Subset, FS_CardinalityType DEF Summable
  <2> QED BY <2>1, TotalAgrees
<1>2. \A U \in SUBSET D : \A x \in U : Total(f, U) = f[x] + Total(f, U \ {x})
  BY <1>1, TotalWithout
<1>3. Total(f, T \union {z}) = Total(f, T) + f[z]
  <2>1. T \union {z} \in SUBSET D /\ z \in T \union {z} /\ (T \union {z}) \ {z} = T
    OBVIOUS
  <2>2. Total(f, T \union {z}) = f[z] + Total(f, T)
    BY <1>2, <2>1
  <2>3. f[z] \in Int /\ Total(f, T) \in Int
    BY <1>1
  <2> QED BY ONLY <2>2, <2>3
<1> DEFINE short == {c \in Nat : \E U \in SUBSET D : Cardinality(D \ U) = c /\ ~(Total(f, U) <= Total(f, D))}
<1>4. ASSUME short # {} PROVE FALSE
  <2>1. PICK c \in short : \A e \in short : c <= e
    <3>1. short \subseteq Nat
      OBVIOUS
    <3> HIDE DEF short
    <3> QED BY <1>4, <3>1, SmallestOf
  <2>2. PICK U \in SUBSET D : Cardinality(D \ U) = c /\ ~(Total(f, U) <= Total(f, D))
    BY <2>1
  <2>3. U # D
    <3>1. Total(f, D) \in Int
      BY <1>1
    <3> QED BY <2>2, <3>1
  <2>4. PICK x \in D : x \notin U
    BY <2>3
  <2> DEFINE V == U \union {x}
  <2>5. V \in SUBSET D /\ x \in V /\ V \ {x} = U /\ D \ V = (D \ U) \ {x} /\ x \in D \ U
    BY <2>4
  <2> HIDE DEF V
  <2>6. IsFiniteSet(D \ U)
    BY FS_Subset
  <2>7. Cardinality(D \ V) = Cardinality(D \ U) - 1 /\ Cardinality(D \ V) \in Nat
    <3>1. Cardinality((D \ U) \ {x}) = Cardinality(D \ U) - 1
      BY <2>5, <2>6, FS_RemoveElement
    <3>2. D \ V \in SUBSET D
      OBVIOUS
    <3> QED BY <1>1, <2>5, <3>1, <3>2
  <2>8. Total(f, V) <= Total(f, D)
    <3>1. Cardinality(D \ V) \notin short
      <4>1. c \in Nat /\ ~(c <= Cardinality(D \ V))
        BY <2>1, <2>2, <2>7
      <4> HIDE DEF short
      <4> QED BY <2>1, <4>1
    <3> QED BY <2>5, <2>7, <3>1
  <2>9. Total(f, V) = f[x] + Total(f, U) /\ f[x] \in Nat
    BY <1>2, <2>4, <2>5
  <2>10. Total(f, V) \in Int /\ Total(f, U) \in Int /\ Total(f, D) \in Int
    BY <1>1, <2>5
  <2> QED BY ONLY <2>2, <2>8, <2>9, <2>10
<1>5. Total(f, T \union {z}) <= Total(f, D)
  <2>1. T \union {z} \in SUBSET D /\ Cardinality(D \ (T \union {z})) \in Nat
    <3>1. D \ (T \union {z}) \in SUBSET D
      OBVIOUS
    <3> QED BY <1>1, <3>1
  <2> QED BY <1>4, <2>1
<1> QED BY <1>1, <1>3, <1>5

(* The inputs that TimesAddUp speaks of, and what the programs keep on them.*)
Pre == policy = "hrrn" => S!Gapless

(* What each of the programs keeps on its inputs.                          *)
PolicyInv ==
  /\ policy \in {"sjf", "hrrn"} => \A p \in S!Ids \ completed : remaining[p] = burst_time[p]
  /\ policy \in {"sjf", "rr"} => \A p \in S!Ids : arrival_time[p] = 0
  /\ policy = "sjf" => completed = {processes[k] : k \in 1 .. Cardinality(completed)}
  /\ policy = "srtf" => \A p \in S!Ids \ completed : remaining[p] > 0
  /\ policy = "hrrn" => S!time = Total(burst_time, completed)
  /\ state = "done" => \A p \in S!Ids : burst_time[p] > 0 => p \in completed

(* The inductive invariant of the four simulators with one queue.          *)
SchedulersInv == S!TypeOK /\ (Pre => CountInv /\ PolicyInv)

(* It holds at the start.                                                  *)
LEMMA SchedulersInit == ASSUME S!Init PROVE SchedulersInv
<1>1. S!TypeOK /\ (policy = "hrrn" => \A p \in S!Ids : arrival_time[processes[1]] <= arrival_time[p])
  BY SchedulersStart
<1>2. /\ remaining = burst_time /\ completed = {} /\ state = "runs"
      /\ chart = (IF policy = "hrrn" THEN S!Idle(arrival_time[processes[1]]) ELSE <<>>)
      /\ policy = "srtf" => burst_time \in [S!Ids -> Bursts \ {0}]
      /\ policy \in {"sjf", "rr"} => arrival_time \in [S!Ids -> {0}]
  BY DEF S!Init
<1>3. \A p \in S!Ids : burst_time[p] \in Nat /\ arrival_time[p] \in Nat
  BY <1>1, SchedulerTimes
<1>4. SUFFICES ASSUME Pre PROVE CountInv /\ PolicyInv
  BY <1>1 DEF SchedulersInv
<1>5. S!time = 0
  <2>1. CASE policy # "hrrn"
    BY <1>2, <2>1 DEF S!time
  <2>2. CASE policy = "hrrn"
    <3>1. S!Gapless
      BY <1>4, <2>2 DEF Pre
    <3>2. {} \in (SUBSET S!Ids) \ {S!Ids}
      BY SchedulersIds
    <3>3. PICK p \in S!Ids \ {} : arrival_time[p] <= S!FoldFunctionOnSet(+, 0, burst_time, {})
      BY <3>1, <3>2 DEF S!Gapless
    <3>4. arrival_time[p] <= 0
      BY <3>3, TotalSchedulers, TotalEmpty
    <3>5. arrival_time[processes[1]] <= arrival_time[p] /\ processes[1] \in S!Ids
      BY <1>1, <2>2, SchedulersIds DEF S!TypeOK
    <3>6. arrival_time[processes[1]] = 0
      BY <1>3, <3>4, <3>5
    <3>7. chart = [k \in 1 .. 0 |-> 0]
      BY <1>2, <2>2, <3>6 DEF S!Idle
    <3>8. Len(chart) = 0
      BY <3>7
    <3> QED BY <3>8 DEF S!time
  <2> QED BY <2>1, <2>2
<1>6. CountInv
  <2>1. ASSUME NEW p \in S!Ids
        PROVE  Cardinality(S!Units(p)) = burst_time[p] - remaining[p] /\ \A j \in S!Units(p) : j > arrival_time[p]
    <3>1. S!Units(p) = {}
      BY <1>5 DEF S!Units
    <3>2. Cardinality(S!Units(p)) = 0
      BY <3>1, FS_EmptySet
    <3> QED BY <1>2, <1>3, <3>1, <3>2
  <2> QED BY <1>2, <2>1 DEF CountInv
<1>7. PolicyInv
  <2>1. Cardinality(completed) = 0 /\ 1 .. 0 = {}
    BY <1>2, FS_EmptySet
  <2>2. completed = {processes[k] : k \in 1 .. Cardinality(completed)}
    BY <1>2, <2>1
  <2>3. S!time = Total(burst_time, completed)
    BY <1>2, <1>5, TotalEmpty
  <2>4. policy = "srtf" => \A p \in S!Ids : burst_time[p] > 0
    BY <1>2, <1>3
  <2> QED BY <1>2, <2>2, <2>3, <2>4 DEF PolicyInv
<1> QED BY <1>6, <1>7

(* A proper turn keeps what the policies need. *)
LEMMA PolicyTurns ==
  ASSUME S!TypeOK, PolicyInv, state = "runs", NEW p, NEW u, NEW d, ProperTurn(p, u, d),
         policy \in {"sjf", "hrrn"} => d,
         policy = "sjf" => p = processes[Cardinality(completed) + 1],
         policy = "srtf" => u = 1 /\ d = (remaining[p] = 1)
  PROVE  PolicyInv'
<1>1. /\ p \in S!Ids /\ p \notin completed /\ u \in Nat /\ u <= remaining[p]
      /\ d => remaining[p] = u
  BY DEF ProperTurn
<1>2. /\ S!time' = S!time + u
      /\ \A q \in S!Ids : remaining'[q] = IF q = p THEN remaining[q] - u ELSE remaining[q]
      /\ completed' = (IF d THEN completed \union {p} ELSE completed)
      /\ policy' = policy /\ arrival_time' = arrival_time /\ burst_time' = burst_time
      /\ processes' = processes /\ state' = "runs"
  BY TurnEffects
<1>3. /\ completed \subseteq S!Ids /\ IsFiniteSet(completed) /\ Cardinality(completed) \in Nat
      /\ \A q \in S!Ids : burst_time[q] \in Nat /\ remaining[q] \in Nat
      /\ S!time \in Nat
  BY SchedulerTimes
<1>4. policy \in {"sjf", "hrrn"} => \A q \in S!Ids \ completed' : remaining'[q] = burst_time[q]
  BY <1>2 DEF PolicyInv
<1>5. policy = "sjf" => completed' = {processes[k] : k \in 1 .. Cardinality(completed')}
  <2>1. SUFFICES ASSUME policy = "sjf" PROVE completed' = {processes[k] : k \in 1 .. Cardinality(completed')}
    OBVIOUS
  <2> DEFINE c == Cardinality(completed)
  <2>2. completed' = completed \union {p} /\ p = processes[c + 1] /\ completed = {processes[k] : k \in 1 .. c}
    BY <1>2, <2>1 DEF PolicyInv
  <2>3. Cardinality(completed') = c + 1 /\ c \in Nat
    BY <1>1, <1>3, <2>2, FS_AddElement
  <2> HIDE DEF c
  <2>4. 1 .. c + 1 = (1 .. c) \union {c + 1}
    BY <2>3
  <2>5. {processes[k] : k \in 1 .. c + 1} = {processes[k] : k \in 1 .. c} \union {processes[c + 1]}
    BY <2>4
  <2> QED BY <2>2, <2>3, <2>5
<1>6. policy = "srtf" => \A q \in S!Ids \ completed' : remaining'[q] > 0
  <2>1. SUFFICES ASSUME policy = "srtf", NEW q \in S!Ids \ completed' PROVE remaining'[q] > 0
    OBVIOUS
  <2>2. CASE q = p
    <3>1. remaining'[p] = remaining[p] - 1 /\ remaining[p] # 1 /\ remaining[p] > 0 /\ remaining[p] \in Nat
      BY <1>1, <1>2, <1>3, <2>1, <2>2 DEF PolicyInv
    <3> QED BY <2>2, <3>1
  <2>3. CASE q # p
    BY <1>2, <2>1, <2>3 DEF PolicyInv
  <2> QED BY <2>2, <2>3
<1>7. policy = "hrrn" => S!time' = Total(burst_time, completed')
  <2>1. SUFFICES ASSUME policy = "hrrn" PROVE S!time' = Total(burst_time, completed')
    OBVIOUS
  <2>2. u = burst_time[p] /\ completed' = completed \union {p} /\ S!time = Total(burst_time, completed)
    BY <1>1, <1>2, <2>1 DEF PolicyInv
  <2>3. Total(burst_time, completed \union {p}) = Total(burst_time, completed) + burst_time[p]
    <3> DEFINE f == burst_time
               D == S!Ids
               T == completed
    <3>1. IsFiniteSet(D) /\ (\A x \in D : f[x] \in Nat) /\ T \subseteq D /\ p \in D /\ p \notin T
      BY <1>1, <1>3, SchedulersIds
    <3> HIDE DEF f, D, T
    <3>2. Total(f, T \union {p}) = Total(f, T) + f[p]
      BY ONLY <3>1, TotalGrows
    <3> QED BY <3>2 DEF f, D, T
  <2> QED BY <1>2, <2>2, <2>3
<1> QED BY <1>2, <1>4, <1>5, <1>6, <1>7 DEF PolicyInv

(* A turn that is proper keeps everything. *)
LEMMA ProperTurnsKeep ==
  ASSUME S!TypeOK, CountInv, PolicyInv, state = "runs", NEW p, NEW u, NEW d, ProperTurn(p, u, d),
         policy \in {"sjf", "hrrn"} => d,
         policy = "sjf" => p = processes[Cardinality(completed) + 1],
         policy = "srtf" => u = 1 /\ d = (remaining[p] = 1)
  PROVE  CountInv' /\ PolicyInv'
<1>1. CountInv'
  BY CountTurns
<1>2. PolicyInv'
  BY PolicyTurns
<1> QED BY <1>1, <1>2

(* sjf.c takes a process it has not taken yet: the array lists each once.   *)
LEMMA NextInArray ==
  ASSUME S!TypeOK, completed = {processes[k] : k \in 1 .. Cardinality(completed)},
         Cardinality(completed) + 1 \in S!Ids
  PROVE  processes[Cardinality(completed) + 1] \notin completed
<1> DEFINE c == Cardinality(completed)
<1>1. c \in Nat /\ processes \in Arrays
  BY SchedulerTimes
<1>2. processes \in Surjection(S!Ids, S!Ids)
  <2>1. processes \in [S!Ids -> S!Ids] /\ {processes[k] : k \in S!Ids} = S!Ids
    BY <1>1 DEF Arrays
  <2>2. \A q \in S!Ids : \E k \in S!Ids : processes[k] = q
    BY <2>1
  <2> QED BY <2>1, <2>2, Fun_IsSurj
<1>3. processes \in Injection(S!Ids, S!Ids)
  BY <1>2, SchedulersIds, FS_Surjection
<1>4. \A i, j \in S!Ids : processes[i] = processes[j] => i = j
  BY <1>3 DEF Injection, IsInjective
<1> SUFFICES ASSUME NEW k \in 1 .. c, processes[c + 1] = processes[k] PROVE FALSE
  OBVIOUS
<1> HIDE DEF c
<1>5. k \in S!Ids /\ c + 1 \in S!Ids /\ k # c + 1
  <2>1. c + 1 \in 1 .. n /\ S!Ids = 1 .. n /\ n \in Nat
    BY SchedulersIds, SchedulersConstants DEF c
  <2> QED BY ONLY <1>1, <2>1
<1> QED BY <1>4, <1>5

(* A turn as the programs give it is proper. *)
LEMMA TurnsAreProper ==
  ASSUME S!TypeOK, CountInv, PolicyInv
  PROVE  /\ S!sjf => \E p : /\ ProperTurn(p, burst_time[p], TRUE) /\ policy = "sjf"
                            /\ p = processes[Cardinality(completed) + 1]
         /\ S!srtf => \E p : /\ ProperTurn(p, 1, remaining[p] = 1) /\ policy = "srtf"
                             /\ \A q \in S!Arrived(S!time) : remaining[p] <= remaining[q]
         /\ S!hrrn => \E p : ProperTurn(p, burst_time[p], TRUE) /\ policy = "hrrn"
         /\ S!rr => \/ \E p : \E u : ProperTurn(p, u, remaining[p] = u) /\ policy = "rr"
                    \/ UNCHANGED S!schedulerVars
<1>1. /\ S!time \in Nat
      /\ \A q \in S!Ids : burst_time[q] \in Nat /\ arrival_time[q] \in Nat /\ remaining[q] \in Nat
  BY SchedulerTimes
<1>2. ASSUME NEW p \in S!Arrived(S!time) PROVE p \in S!Ids /\ p \notin completed /\ arrival_time[p] <= S!time
  BY DEF S!Arrived
<1>3. ASSUME S!sjf
      PROVE  \E p : /\ ProperTurn(p, burst_time[p], TRUE) /\ policy = "sjf"
                    /\ p = processes[Cardinality(completed) + 1]
  <2>1. PICK p \in S!Ids : /\ p = processes[Cardinality(completed) + 1] /\ completed # S!Ids
                           /\ Cardinality(completed) + 1 \in S!Ids
                           /\ S!Run(p, burst_time[p], TRUE) /\ policy = "sjf"
    BY <1>3, Turns
  <2>2. p \notin completed
    BY <2>1, NextInArray DEF PolicyInv
  <2>3. remaining[p] = burst_time[p] /\ arrival_time[p] = 0
    BY <2>1, <2>2 DEF PolicyInv
  <2>4. /\ burst_time[p] \in Nat /\ burst_time[p] <= remaining[p] /\ arrival_time[p] <= S!time
        /\ burst_time[p] > 0 \/ burst_time[p] = 0
    BY <1>1, <2>3
  <2>5. ProperTurn(p, burst_time[p], TRUE)
    BY <2>1, <2>2, <2>3, <2>4 DEF ProperTurn
  <2> QED BY <2>1, <2>5
<1>4. ASSUME S!srtf
      PROVE  \E p : /\ ProperTurn(p, 1, remaining[p] = 1) /\ policy = "srtf"
                    /\ \A q \in S!Arrived(S!time) : remaining[p] <= remaining[q]
  <2>1. PICK p \in S!Arrived(S!time) : /\ S!Run(p, 1, remaining[p] = 1) /\ policy = "srtf"
                                       /\ \A q \in S!Arrived(S!time) : remaining[p] <= remaining[q]
    BY <1>4, Turns
  <2>2. p \in S!Ids /\ p \notin completed /\ arrival_time[p] <= S!time
    BY <1>2
  <2>3. remaining[p] > 0 /\ remaining[p] \in Nat
    BY <1>1, <2>1, <2>2 DEF PolicyInv
  <2>4. 1 \in Nat /\ 1 <= remaining[p] /\ 1 > 0
    BY <2>3
  <2>5. ProperTurn(p, 1, remaining[p] = 1)
    BY <2>1, <2>2, <2>4 DEF ProperTurn
  <2> QED BY <2>1, <2>5
<1>5. ASSUME S!hrrn PROVE \E p : ProperTurn(p, burst_time[p], TRUE) /\ policy = "hrrn"
  <2>1. PICK p \in S!Arrived(S!time) : S!Run(p, burst_time[p], TRUE) /\ policy = "hrrn"
    BY <1>5, Turns
  <2>2. p \in S!Ids /\ p \notin completed /\ arrival_time[p] <= S!time
    BY <1>2
  <2>3. remaining[p] = burst_time[p]
    BY <2>1, <2>2 DEF PolicyInv
  <2>4. /\ burst_time[p] \in Nat /\ burst_time[p] <= remaining[p]
        /\ burst_time[p] > 0 \/ burst_time[p] = 0
    BY <1>1, <2>2, <2>3
  <2>5. ProperTurn(p, burst_time[p], TRUE)
    BY <2>1, <2>2, <2>3, <2>4 DEF ProperTurn
  <2> QED BY <2>1, <2>5
<1>6. ASSUME S!rr, ~UNCHANGED S!schedulerVars
      PROVE  \E p : \E u : ProperTurn(p, u, remaining[p] = u) /\ policy = "rr"
  <2>1. PICK p \in S!Ids \ completed : \E u \in Nat :
           /\ remaining[p] > 0 /\ u > 0 /\ u <= remaining[p]
           /\ S!Run(p, u, remaining[p] = u) /\ policy = "rr"
    BY <1>6, Turns
  <2>2. PICK u \in Nat : /\ remaining[p] > 0 /\ u > 0 /\ u <= remaining[p]
                         /\ S!Run(p, u, remaining[p] = u) /\ policy = "rr"
    BY <2>1
  <2>3. arrival_time[p] = 0 /\ p \in S!Ids /\ p \notin completed
    BY <2>2 DEF PolicyInv
  <2>4. arrival_time[p] <= S!time
    BY <1>1, <2>3
  <2>5. ProperTurn(p, u, remaining[p] = u)
    BY <2>2, <2>3, <2>4 DEF ProperTurn
  <2> QED BY <2>2, <2>5
<1> QED BY <1>3, <1>4, <1>5, <1>6

(* HRRN.c: on a gapless input somebody is ready while work is left.         *)
LEMMA SomebodyReady ==
  ASSUME S!TypeOK, PolicyInv, S!Gapless, policy = "hrrn", S!time < S!sum_burst_time
  PROVE  S!Arrived(S!time) # {}
<1>1. S!sum_burst_time = Total(burst_time, S!Ids)
  BY TotalSchedulers DEF S!sum_burst_time
<1>2. S!time = Total(burst_time, completed) /\ S!time \in Nat /\ completed \subseteq S!Ids
  BY SchedulerTimes DEF PolicyInv
<1>3. completed # S!Ids
  BY <1>1, <1>2
<1>4. completed \in (SUBSET S!Ids) \ {S!Ids}
  BY <1>2, <1>3
<1>5. PICK p \in S!Ids \ completed : arrival_time[p] <= S!FoldFunctionOnSet(+, 0, burst_time, completed)
  BY <1>4 DEF S!Gapless
<1>6. arrival_time[p] <= S!time
  BY <1>2, <1>5, TotalSchedulers
<1> QED BY <1>6 DEF S!Arrived

(* At the end everybody who needs the CPU has had it. *)
LEMMA AllServed ==
  ASSUME S!TypeOK, PolicyInv, S!Finished, NEW p \in S!Ids, burst_time[p] > 0
  PROVE  p \in completed
<1> SUFFICES ASSUME p \notin completed PROVE FALSE
  OBVIOUS
<1>1. policy = "hrrn" /\ S!time >= S!sum_burst_time
  BY DEF S!Finished
<1>2. S!sum_burst_time = Total(burst_time, S!Ids)
  BY TotalSchedulers DEF S!sum_burst_time
<1>3. S!time = Total(burst_time, completed) /\ S!time \in Nat /\ burst_time[p] \in Nat
  BY <1>1, SchedulerTimes DEF PolicyInv
<1>4. /\ Total(burst_time, completed) + burst_time[p] <= Total(burst_time, S!Ids)
      /\ Total(burst_time, S!Ids) \in Int
  <2> DEFINE f == burst_time
             D == S!Ids
             T == completed
  <2>1. IsFiniteSet(D) /\ (\A x \in D : f[x] \in Nat) /\ T \subseteq D /\ p \in D /\ p \notin T
    BY SchedulersIds, SchedulerTimes
  <2>2. D \subseteq D
    OBVIOUS
  <2>3. Summable(f, D)
    <3> HIDE DEF f, D, T
    <3> QED BY ONLY <2>1 DEF Summable
  <2> HIDE DEF f, D, T
  <2>4. Total(f, T) + f[p] <= Total(f, D)
    BY ONLY <2>1, TotalGrows
  <2>5. Total(f, D) \in Int
    BY <2>3, TotalAgrees
  <2> QED BY <2>4, <2>5 DEF f, D, T
<1> QED BY <1>1, <1>2, <1>3, <1>4

(* What changes nothing but the state, and what only lets time pass.        *)
LEMMA OnlyState ==
  ASSUME S!TypeOK, CountInv, PolicyInv,
         UNCHANGED <<S!inputs, remaining, completed, waiting_time, chart>>,
         state' = "done" => state = "done" \/ S!Finished
  PROVE  CountInv' /\ PolicyInv'
<1>1. /\ policy' = policy /\ arrival_time' = arrival_time /\ burst_time' = burst_time
      /\ processes' = processes /\ remaining' = remaining /\ completed' = completed
      /\ waiting_time' = waiting_time /\ chart' = chart
  BY DEF S!inputs
<1>2. CountInv'
  <2>1. S!time' = S!time
    BY <1>1 DEF S!time
  <2>2. \A q \in S!Ids : S!Units(q)' = S!Units(q)
    BY <1>1, <2>1 DEF S!Units
  <2>3. \A q \in S!Ids : S!LastUnit(q)' = S!LastUnit(q)
    BY <2>2 DEF S!LastUnit, S!Max
  <2> QED BY <1>1, <2>2, <2>3, SchedulerTimes DEF CountInv
<1>3. ASSUME state' = "done", NEW p \in S!Ids, burst_time[p] > 0 PROVE p \in completed
  <2>1. CASE state = "done"
    BY <1>3, <2>1 DEF PolicyInv
  <2>2. CASE S!Finished
    BY <1>3, <2>2, AllServed
  <2> QED BY <1>3, <2>1, <2>2
<1>4. S!time' = S!time
  BY <1>1 DEF S!time
<1>5. PolicyInv'
  BY <1>1, <1>3, <1>4 DEF PolicyInv
<1> QED BY <1>2, <1>5

(* srtf.c lets a unit pass in which nobody is ready.                       *)
LEMMA IdleUnit ==
  ASSUME S!TypeOK, CountInv, PolicyInv, S!srtf_idle
  PROVE  CountInv' /\ PolicyInv'
<1>1. /\ policy' = policy /\ arrival_time' = arrival_time /\ burst_time' = burst_time
      /\ processes' = processes /\ remaining' = remaining /\ completed' = completed
      /\ waiting_time' = waiting_time /\ chart' = Append(chart, 0) /\ state' = "runs" /\ policy = "srtf"
  BY DEF S!srtf_idle, S!inputs, S!Ready
<1>2. S!time \in Nat /\ S!time = Len(chart) /\ chart \in Seq(S!Ids \union {0})
  BY SchedulerTimes
<1>3. /\ S!time' = S!time + 1 /\ chart'[S!time + 1] = 0
      /\ \A j \in 1 .. S!time : chart'[j] = chart[j]
  BY <1>1, <1>2 DEF S!time
<1>4. ASSUME NEW q \in S!Ids PROVE S!Units(q)' = S!Units(q)
  <2>1. S!Units(q)' = {j \in 1 .. S!time + 1 : chart'[j] = q} /\ S!Units(q) = {j \in 1 .. S!time : chart[j] = q}
    BY <1>3 DEF S!Units
  <2>2. q # 0
    BY SchedulersIds
  <2>3. 1 .. S!time + 1 = (1 .. S!time) \union {S!time + 1}
    BY <1>2
  <2> QED BY <1>3, <2>1, <2>2, <2>3
<1>5. \A q \in S!Ids : S!LastUnit(q)' = S!LastUnit(q)
  BY <1>4 DEF S!LastUnit, S!Max
<1>6. CountInv'
  BY <1>1, <1>4, <1>5, SchedulerTimes DEF CountInv
<1>7. PolicyInv'
  BY <1>1 DEF PolicyInv
<1> QED BY <1>6, <1>7

(* No step changes the input.                                              *)
LEMMA InputsStay ==
  ASSUME S!Next \/ UNCHANGED S!schedulerVars
  PROVE  policy' = policy /\ arrival_time' = arrival_time /\ burst_time' = burst_time
<1>1. \A p, u, d : S!Run(p, u, d) => UNCHANGED S!inputs
  BY DEF S!Run
<1>2. UNCHANGED S!inputs
  <2>1. CASE UNCHANGED S!schedulerVars
    BY <2>1 DEF S!schedulerVars
  <2>2. CASE S!sjf
    BY <1>1, <2>2 DEF S!sjf
  <2>3. CASE S!srtf
    BY <1>1, <2>3 DEF S!srtf
  <2>4. CASE S!hrrn
    BY <1>1, <2>4 DEF S!hrrn
  <2>5. CASE S!rr
    BY <1>1, <2>1, <2>5 DEF S!rr
  <2>6. CASE S!srtf_idle
    BY <2>6 DEF S!srtf_idle
  <2>7. CASE S!hrrn_no_candidate
    BY <1>1, <2>7 DEF S!hrrn_no_candidate
  <2>8. CASE S!hrrn_divides_by_zero
    BY <2>8 DEF S!hrrn_divides_by_zero
  <2>9. CASE S!Finish
    BY <2>9 DEF S!Finish
  <2> QED BY <2>1, <2>2, <2>3, <2>4, <2>5, <2>6, <2>7, <2>8, <2>9 DEF S!Next
<1> QED BY <1>2 DEF S!inputs

(* Every step keeps the invariant.                                         *)
LEMMA SchedulersGoOn ==
  ASSUME SchedulersInv, S!Next \/ UNCHANGED S!schedulerVars
  PROVE  SchedulersInv'
<1>1. S!TypeOK /\ S!TypeOK'
  BY SchedulersKeepTypes DEF SchedulersInv
<1>2. policy' = policy /\ arrival_time' = arrival_time /\ burst_time' = burst_time
  BY InputsStay
<1>3. Pre' => Pre
  <2>1. S!Gapless' <=> S!Gapless
    BY <1>2 DEF S!Gapless, S!FoldFunctionOnSet, S!MapThenFoldSet, S!Ids
  <2> QED BY <1>2, <2>1 DEF Pre
<1> SUFFICES ASSUME Pre' PROVE CountInv' /\ PolicyInv'
  BY <1>1 DEF SchedulersInv
<1>4. Pre /\ CountInv /\ PolicyInv
  BY <1>3 DEF SchedulersInv
<1>5. CASE UNCHANGED S!schedulerVars
  <2>1. UNCHANGED <<S!inputs, remaining, completed, waiting_time, chart>> /\ state' = state
    BY <1>5 DEF S!schedulerVars
  <2> QED BY <1>1, <1>4, <2>1, OnlyState
<1>6. CASE S!sjf
  <2>1. state = "runs"
    BY <1>6 DEF S!sjf, S!Ready
  <2>2. PICK p : /\ ProperTurn(p, burst_time[p], TRUE) /\ policy = "sjf"
                 /\ p = processes[Cardinality(completed) + 1]
    BY <1>1, <1>4, <1>6, TurnsAreProper
  <2>3. policy # "srtf"
    BY <2>2
  <2> QED BY <1>1, <1>4, <2>1, <2>2, <2>3, ProperTurnsKeep
<1>7. CASE S!srtf
  <2>1. state = "runs"
    BY <1>7 DEF S!srtf, S!Ready
  <2>2. PICK p : ProperTurn(p, 1, remaining[p] = 1) /\ policy = "srtf"
    BY <1>1, <1>4, <1>7, TurnsAreProper
  <2>3. policy # "sjf" /\ policy \notin {"sjf", "hrrn"}
    BY <2>2
  <2> DEFINE d == remaining[p] = 1
  <2>4. ProperTurn(p, 1, d) /\ d = (remaining[p] = 1)
    BY <2>2
  <2> HIDE DEF d
  <2> QED BY <1>1, <1>4, <2>1, <2>3, <2>4, ProperTurnsKeep
<1>8. CASE S!hrrn
  <2>1. state = "runs"
    BY <1>8 DEF S!hrrn, S!Ready
  <2>2. PICK p : ProperTurn(p, burst_time[p], TRUE) /\ policy = "hrrn"
    BY <1>1, <1>4, <1>8, TurnsAreProper
  <2>3. policy # "srtf" /\ policy # "sjf"
    BY <2>2
  <2> QED BY <1>1, <1>4, <2>1, <2>2, <2>3, ProperTurnsKeep
<1>9. CASE S!rr
  <2>1. state = "runs"
    BY <1>9 DEF S!rr, S!Ready
  <2>2. ASSUME ~UNCHANGED S!schedulerVars PROVE CountInv' /\ PolicyInv'
    <3>1. PICK p, u : ProperTurn(p, u, remaining[p] = u) /\ policy = "rr"
      BY <1>1, <1>4, <1>9, <2>2, TurnsAreProper
    <3>2. policy # "srtf" /\ policy # "sjf" /\ policy \notin {"sjf", "hrrn"}
      BY <3>1
    <3> DEFINE d == remaining[p] = u
    <3>3. ProperTurn(p, u, d)
      BY <3>1
    <3> HIDE DEF d
    <3> QED BY <1>1, <1>4, <2>1, <3>2, <3>3, ProperTurnsKeep
  <2> QED BY <1>5, <2>2
<1>10. CASE S!srtf_idle
  BY <1>1, <1>4, <1>10, IdleUnit
<1>11. CASE S!hrrn_no_candidate
  <2>1. policy = "hrrn" /\ S!time < S!sum_burst_time /\ S!Arrived(S!time) = {}
    BY <1>11 DEF S!hrrn_no_candidate, S!Ready
  <2>2. S!Gapless
    BY <1>4, <2>1 DEF Pre
  <2> QED BY <1>1, <1>4, <2>1, <2>2, SomebodyReady
<1>12. CASE S!hrrn_divides_by_zero
  <2>1. UNCHANGED <<S!inputs, remaining, completed, waiting_time, chart>> /\ state' # "done"
    BY <1>12 DEF S!hrrn_divides_by_zero
  <2> QED BY <1>1, <1>4, <2>1, OnlyState
<1>13. CASE S!Finish
  <2>1. UNCHANGED <<S!inputs, remaining, completed, waiting_time, chart>> /\ S!Finished
    BY <1>13 DEF S!Finish
  <2> QED BY <1>1, <1>4, <2>1, OnlyState
<1> QED BY <1>5, <1>6, <1>7, <1>8, <1>9, <1>10, <1>11, <1>12, <1>13 DEF S!Next

(* The invariant gives the types and what the tables say.                  *)
LEMMA SchedulersKeep == ASSUME SchedulersInv PROVE S!TypeOK /\ S!TimesAddUp
<1>1. S!TypeOK
  BY DEF SchedulersInv
<1>2. ASSUME policy = "hrrn" => S!Gapless
      PROVE  /\ \A p \in completed : burst_time[p] > 0 =>
                  /\ S!Cardinality(S!Units(p)) = burst_time[p]
                  /\ \A t \in S!Units(p) : t > arrival_time[p]
                  /\ waiting_time[p] =
                       S!Cardinality({t \in arrival_time[p] + 1 .. S!LastUnit(p) : chart[t] # p})
             /\ state = "done" => \A p \in S!Ids : burst_time[p] > 0 => p \in completed
  <2>1. CountInv /\ PolicyInv
    BY <1>2 DEF SchedulersInv, Pre
  <2>2. ASSUME NEW p \in completed, burst_time[p] > 0
        PROVE  /\ S!Cardinality(S!Units(p)) = burst_time[p]
               /\ \A t \in S!Units(p) : t > arrival_time[p]
               /\ waiting_time[p] =
                    S!Cardinality({t \in arrival_time[p] + 1 .. S!LastUnit(p) : chart[t] # p})
    BY <1>1, <2>1, <2>2, CountsSay, SchedulersIds
  <2> QED BY <2>1, <2>2 DEF PolicyInv
<1> QED BY <1>1, <1>2 DEF S!TimesAddUp

-----------------------------------------------------------------------------
(***************************************************************************)
(* Sums of naturals.                                                       *)
(***************************************************************************)
(* A sum of naturals is one.                                               *)
LEMMA TotalNat ==
  ASSUME NEW f, NEW D, IsFiniteSet(D), \A x \in D : f[x] \in Nat
  PROVE  Total(f, D) \in Nat /\ Summable(f, D) /\ \A x \in D : f[x] <= Total(f, D)
<1>1. Total(f, {}) = 0
  BY TotalEmpty
<1>2. Summable(f, D)
  BY DEF Summable
<1>3. Total(f, D) \in Int
  BY <1>2, TotalAgrees
<1>4. ASSUME NEW z \in D PROVE f[z] <= Total(f, D) /\ 0 <= Total(f, D)
  <2>1. z \notin {} /\ {} \subseteq D
    OBVIOUS
  <2>2. Total(f, {}) + f[z] <= Total(f, D)
    BY ONLY <2>1, TotalGrows, IsFiniteSet(D), \A x \in D : f[x] \in Nat, z \in D
  <2>3. f[z] \in Nat
    OBVIOUS
  <2> QED BY ONLY <1>1, <1>3, <2>2, <2>3
<1>5. CASE D = {}
  BY <1>1, <1>2, <1>5
<1>6. CASE D # {}
  <2>1. 0 <= Total(f, D)
    BY <1>4, <1>6
  <2> QED BY <1>2, <1>3, <1>4, <2>1
<1> QED BY <1>5, <1>6

(* A sum with smaller terms, and with others that are 0, is not larger.     *)
LEMMA TotalBelow ==
  ASSUME NEW f, NEW E, IsFiniteSet(E), \A x \in E : f[x] \in Nat,
         NEW g, NEW F, IsFiniteSet(F), \A x \in F : g[x] \in Nat,
         \A x \in E : f[x] = 0 \/ (x \in F /\ f[x] <= g[x])
  PROVE  Total(f, E) <= Total(g, F)
<1> DEFINE Good == {U \in SUBSET E : \A W \in SUBSET F :
                      (\A x \in U : f[x] = 0 \/ (x \in W /\ f[x] <= g[x]))
                        => Total(f, U) <= Total(g, W)}
<1>1. ASSUME NEW U \in SUBSET E PROVE IsFiniteSet(U) /\ Total(f, U) \in Nat /\ Summable(f, U)
  <2>1. IsFiniteSet(U) /\ \A x \in U : f[x] \in Nat
    BY FS_Subset
  <2> QED BY <2>1, TotalNat
<1>2. ASSUME NEW W \in SUBSET F PROVE IsFiniteSet(W) /\ Total(g, W) \in Nat /\ Summable(g, W)
  <2>1. IsFiniteSet(W) /\ \A x \in W : g[x] \in Nat
    BY FS_Subset
  <2> QED BY <2>1, TotalNat
<1>3. {} \in Good
  <2>1. ASSUME NEW W \in SUBSET F PROVE Total(f, {}) <= Total(g, W)
    BY <1>2, TotalEmpty
  <2> QED BY <2>1
<1>4. ASSUME NEW U \in SUBSET E, NEW x \in U, U \ {x} \in Good PROVE U \in Good
  <2>1. SUFFICES ASSUME NEW W \in SUBSET F, \A y \in U : f[y] = 0 \/ (y \in W /\ f[y] <= g[y])
                 PROVE  Total(f, U) <= Total(g, W)
    OBVIOUS
  <2> DEFINE V == U \ {x}
  <2>2. Total(f, U) = f[x] + Total(f, V) /\ V \in SUBSET E
    BY <1>1, TotalWithout
  <2>3. f[x] \in Nat /\ Total(f, V) \in Nat
    BY <1>1, <2>2
  <2>4. CASE f[x] = 0
    <3>1. Total(f, V) <= Total(g, W)
      BY <1>4, <2>1
    <3> HIDE DEF V
    <3> QED BY <2>2, <2>3, <2>4, <3>1
  <2>5. CASE f[x] # 0
    <3> DEFINE Z == W \ {x}
    <3>1. x \in W /\ f[x] <= g[x] /\ Z \in SUBSET F /\ g[x] \in Nat
      BY <2>1, <2>5
    <3>2. Total(g, W) = g[x] + Total(g, Z)
      BY <1>2, <3>1, TotalWithout
    <3>3. \A y \in V : f[y] = 0 \/ (y \in Z /\ f[y] <= g[y])
      BY <2>1
    <3>4. Total(f, V) <= Total(g, Z)
      BY <1>4, <3>1, <3>3
    <3>5. Total(g, Z) \in Nat
      BY <1>2, <3>1
    <3> HIDE DEF V, Z
    <3> QED BY ONLY <2>2, <2>3, <3>1, <3>2, <3>4, <3>5
  <2> QED BY <2>4, <2>5
<1>5. E \in SUBSET E /\ F \in SUBSET F
  OBVIOUS
<1>6. E \in Good
  <2> HIDE DEF Good
  <2> QED BY <1>3, <1>4, <1>5, FiniteInduction
<1> QED BY <1>5, <1>6

(* Adding 1 on T adds the size of T.                                       *)
LEMMA TotalAdds ==
  ASSUME NEW f, NEW f2, NEW D, IsFiniteSet(D), \A x \in D : f[x] \in Nat,
         NEW T, \A x \in D : f2[x] = IF x \in T THEN f[x] + 1 ELSE f[x]
  PROVE  Total(f2, D) = Total(f, D) + Cardinality(D \intersect T)
<1> DEFINE Good == {U \in SUBSET D : Total(f2, U) = Total(f, U) + Cardinality(U \intersect T)}
<1>1. ASSUME NEW U \in SUBSET D
      PROVE  /\ Total(f, U) \in Nat /\ Summable(f, U) /\ Summable(f2, U) /\ Total(f2, U) \in Nat
             /\ IsFiniteSet(U \intersect T) /\ Cardinality(U \intersect T) \in Nat
  <2>1. IsFiniteSet(U) /\ (\A x \in U : f[x] \in Nat) /\ \A x \in U : f2[x] \in Nat
    BY FS_Subset
  <2>2. IsFiniteSet(U \intersect T)
    BY <2>1, FS_Intersection
  <2> QED BY <2>1, <2>2, TotalNat, FS_CardinalityType
<1>2. {} \in Good
  <2>1. {} \intersect T = {} /\ Cardinality({}) = 0
    BY FS_EmptySet
  <2>2. Total(f, {}) = 0 /\ Total(f2, {}) = 0
    BY TotalEmpty
  <2> QED BY <2>1, <2>2
<1>3. ASSUME NEW U \in SUBSET D, NEW x \in U, U \ {x} \in Good PROVE U \in Good
  <2> DEFINE V == U \ {x}
  <2>1. V \in SUBSET D /\ Total(f2, V) = Total(f, V) + Cardinality(V \intersect T)
    BY <1>3
  <2>a. Summable(f, U) /\ Summable(f2, U)
    BY <1>1
  <2>b. Total(f, U) = f[x] + Total(f, V)
    BY <2>a, TotalWithout
  <2>c. Total(f2, U) = f2[x] + Total(f2, V)
    BY <2>a, TotalWithout
  <2>2. Total(f, U) = f[x] + Total(f, V) /\ Total(f2, U) = f2[x] + Total(f2, V)
    BY <2>b, <2>c
  <2>3. f[x] \in Nat /\ Total(f, V) \in Nat /\ Cardinality(V \intersect T) \in Nat
    BY <1>1, <2>1
  <2>4. CASE x \in T
    <3>1. Cardinality(U \intersect T) = Cardinality(V \intersect T) + 1
      <4>1. U \intersect T = (V \intersect T) \union {x} /\ x \notin V \intersect T
        BY <2>4
      <4>2. IsFiniteSet(V \intersect T)
        BY <1>1, <2>1
      <4> HIDE DEF V
      <4> QED BY <4>1, <4>2, FS_AddElement
    <3>2. f2[x] = f[x] + 1
      BY <2>4
    <3> HIDE DEF V
    <3>3. Total(f2, U) = Total(f, U) + Cardinality(U \intersect T)
      BY ONLY <2>1, <2>2, <2>3, <3>1, <3>2
    <3> QED BY <3>3
  <2>5. CASE x \notin T
    <3>1. U \intersect T = V \intersect T /\ f2[x] = f[x]
      BY <2>5
    <3>2. Cardinality(U \intersect T) = Cardinality(V \intersect T)
      BY <3>1
    <3> HIDE DEF V
    <3>3. Total(f2, U) = Total(f, U) + Cardinality(V \intersect T)
      BY ONLY <2>1, <2>2, <2>3, <3>1
    <3> QED BY <3>2, <3>3
  <2> QED BY <2>4, <2>5
<1>4. D \in Good
  <2> HIDE DEF Good
  <2>1. D \in SUBSET D
    OBVIOUS
  <2> QED BY <1>2, <1>3, <2>1, FiniteInduction
<1> QED BY <1>4

(* If at every time no more of the f[x] are still to come than of the g[x], *)
(* the f[x] are no more in sum.                                            *)
LEMMA TotalByTails ==
  ASSUME NEW D, IsFiniteSet(D), NEW f \in [D -> Nat], NEW g \in [D -> Nat],
         \A t \in Nat : Cardinality({x \in D : f[x] > t}) <= Cardinality({x \in D : g[x] > t})
  PROVE  Total(f, D) <= Total(g, D)
<1> DEFINE Cut(k, t) == [x \in D |-> IF k[x] > t THEN t ELSE k[x]]
           Late(k, t) == {x \in D : k[x] > t}
           Good == {t \in Nat : Total(Cut(f, t), D) <= Total(Cut(g, t), D)}
<1>1. ASSUME NEW k \in [D -> Nat], NEW t \in Nat
      PROVE  /\ Total(Cut(k, t), D) \in Nat /\ Total(Cut(k, t + 1), D) \in Nat
             /\ Total(Cut(k, t + 1), D) = Total(Cut(k, t), D) + Cardinality(Late(k, t))
             /\ Cardinality(Late(k, t)) \in Nat
  <2> DEFINE f1 == Cut(k, t)
             f2 == Cut(k, t + 1)
             T == Late(k, t)
  <2>1. (\A x \in D : f1[x] \in Nat) /\ (\A x \in D : f2[x] \in Nat)
    OBVIOUS
  <2>2. \A x \in D : f2[x] = IF x \in T THEN f1[x] + 1 ELSE f1[x]
    <3>1. ASSUME NEW x \in D PROVE f2[x] = IF x \in T THEN f1[x] + 1 ELSE f1[x]
      <4>1. k[x] \in Nat
        OBVIOUS
      <4>2. f1[x] = (IF k[x] > t THEN t ELSE k[x]) /\ f2[x] = (IF k[x] > t + 1 THEN t + 1 ELSE k[x])
        OBVIOUS
      <4>3. x \in T <=> k[x] > t
        OBVIOUS
      <4> HIDE DEF f1, f2, T
      <4> QED BY <4>1, <4>2, <4>3
    <3> QED BY <3>1
  <2>3. D \intersect T = T
    OBVIOUS
  <2>4. IsFiniteSet(T)
    BY FS_Subset
  <2>5. Cardinality(T) \in Nat
    BY <2>4, FS_CardinalityType
  <2> HIDE DEF f1, f2, T
  <2>6. Total(f2, D) = Total(f1, D) + Cardinality(D \intersect T)
    BY <2>1, <2>2, TotalAdds
  <2>7. Total(f1, D) \in Nat /\ Total(f2, D) \in Nat
    BY <2>1, TotalNat
  <2> QED BY <2>3, <2>5, <2>6, <2>7 DEF f1, f2, T
<1>2. 0 \in Good
  <2>1. ASSUME NEW k \in [D -> Nat] PROVE Cut(k, 0) = [x \in D |-> 0]
    OBVIOUS
  <2>2. Cut(f, 0) = Cut(g, 0) /\ Total(Cut(f, 0), D) \in Nat
    BY <1>1, <2>1
  <2>3. Total(Cut(f, 0), D) <= Total(Cut(g, 0), D)
    <3> HIDE DEF Cut
    <3> QED BY <2>2
  <2> HIDE DEF Cut
  <2> QED BY <2>3
<1>3. ASSUME NEW t \in Nat, t \in Good PROVE t + 1 \in Good
  <2>1. Cardinality(Late(f, t)) <= Cardinality(Late(g, t))
    OBVIOUS
  <2> HIDE DEF Cut, Late
  <2>2. Total(Cut(f, t), D) <= Total(Cut(g, t), D)
    BY <1>3
  <2>3. Total(Cut(f, t + 1), D) <= Total(Cut(g, t + 1), D)
    <3>1. /\ Total(Cut(f, t), D) \in Nat
          /\ Total(Cut(f, t + 1), D) = Total(Cut(f, t), D) + Cardinality(Late(f, t))
          /\ Cardinality(Late(f, t)) \in Nat
      BY <1>1
    <3>2. /\ Total(Cut(g, t), D) \in Nat
          /\ Total(Cut(g, t + 1), D) = Total(Cut(g, t), D) + Cardinality(Late(g, t))
          /\ Cardinality(Late(g, t)) \in Nat
      BY <1>1
    <3> QED BY ONLY <2>1, <2>2, <3>1, <3>2
  <2> QED BY <2>3
<1> DEFINE m == Total(f, D) + Total(g, D)
<1>4. m \in Nat /\ \A x \in D : f[x] <= m /\ g[x] <= m
  <2>1. \A x \in D : f[x] \in Nat /\ g[x] \in Nat
    OBVIOUS
  <2>2. Total(f, D) \in Nat /\ Total(g, D) \in Nat /\ \A x \in D : f[x] <= Total(f, D) /\ g[x] <= Total(g, D)
    BY <2>1, TotalNat
  <2>3. ASSUME NEW x \in D PROVE f[x] <= m /\ g[x] <= m
    <3>1. f[x] \in Nat /\ g[x] \in Nat /\ f[x] <= Total(f, D) /\ g[x] <= Total(g, D)
      BY <2>1, <2>2
    <3> QED BY ONLY <2>2, <3>1
  <2> QED BY <2>2, <2>3
<1>5. m \in Good
  <2> HIDE DEF Good, m
  <2> QED BY <1>2, <1>3, <1>4, NumberInduction
<1> HIDE DEF m
<1>6. Cut(f, m) = f /\ Cut(g, m) = g
  <2>1. ASSUME NEW x \in D PROVE Cut(f, m)[x] = f[x] /\ Cut(g, m)[x] = g[x]
    BY <1>4
  <2> QED BY <2>1
<1> HIDE DEF Cut
<1> QED BY <1>5, <1>6

-----------------------------------------------------------------------------
(***************************************************************************)
(* Why the shortest first is best: two courses of the same processes.      *)
(***************************************************************************)
(***************************************************************************)
(* A course of processes D that arrive at a: rem[t][p] is what p still     *)
(* needs at time t, and run[t], if it is in D, has the CPU in the unit     *)
(* that begins at t.                                                       *)
(***************************************************************************)
Course(D, a, rem, run) ==
  /\ IsFiniteSet(D) /\ a \in [D -> Nat] /\ rem \in [Nat -> [D -> Nat]]
  /\ \A t \in Nat : \A p \in D : rem[t + 1][p] = IF p = run[t] THEN rem[t][p] - 1 ELSE rem[t][p]
  /\ \A t \in Nat : run[t] \in D => a[run[t]] <= t

(* One that always prefers who has arrived and needs least.                *)
PrefersShortest(D, a, rem, run) ==
  \A t \in Nat : \A p \in D :
     a[p] <= t /\ rem[t][p] > 0 => run[t] \in D /\ rem[t][run[t]] <= rem[t][p]

(* rem has led all the way to time t: whichever processes are left out of   *)
(* the other course, as many can be left out of this one so that the rest  *)
(* does not need more.                                                     *)
Leads(D, a, rem, other, t) ==
  \A Y \in SUBSET D : \E X \in SUBSET D :
     /\ Cardinality(X) <= Cardinality(Y)
     /\ \A p \in D : a[p] > t => (p \in X <=> p \in Y)
     /\ Total(rem[t], D \ X) <= Total(other[t], D \ Y)

(* A process that has not arrived has not run.                             *)
LEMMA Untouched ==
  ASSUME NEW D, NEW a, NEW rem, NEW run, Course(D, a, rem, run)
  PROVE  \A t \in Nat : \A p \in D : a[p] >= t => rem[t][p] = rem[0][p]
<1> USE DEF Course
<1> DEFINE Good == {t \in Nat : \A p \in D : a[p] >= t => rem[t][p] = rem[0][p]}
<1>1. 0 \in Good
  OBVIOUS
<1>2. ASSUME NEW t \in Nat, t \in Good PROVE t + 1 \in Good
  <2>1. ASSUME NEW p \in D, a[p] >= t + 1 PROVE rem[t + 1][p] = rem[0][p]
    <3>1. a[p] \in Nat /\ a[p] >= t /\ ~(a[p] <= t)
      BY <2>1
    <3>2. p # run[t]
      BY <3>1
    <3>3. rem[t + 1][p] = rem[t][p]
      BY <3>2
    <3> QED BY <1>2, <3>1, <3>3
  <2> QED BY <2>1
<1>3. \A t \in Nat : t \in Good
  <2> HIDE DEF Good
  <2> QED BY <1>1, <1>2, NumberInduction
<1> QED BY <1>3

(* A unit of time takes one from the sum over those with who runs in it.    *)
LEMMA UnitTakesOne ==
  ASSUME NEW D, NEW a, NEW rem, NEW run, Course(D, a, rem, run), NEW t \in Nat, NEW T \in SUBSET D
  PROVE  /\ Total(rem[t], T) \in Nat /\ Total(rem[t + 1], T) \in Nat
         /\ Total(rem[t + 1], T) = Total(rem[t], T) - (IF run[t] \in T THEN 1 ELSE 0)
<1> DEFINE f == rem[t]
           f2 == rem[t + 1]
           r == run[t]
<1>1. /\ IsFiniteSet(T) /\ (\A p \in T : f[p] \in Nat) /\ (\A p \in T : f2[p] \in Nat)
      /\ \A p \in T : f2[p] = IF p = r THEN f[p] - 1 ELSE f[p]
  <2>1. IsFiniteSet(D) /\ f \in [D -> Nat] /\ f2 \in [D -> Nat]
    BY DEF Course
  <2>2. IsFiniteSet(T)
    BY <2>1, FS_Subset
  <2>3. \A p \in D : f2[p] = IF p = r THEN f[p] - 1 ELSE f[p]
    BY DEF Course
  <2> HIDE DEF f, f2, r
  <2> QED BY <2>1, <2>2, <2>3
<1> HIDE DEF f, f2, r
<1>2. Total(f, T) \in Nat /\ Summable(f, T) /\ Total(f2, T) \in Nat /\ Summable(f2, T)
  BY <1>1, TotalNat
<1>3. CASE r \in T
  <2>1. \A p \in T : p # r => f[p] = f2[p]
    BY <1>1
  <2>2. Total(f2, T) = Total(f, T) + f2[r] - f[r]
    BY <1>2, <1>3, <2>1, TotalChanges
  <2>3. f[r] \in Nat /\ f2[r] = f[r] - 1
    BY <1>1, <1>3
  <2>4. Total(f2, T) = Total(f, T) - 1
    BY ONLY <1>2, <2>2, <2>3
  <2> QED BY <1>2, <1>3, <2>4 DEF f, f2, r
<1>4. CASE r \notin T
  <2>1. \A p \in T : f[p] = f2[p]
    BY <1>1, <1>4
  <2>2. Total(f2, T) = Total(f, T)
    BY <1>2, <2>1, TotalAgrees
  <2>3. Total(f2, T) = Total(f, T) - 0
    BY <1>2, <2>2
  <2> QED BY <1>2, <1>4, <2>3 DEF f, f2, r
<1> QED BY <1>3, <1>4

(* What is left over is a number.                                          *)
LEMMA NeedIsNumber ==
  ASSUME NEW D, NEW a, NEW rem, NEW run, Course(D, a, rem, run), NEW t \in Nat, NEW T \in SUBSET D
  PROVE  Total(rem[t], T) \in Nat
BY UnitTakesOne

(* The lead is kept through a unit of time: if the one that runs is left    *)
(* out, it changes places with one that is not, and needs no less.         *)
LEMMA LeadStays ==
  ASSUME NEW D, NEW a,
         NEW rem, NEW run, Course(D, a, rem, run), PrefersShortest(D, a, rem, run),
         NEW other, NEW turn, Course(D, a, other, turn), rem[0] = other[0],
         NEW t \in Nat, Leads(D, a, rem, other, t)
  PROVE  Leads(D, a, rem, other, t + 1)
<1> SUFFICES ASSUME NEW Y \in SUBSET D
             PROVE  \E X \in SUBSET D :
                       /\ Cardinality(X) <= Cardinality(Y)
                       /\ \A p \in D : a[p] > t + 1 => (p \in X <=> p \in Y)
                       /\ Total(rem[t + 1], D \ X) <= Total(other[t + 1], D \ Y)
  BY DEF Leads
<1>1. PICK X \in SUBSET D :
         /\ Cardinality(X) <= Cardinality(Y)
         /\ \A p \in D : a[p] > t => (p \in X <=> p \in Y)
         /\ Total(rem[t], D \ X) <= Total(other[t], D \ Y)
  BY DEF Leads
<1>2. \A p \in D : /\ a[p] \in Nat /\ rem[t][p] \in Nat /\ rem[t + 1][p] \in Nat
                   /\ other[t][p] \in Nat /\ other[t + 1][p] \in Nat
                   /\ a[p] > t + 1 => a[p] > t
  <2>1. t + 1 \in Nat
    OBVIOUS
  <2> QED BY <2>1 DEF Course
<1>3. IsFiniteSet(D)
  BY DEF Course
<1> DEFINE s == run[t]
<1>4. ASSUME NEW Z \in SUBSET D, s \in D \ Z, Cardinality(Z) <= Cardinality(Y),
             \A p \in D : a[p] > t => (p \in Z <=> p \in Y),
             Total(rem[t], D \ Z) <= Total(other[t], D \ Y)
      PROVE  /\ Cardinality(Z) <= Cardinality(Y)
             /\ \A p \in D : a[p] > t + 1 => (p \in Z <=> p \in Y)
             /\ Total(rem[t + 1], D \ Z) <= Total(other[t + 1], D \ Y)
  <2>1. D \ Z \in SUBSET D /\ D \ Y \in SUBSET D
    OBVIOUS
  <2>2. Total(rem[t + 1], D \ Z) = Total(rem[t], D \ Z) - 1 /\ Total(rem[t], D \ Z) \in Nat
    BY <1>4, <2>1, UnitTakesOne
  <2>3. /\ Total(other[t + 1], D \ Y) = Total(other[t], D \ Y) - (IF turn[t] \in D \ Y THEN 1 ELSE 0)
        /\ Total(other[t], D \ Y) \in Nat
    BY <2>1, UnitTakesOne
  <2>4. Total(other[t + 1], D \ Y) >= Total(other[t], D \ Y) - 1
    BY <2>3
  <2>5. Total(other[t + 1], D \ Y) \in Nat
    BY <2>1, UnitTakesOne
  <2>6. Total(rem[t + 1], D \ Z) <= Total(other[t + 1], D \ Y)
    BY ONLY <1>4, <2>2, <2>3, <2>4, <2>5
  <2> QED BY <1>2, <1>4, <2>6
<1>5. CASE s \in D \ X
  BY <1>1, <1>4, <1>5
<1>6. CASE s \in X /\ \E r \in D \ X : a[r] <= t /\ rem[t][r] > 0
  <2>1. PICK r \in D \ X : a[r] <= t /\ rem[t][r] > 0
    BY <1>6
  <2> DEFINE U == D \ X
             V == U \ {r}
             W == V \union {s}
             Z == D \ W
  <2>2. Z \in SUBSET D /\ s \in D \ Z /\ D \ Z = W /\ Z = (X \ {s}) \union {r} /\ r \notin X \ {s} /\ s \in X
        /\ U \in SUBSET D /\ W \in SUBSET D /\ r \in U /\ s \in W /\ W \ {s} = V
    BY <1>6
  <2>3. Cardinality(Z) = Cardinality(X) /\ Cardinality(X) \in Nat /\ Cardinality(Y) \in Nat
    <3>1. IsFiniteSet(X) /\ IsFiniteSet(Y)
      BY <1>3, FS_Subset
    <3>2. IsFiniteSet(X \ {s}) /\ Cardinality(X \ {s}) = Cardinality(X) - 1
      BY <2>2, <3>1, FS_RemoveElement
    <3>3. Cardinality((X \ {s}) \union {r}) = Cardinality(X \ {s}) + 1
      BY <2>2, <3>2, FS_AddElement
    <3>4. Cardinality(X) \in Nat /\ Cardinality(Y) \in Nat
      BY <3>1, FS_CardinalityType
    <3>5. Cardinality(Z) = Cardinality((X \ {s}) \union {r})
      BY <2>2
    <3> HIDE DEF Z
    <3> QED BY <3>2, <3>3, <3>4, <3>5
  <2>4. a[s] <= t /\ rem[t][s] <= rem[t][r]
    BY <1>6, <2>1 DEF Course, PrefersShortest
  <2>5. \A p \in D : a[p] > t => (p \in Z <=> p \in Y)
    <3>1. ASSUME NEW p \in D, a[p] > t PROVE p \in Z <=> p \in Y
      <4>1. p # s /\ p # r
        BY <1>2, <2>1, <2>4, <3>1
      <4>2. p \in Z <=> p \in X
        BY <2>2, <4>1
      <4> QED BY <1>1, <3>1, <4>2
    <3> QED BY <3>1
  <2>6. Total(rem[t], W) <= Total(rem[t], U)
    <3> DEFINE f == rem[t]
    <3>1. Summable(f, U) /\ Summable(f, W) /\ Total(f, U) \in Nat /\ Total(f, W) \in Nat
      <4>1. IsFiniteSet(U) /\ IsFiniteSet(W) /\ (\A p \in U : f[p] \in Nat) /\ \A p \in W : f[p] \in Nat
        <5>1. IsFiniteSet(U) /\ IsFiniteSet(W)
          BY <1>3, <2>2, FS_Subset
        <5> HIDE DEF U, W
        <5> QED BY <1>2, <2>2, <5>1
      <4> HIDE DEF U, W, f
      <4> QED BY <4>1, TotalNat
    <3>2. f[r] \in Nat /\ f[s] \in Nat /\ f[s] <= f[r]
      BY <1>2, <1>6, <2>1, <2>4
    <3> HIDE DEF f, U, V, W
    <3>3. Total(f, U) = f[r] + Total(f, U \ {r})
      BY <2>2, <3>1, TotalWithout
    <3>4. Total(f, W) = f[s] + Total(f, W \ {s})
      BY <2>2, <3>1, TotalWithout
    <3>5. U \ {r} = V /\ W \ {s} = V
      BY <2>2 DEF V
    <3>6. Total(f, V) \in Int
      <4>1. V \in SUBSET U
        BY DEF V
      <4>2. IsFiniteSet(V) /\ \A p \in V : f[p] \in Int
        BY <3>1, <4>1, FS_Subset DEF Summable
      <4>3. Summable(f, V)
        BY <4>2 DEF Summable
      <4> QED BY <4>3, TotalAgrees
    <3>7. Total(f, W) <= Total(f, U)
      <4>1. Total(f, U) = f[r] + Total(f, V) /\ Total(f, W) = f[s] + Total(f, V)
        BY <3>3, <3>4, <3>5
      <4> QED BY ONLY <3>2, <3>6, <4>1
    <3> QED BY <3>7 DEF f
  <2>7. Total(rem[t], D \ Z) <= Total(other[t], D \ Y)
    <3>1. Total(rem[t], W) \in Nat /\ Total(rem[t], U) \in Nat /\ Total(other[t], D \ Y) \in Nat
      <4>1. D \ Y \in SUBSET D
        OBVIOUS
      <4> HIDE DEF U, V, W, Z, s
      <4>2. Total(rem[t], W) \in Nat
        BY <2>2, NeedIsNumber
      <4>3. Total(rem[t], U) \in Nat
        BY <2>2, NeedIsNumber
      <4>4. Total(other[t], D \ Y) \in Nat
        BY <4>1, NeedIsNumber
      <4> QED BY <4>2, <4>3, <4>4
    <3>2. Total(rem[t], U) <= Total(other[t], D \ Y)
      BY <1>1
    <3>3. D \ Z = W
      BY <2>2
    <3> HIDE DEF U, W, Z
    <3>4. Total(rem[t], W) <= Total(other[t], D \ Y)
      BY ONLY <2>6, <3>1, <3>2
    <3> QED BY <3>3, <3>4
  <2> HIDE DEF Z
  <2>8. Cardinality(Z) <= Cardinality(Y)
    BY <1>1, <2>3
  <2> QED BY <1>4, <2>2, <2>5, <2>7, <2>8
<1>7. CASE \A r \in D \ X : a[r] <= t => rem[t][r] = 0
  <2> DEFINE f == rem[t + 1]
             g == other[t + 1]
             E == D \ X
             F == D \ Y
  <2>1. ASSUME NEW p \in E PROVE f[p] = 0 \/ (p \in F /\ f[p] <= g[p])
    <3>1. CASE a[p] <= t
      <4>1. rem[t][p] = 0
        BY <1>7, <3>1
      <4>2. rem[t + 1][p] = IF p = run[t] THEN rem[t][p] - 1 ELSE rem[t][p]
        BY DEF Course
      <4>3. rem[t + 1][p] \in Nat
        BY <1>2
      <4> QED BY <4>1, <4>2, <4>3
    <3>2. CASE a[p] > t
      <4>1. p \in F /\ a[p] \in Nat /\ t + 1 \in Nat
        BY <1>1, <1>2, <3>2
      <4>2. a[p] >= t + 1
        BY <3>2, <4>1
      <4>3. rem[t + 1][p] = rem[0][p] /\ other[t + 1][p] = other[0][p]
        BY <4>1, <4>2, Untouched
      <4>4. f[p] = g[p] /\ g[p] \in Nat
        BY <1>2, <4>3
      <4> HIDE DEF f, g
      <4> QED BY <4>1, <4>4
    <3>3. a[p] \in Nat
      BY <1>2
    <3> QED BY <3>1, <3>2, <3>3
  <2>2. IsFiniteSet(E) /\ IsFiniteSet(F) /\ (\A p \in E : f[p] \in Nat) /\ (\A p \in F : g[p] \in Nat)
    BY <1>2, <1>3, FS_Subset
  <2>3. Total(f, E) <= Total(g, F)
    <3> HIDE DEF f, g, E, F
    <3> QED BY <2>1, <2>2, TotalBelow
  <2> QED BY <1>1, <1>2, <2>3
<1>8. ASSUME ~(s \in D \ X), ~(\A r \in D \ X : a[r] <= t => rem[t][r] = 0)
      PROVE  s \in X /\ \E r \in D \ X : a[r] <= t /\ rem[t][r] > 0
  <2>1. PICK r \in D \ X : a[r] <= t /\ rem[t][r] # 0
    BY <1>8
  <2>2. rem[t][r] > 0
    BY <1>2, <2>1
  <2>3. s \in D
    BY <2>1, <2>2 DEF PrefersShortest
  <2> QED BY <1>8, <2>1, <2>2, <2>3
<1> QED BY <1>5, <1>6, <1>7, <1>8

(* So who prefers the shortest never has more processes left.              *)
LEMMA FewerAreLeft ==
  ASSUME NEW D, NEW a,
         NEW rem, NEW run, Course(D, a, rem, run), PrefersShortest(D, a, rem, run),
         NEW other, NEW turn, Course(D, a, other, turn), rem[0] = other[0]
  PROVE  \A t \in Nat : Cardinality({p \in D : rem[t][p] > 0}) <= Cardinality({p \in D : other[t][p] > 0})
<1> DEFINE Good == {t \in Nat : Leads(D, a, rem, other, t)}
<1>1. 0 \in Good
  <2>1. ASSUME NEW Y \in SUBSET D
        PROVE  \E X \in SUBSET D :
                 /\ Cardinality(X) <= Cardinality(Y)
                 /\ \A p \in D : a[p] > 0 => (p \in X <=> p \in Y)
                 /\ Total(rem[0], D \ X) <= Total(other[0], D \ Y)
    <3>1. IsFiniteSet(Y)
      BY FS_Subset DEF Course
    <3>2. Cardinality(Y) \in Nat
      BY <3>1, FS_CardinalityType
    <3>3. D \ Y \in SUBSET D /\ 0 \in Nat
      OBVIOUS
    <3>4. Total(rem[0], D \ Y) \in Nat
      BY <3>3, NeedIsNumber
    <3>5. Y \in SUBSET D /\ Cardinality(Y) <= Cardinality(Y) /\ Total(rem[0], D \ Y) <= Total(other[0], D \ Y)
      BY ONLY <3>2, <3>4, rem[0] = other[0]
    <3>6. Y \in SUBSET D
      OBVIOUS
    <3> QED BY <3>5, <3>6
  <2> QED BY <2>1 DEF Leads
<1>2. \A t \in Nat : t \in Good
  <2>1. ASSUME NEW t \in Nat, t \in Good PROVE t + 1 \in Good
    BY <2>1, LeadStays
  <2> HIDE DEF Good
  <2> QED BY <1>1, <2>1, NumberInduction
<1> SUFFICES ASSUME NEW t \in Nat
             PROVE  Cardinality({p \in D : rem[t][p] > 0}) <= Cardinality({p \in D : other[t][p] > 0})
  OBVIOUS
<1> DEFINE Y == {p \in D : other[t][p] > 0}
           L == {p \in D : rem[t][p] > 0}
<1>3. PICK X \in SUBSET D : Cardinality(X) <= Cardinality(Y) /\ Total(rem[t], D \ X) <= Total(other[t], D \ Y)
  <2>1. Y \in SUBSET D /\ Leads(D, a, rem, other, t)
    BY <1>2
  <2> HIDE DEF Y
  <2> QED BY <2>1 DEF Leads
<1>4. IsFiniteSet(D) /\ rem[t] \in [D -> Nat] /\ other[t] \in [D -> Nat]
  BY DEF Course
<1>5. Total(other[t], D \ Y) <= 0
  <2> DEFINE f == other[t]
             E == D \ Y
  <2>1. IsFiniteSet(E) /\ (\A p \in E : f[p] \in Nat) /\ \A p \in E : f[p] = 0
    BY <1>4, FS_Subset
  <2>2. IsFiniteSet({})
    BY FS_EmptySet
  <2> HIDE DEF f, E
  <2>3. Total(f, E) <= Total(f, {})
    BY <2>1, <2>2, TotalBelow
  <2> QED BY <2>3, TotalEmpty DEF f, E
<1>6. ASSUME NEW p \in D \ X PROVE ~(rem[t][p] > 0)
  <2> DEFINE f == rem[t]
             E == D \ X
  <2>1. IsFiniteSet(E) /\ \A x \in E : f[x] \in Nat
    BY <1>4, FS_Subset
  <2>2. Total(other[t], D \ Y) \in Nat
    <3>1. D \ Y \in SUBSET D
      OBVIOUS
    <3> HIDE DEF Y
    <3> QED BY <3>1, NeedIsNumber
  <2>3. Total(f, E) <= Total(other[t], D \ Y)
    BY <1>3
  <2> HIDE DEF f, E, Y
  <2>4. Total(f, E) \in Nat /\ \A x \in E : f[x] <= Total(f, E)
    BY <2>1, TotalNat
  <2>5. f[p] <= Total(f, E) /\ f[p] \in Nat
    BY <2>1, <2>4 DEF E
  <2>6. ~(f[p] > 0)
    BY ONLY <1>5, <2>2, <2>3, <2>4, <2>5
  <2> QED BY <2>6 DEF f
<1>7. Cardinality(L) <= Cardinality(X) /\ Cardinality(L) \in Nat /\ Cardinality(X) \in Nat /\ Cardinality(Y) \in Nat
  <2>1. L \in SUBSET X /\ L \in SUBSET D /\ Y \in SUBSET D
    BY <1>6
  <2>2. IsFiniteSet(X) /\ IsFiniteSet(Y) /\ IsFiniteSet(L)
    BY <1>4, <2>1, FS_Subset
  <2> HIDE DEF L, Y
  <2> QED BY <2>1, <2>2, FS_Subset, FS_CardinalityType
<1> HIDE DEF L, Y
<1>8. Cardinality(L) <= Cardinality(Y)
  BY <1>3, <1>7
<1> QED BY <1>8 DEF L, Y

(* A timetable: s[p] is the set of units of time in which p has the CPU.   *)
Timetable(D, a, b, s) ==
  /\ IsFiniteSet(D) /\ 0 \notin D /\ a \in [D -> Nat] /\ b \in [D -> Nat] /\ s \in [D -> SUBSET Nat]
  /\ \A p \in D : IsFiniteSet(s[p]) /\ Cardinality(s[p]) = b[p] /\ \A j \in s[p] : j > a[p]
  /\ \A p, q \in D : p # q => s[p] \cap s[q] = {}

Later(T, t) == {j \in T : j > t}

(* What everybody still needs at every time, and who has the next unit.    *)
Needs(D, s)  == [t \in Nat |-> [p \in D |-> Cardinality(Later(s[p], t))]]
Nexts(D, s) ==
  [t \in Nat |-> IF \E p \in D : t + 1 \in s[p] THEN CHOOSE p \in D : t + 1 \in s[p] ELSE 0]

(* The next unit is the only one between now and then.                     *)
LEMMA LaterUnits ==
  ASSUME NEW T \in SUBSET Nat, IsFiniteSet(T), NEW t \in Nat
  PROVE  /\ Cardinality(Later(T, t)) \in Nat
         /\ Cardinality(Later(T, t + 1)) = IF t + 1 \in T THEN Cardinality(Later(T, t)) - 1 ELSE Cardinality(Later(T, t))
         /\ (Cardinality(Later(T, t)) > 0 <=> \E j \in T : j > t)
<1> DEFINE X == Later(T, t)
           Y == Later(T, t + 1)
<1>1. IsFiniteSet(X)
  <2>1. X \subseteq T
    BY DEF Later
  <2> QED BY <2>1, FS_Subset
<1>2. Cardinality(X) \in Nat /\ Cardinality(X \ {t + 1}) = (IF t + 1 \in X THEN Cardinality(X) - 1 ELSE Cardinality(X))
  BY <1>1, FS_RemoveElement, FS_CardinalityType
<1>3. Y = X \ {t + 1}
  <2>1. \A j \in T : j > t + 1 <=> (j > t /\ j # t + 1)
    OBVIOUS
  <2>2. Y = {j \in T : j > t + 1} /\ X = {j \in T : j > t}
    BY DEF Later
  <2> HIDE DEF X, Y
  <2> QED BY <2>1, <2>2
<1>4. t + 1 \in X <=> t + 1 \in T
  BY DEF Later
<1>5. Cardinality(X) > 0 <=> X # {}
  <2> HIDE DEF X
  <2>1. Cardinality(X) = 0 <=> X = {}
    BY <1>1, FS_EmptySet
  <2> QED BY <1>2, <2>1
<1>6. X # {} <=> \E j \in T : j > t
  BY DEF Later
<1>7. Cardinality(Y) = IF t + 1 \in T THEN Cardinality(X) - 1 ELSE Cardinality(X)
  BY <1>2, <1>3, <1>4
<1> QED BY <1>2, <1>5, <1>6, <1>7

(* A timetable is a course.                                                *)
LEMMA TimetableRuns ==
  ASSUME NEW D, NEW a, NEW b, NEW s, Timetable(D, a, b, s)
  PROVE  /\ Course(D, a, Needs(D, s), Nexts(D, s)) /\ Needs(D, s)[0] = b
         /\ \A t \in Nat : \A p \in D : Needs(D, s)[t][p] > 0 <=> \E j \in s[p] : j > t
         /\ \A t \in Nat : \A p \in D : t + 1 \in s[p] <=> Nexts(D, s)[t] = p
<1> DEFINE rem == Needs(D, s)
           run == Nexts(D, s)
<1>1. ASSUME NEW p \in D PROVE s[p] \in SUBSET Nat /\ IsFiniteSet(s[p])
  BY DEF Timetable
<1>2. \A t \in Nat : \A p \in D : rem[t][p] = Cardinality(Later(s[p], t))
  BY DEF Needs
<1>3. ASSUME NEW t \in Nat, NEW p \in D PROVE t + 1 \in s[p] <=> run[t] = p
  <2>1. run[t] = IF \E q \in D : t + 1 \in s[q] THEN CHOOSE q \in D : t + 1 \in s[q] ELSE 0
    BY DEF Nexts
  <2>2. ASSUME t + 1 \in s[p] PROVE run[t] = p
    <3>1. run[t] \in D /\ t + 1 \in s[run[t]]
      BY <2>1, <2>2
    <3> HIDE DEF run
    <3>2. run[t] # p => s[run[t]] \cap s[p] = {}
      BY <3>1 DEF Timetable
    <3> QED BY <2>2, <3>1, <3>2
  <2>3. ASSUME run[t] = p PROVE t + 1 \in s[p]
    <3>1. 0 \notin D
      BY DEF Timetable
    <3>2. \E q \in D : t + 1 \in s[q]
      BY <2>1, <2>3, <3>1
    <3> QED BY <2>1, <2>3, <3>2
  <2> QED BY <2>2, <2>3
<1>4. rem \in [Nat -> [D -> Nat]]
  BY <1>1, LaterUnits DEF Needs
<1>5. ASSUME NEW t \in Nat, NEW p \in D
      PROVE  rem[t + 1][p] = IF p = run[t] THEN rem[t][p] - 1 ELSE rem[t][p]
  <2>1. Cardinality(Later(s[p], t + 1))
          = IF t + 1 \in s[p] THEN Cardinality(Later(s[p], t)) - 1 ELSE Cardinality(Later(s[p], t))
    BY <1>1, LaterUnits
  <2>2. rem[t][p] = Cardinality(Later(s[p], t)) /\ rem[t + 1][p] = Cardinality(Later(s[p], t + 1))
    BY <1>2
  <2> HIDE DEF rem, run
  <2> QED BY <1>3, <2>1, <2>2
<1>6. ASSUME NEW t \in Nat, run[t] \in D PROVE a[run[t]] <= t
  <2> DEFINE p == run[t]
  <2> HIDE DEF run
  <2>1. t + 1 \in s[p]
    BY <1>3, <1>6
  <2>2. t + 1 > a[p] /\ a[p] \in Nat
    BY <1>6, <2>1 DEF Timetable
  <2> QED BY <2>2
<1>7. rem[0] = b
  <2>1. ASSUME NEW p \in D PROVE rem[0][p] = b[p]
    <3>1. Later(s[p], 0) = s[p]
      <4>1. a[p] \in Nat /\ \A j \in s[p] : j > a[p] /\ j \in Nat
        BY <1>1 DEF Timetable
      <4>2. \A j \in s[p] : j > 0
        BY <4>1
      <4> QED BY <4>2 DEF Later
    <3>2. rem[0][p] = Cardinality(Later(s[p], 0))
      BY <1>2
    <3> QED BY <3>1, <3>2 DEF Timetable
  <2>2. rem[0] \in [D -> Nat] /\ b \in [D -> Nat]
    BY <1>4 DEF Timetable
  <2> HIDE DEF rem
  <2> QED BY <2>1, <2>2
<1>8. ASSUME NEW t \in Nat, NEW p \in D PROVE rem[t][p] > 0 <=> \E j \in s[p] : j > t
  <2>1. Cardinality(Later(s[p], t)) > 0 <=> \E j \in s[p] : j > t
    BY <1>1, LaterUnits
  <2>2. rem[t][p] = Cardinality(Later(s[p], t))
    BY <1>2
  <2> QED BY <2>1, <2>2
<1>9. IsFiniteSet(D) /\ a \in [D -> Nat]
  BY DEF Timetable
<1> HIDE DEF rem, run
<1>10. Course(D, a, rem, run)
  BY <1>4, <1>5, <1>6, <1>9 DEF Course
<1> QED BY <1>3, <1>7, <1>8, <1>10 DEF rem, run

(* The timetable that prefers the shortest has the least sum of the times  *)
(* of completion: C[p] is one of p's units, and no unit of p in the other  *)
(* timetable is after L[p].                                                *)
LEMMA ShortestIsBest ==
  ASSUME NEW D, NEW a, NEW b,
         NEW s, Timetable(D, a, b, s), PrefersShortest(D, a, Needs(D, s), Nexts(D, s)),
         NEW C \in [D -> Nat], \A p \in D : C[p] = 0 \/ C[p] \in s[p],
         NEW z, Timetable(D, a, b, z),
         NEW L \in [D -> Nat], \A p \in D : \A j \in z[p] : j <= L[p]
  PROVE  Total(C, D) <= Total(L, D)
<1> DEFINE rem   == Needs(D, s)
           other == Needs(D, z)
<1>1. /\ Course(D, a, rem, Nexts(D, s)) /\ rem[0] = b
      /\ \A t \in Nat : \A p \in D : rem[t][p] > 0 <=> \E j \in s[p] : j > t
  BY TimetableRuns
<1>2. /\ Course(D, a, other, Nexts(D, z)) /\ other[0] = b
      /\ \A t \in Nat : \A p \in D : other[t][p] > 0 <=> \E j \in z[p] : j > t
  BY TimetableRuns
<1>3. PrefersShortest(D, a, rem, Nexts(D, s))
  OBVIOUS
<1> HIDE DEF rem, other
<1>4. \A t \in Nat : Cardinality({p \in D : rem[t][p] > 0}) <= Cardinality({p \in D : other[t][p] > 0})
  BY <1>1, <1>2, <1>3, FewerAreLeft
<1>5. IsFiniteSet(D)
  BY DEF Timetable
<1>6. ASSUME NEW t \in Nat PROVE Cardinality({p \in D : C[p] > t}) <= Cardinality({p \in D : L[p] > t})
  <2> DEFINE P == {p \in D : C[p] > t}
             W == {p \in D : rem[t][p] > 0}
             X == {p \in D : other[t][p] > 0}
             Y == {p \in D : L[p] > t}
  <2>1. P \subseteq W
    <3>1. ASSUME NEW p \in D, C[p] > t PROVE rem[t][p] > 0
      <4>1. C[p] \in s[p]
        BY <3>1
      <4> QED BY <1>1, <3>1, <4>1
    <3> QED BY <3>1
  <2>2. X \subseteq Y
    <3>1. ASSUME NEW p \in D, other[t][p] > 0 PROVE L[p] > t
      <4>1. PICK j \in z[p] : j > t
        BY <1>2, <3>1
      <4>2. j <= L[p] /\ j \in Nat /\ L[p] \in Nat
        BY <4>1 DEF Timetable
      <4> QED BY <4>1, <4>2
    <3> QED BY <3>1
  <2>3. IsFiniteSet(P) /\ IsFiniteSet(W) /\ IsFiniteSet(X) /\ IsFiniteSet(Y)
    <3>1. P \subseteq D /\ W \subseteq D /\ X \subseteq D /\ Y \subseteq D
      OBVIOUS
    <3> HIDE DEF P, W, X, Y
    <3> QED BY <1>5, <3>1, FS_Subset
  <2>4. Cardinality(W) <= Cardinality(X)
    BY <1>4
  <2> HIDE DEF P, W, X, Y
  <2>5. Cardinality(P) <= Cardinality(W)
    BY <2>1, <2>3, FS_Subset
  <2>6. Cardinality(X) <= Cardinality(Y)
    BY <2>2, <2>3, FS_Subset
  <2>7. Cardinality(P) \in Nat /\ Cardinality(W) \in Nat /\ Cardinality(X) \in Nat /\ Cardinality(Y) \in Nat
    BY <2>3, FS_CardinalityType
  <2>8. Cardinality(P) <= Cardinality(Y)
    BY ONLY <2>4, <2>5, <2>6, <2>7
  <2> QED BY <2>8 DEF P, Y
<1> QED BY <1>5, <1>6, TotalByTails

-----------------------------------------------------------------------------
(***************************************************************************)
(* The schedule of an order, which TotalCompletion folds together.         *)
(***************************************************************************)
(* A fold that is in J[s] when it has taken s.                             *)
FoldInto(m, V, b, F, J) ==
  /\ FoldIn(m, V, b, F) /\ J \in [SUBSET (1 .. m) -> SUBSET V] /\ b \in J[{}]
  /\ \A s \in SUBSET (1 .. m) : s # {} => \A v \in J[s \ {Top(s)}] : F[Top(s)][v] \in J[s]

(* What it yields, as far as it stays in J.                                *)
FoldedInto(h, m, b, F, J) ==
  \A s \in SUBSET (1 .. m) : h[s] = IF s = {} THEN b
     ELSE IF h[s \ {Top(s)}] \in J[s \ {Top(s)}] THEN F[Top(s)][h[s \ {Top(s)}]] ELSE h[s]

(* It stays in J.                                                          *)
LEMMA FoldStays ==
  ASSUME NEW m, NEW V, NEW b, NEW F, NEW J, FoldInto(m, V, b, F, J), NEW h, FoldedInto(h, m, b, F, J)
  PROVE  \A s \in SUBSET (1 .. m) : h[s] \in J[s]
<1> DEFINE Dom == SUBSET (1 .. m)
           bad == {c \in Nat : \E s \in Dom : Cardinality(s) = c /\ h[s] \notin J[s]}
<1>0. m \in Nat
  BY DEF FoldInto, FoldIn
<1>1. ASSUME bad # {} PROVE FALSE
  <2>1. PICK c \in bad : \A d \in bad : c <= d
    <3>1. bad \subseteq Nat
      OBVIOUS
    <3> HIDE DEF bad
    <3> QED BY <1>1, <3>1, SmallestOf
  <2>2. PICK s \in Dom : Cardinality(s) = c /\ h[s] \notin J[s]
    BY <2>1
  <2>3. s # {}
    BY <2>2 DEF FoldInto, FoldedInto
  <2> DEFINE x == Top(s)
             u == s \ {x}
  <2>4. u \in Dom /\ Cardinality(s) \in Nat /\ Cardinality(u) < Cardinality(s) /\ Cardinality(u) \in Nat
    <3>1. s \in SUBSET (1 .. m)
      OBVIOUS
    <3>2. u \in SUBSET (1 .. m) /\ Cardinality(s) \in Nat /\ Cardinality(u) < Cardinality(s)
      BY <1>0, <2>3, <3>1, TopOf
    <3>3. Cardinality(u) \in Nat
      <4>1. IsFiniteSet(1 .. m)
        BY <1>0, FS_Interval
      <4> HIDE DEF u
      <4> QED BY <3>2, <4>1, FS_Subset, FS_CardinalityType
    <3> QED BY <3>2, <3>3
  <2> HIDE DEF u, x
  <2>5. h[u] \in J[u]
    <3>1. Cardinality(u) \notin bad
      <4>1. ~(c <= Cardinality(u))
        BY <2>2, <2>4
      <4> HIDE DEF bad
      <4> QED BY <2>1, <4>1
    <3> QED BY <2>4, <3>1
  <2>6. h[s] = F[x][h[u]]
    BY <2>3, <2>5 DEF u, x, FoldedInto
  <2>7. F[x][h[u]] \in J[s]
    BY <2>3, <2>5 DEF FoldInto, u, x
  <2> QED BY <2>2, <2>6, <2>7
<1>2. ASSUME NEW s \in Dom PROVE Cardinality(s) \in Nat
  <2>1. IsFiniteSet(1 .. m)
    BY <1>0, FS_Interval
  <2> QED BY <2>1, FS_Subset, FS_CardinalityType
<1> QED BY <1>1, <1>2

(* There is such a fold.                                                   *)
LEMMA FoldKeeps ==
  ASSUME NEW m, NEW V, NEW b, NEW F, NEW J, FoldInto(m, V, b, F, J)
  PROVE  \E g : FoldValues(g, m, V, b, F) /\ \A s \in SUBSET (1 .. m) : g[s] \in J[s]
<1>1. PICK g : FoldValues(g, m, V, b, F)
  BY FoldSteps DEF FoldInto
<1>2. ASSUME NEW s \in SUBSET (1 .. m)
      PROVE  g[s] = IF s = {} THEN b
                    ELSE IF g[s \ {Top(s)}] \in J[s \ {Top(s)}] THEN F[Top(s)][g[s \ {Top(s)}]] ELSE g[s]
  BY <1>1 DEF FoldValues
<1>3. \A s \in SUBSET (1 .. m) : g[s] \in J[s]
  <2>1. FoldedInto(g, m, b, F, J)
    BY <1>2 DEF FoldedInto
  <2> QED BY <2>1, FoldStays
<1> QED BY <1>1, <1>3

(* The first free unit for p, a unit taken for p, and all of p's units.    *)
Horizon == S!Max({arrival_time[p] : p \in S!Ids}) + S!sum_burst_time
FreeUnits(taken, p) == {t \in arrival_time[p] + 1 .. Horizon : t \notin taken}
TakeUnit(slots, p) == [taken |-> slots.taken \union {S!Min(FreeUnits(slots.taken, p))},
                       last  |-> S!Min(FreeUnits(slots.taken, p))]
TakeUnits(taken, p) ==
  S!FoldLeft(TakeUnit, [taken |-> taken, last |-> 0], [k \in 1 .. burst_time[p] |-> p])
PlaceNext(acc, p) ==
  [taken |-> TakeUnits(acc.taken, p).taken, total |-> acc.total + TakeUnits(acc.taken, p).last]

(* TotalCompletion folds PlaceNext over the order.                         *)
LEMMA CompletionFold ==
  ASSUME NEW order
  PROVE  S!TotalCompletion(order) = S!FoldLeft(PlaceNext, [taken |-> {}, total |-> 0], order).total
BY DEF S!TotalCompletion, S!FoldLeft, S!MapThenFoldSet, S!Max, S!Min, PlaceNext, TakeUnits, TakeUnit, FreeUnits, Horizon

(* While fewer units are taken than there are, the first free one is after *)
(* the arrival, and those before it are taken.                             *)
LEMMA FirstFree ==
  ASSUME NEW p, arrival_time[p] \in Nat, Horizon \in Nat,
         NEW taken \in SUBSET Nat, IsFiniteSet(taken), Cardinality(taken) < Horizon - arrival_time[p]
  PROVE  LET x == S!Min(FreeUnits(taken, p))
         IN  /\ x \in Nat /\ x > arrival_time[p] /\ x \notin taken
             /\ \A t \in Nat : arrival_time[p] < t /\ t < x => t \in taken
<1> DEFINE a == arrival_time[p]
           U == FreeUnits(taken, p)
           x == S!Min(U)
<1>1. U = {t \in a + 1 .. Horizon : t \notin taken}
  BY DEF FreeUnits
<1>2. U # {}
  <2>1. SUFFICES ASSUME U = {} PROVE FALSE
    OBVIOUS
  <2>2. a + 1 .. Horizon \subseteq taken
    BY <1>1, <2>1
  <2>3. a + 1 \in Int /\ Horizon \in Int
    OBVIOUS
  <2> DEFINE c == a + 1
  <2> HIDE DEF c
  <2>4. Cardinality(c .. Horizon) = IF c > Horizon THEN 0 ELSE Horizon - c + 1
    BY <2>3, FS_Interval DEF c
  <2>5. Cardinality(c .. Horizon) <= Cardinality(taken) /\ Cardinality(taken) \in Nat
    BY <2>2, FS_Subset, FS_CardinalityType DEF c
  <2> HIDE DEF U, x, a
  <2>6. a \in Nat /\ Cardinality(taken) < Horizon - a
    BY DEF a
  <2> QED BY ONLY <2>4, <2>5, <2>6, Horizon \in Nat DEF c
<1>3. U \subseteq Nat
  BY <1>1
<1>4. x \in U /\ \A y \in U : x <= y
  <2>1. x = CHOOSE z \in U : \A y \in U : z <= y
    BY DEF S!Min
  <2> HIDE DEF U, x
  <2> QED BY <1>2, <1>3, <2>1, SmallestOf
<1> HIDE DEF U, x
<1>5. x \in Nat /\ x \in a + 1 .. Horizon /\ x \notin taken
  BY <1>1, <1>3, <1>4
<1>6. ASSUME NEW t \in Nat, a < t, t < x PROVE t \in taken
  <2>1. t \in a + 1 .. Horizon
    BY <1>5, <1>6
  <2>2. t \notin U
    BY <1>4, <1>5, <1>6
  <2> QED BY <1>1, <2>1, <2>2
<1> HIDE DEF a
<1>7. x > a
  <2>1. a \in Nat
    BY DEF a
  <2> QED BY <1>5, <2>1
<1> QED BY <1>5, <1>6, <1>7 DEF x, U, a

(* k units have been taken for p, besides those taken before, and none of  *)
(* those between its arrival and the last one is free.                     *)
AllSlots == [taken : SUBSET Nat, last : Nat]
Room(taken, p) ==
  /\ arrival_time[p] \in Nat /\ burst_time[p] \in Nat /\ Horizon \in Nat
  /\ taken \in SUBSET Nat /\ IsFiniteSet(taken)
  /\ Cardinality(taken) + burst_time[p] <= Horizon - arrival_time[p]
TakenFor(own, v, taken, p, k) ==
  /\ own \in SUBSET Nat /\ own \cap taken = {} /\ v.taken = taken \union own
  /\ IsFiniteSet(own) /\ Cardinality(own) = k
  /\ \A j \in own : arrival_time[p] < j /\ j <= v.last
  /\ \A t \in Nat : arrival_time[p] < t /\ t <= v.last => t \in v.taken

(* One unit more.                                                          *)
LEMMA OneMoreUnit ==
  ASSUME NEW p, NEW taken, Room(taken, p), NEW k \in Nat, k < burst_time[p],
         NEW v \in AllSlots, NEW own, TakenFor(own, v, taken, p, k)
  PROVE  TakeUnit(v, p) \in AllSlots /\ \E new : TakenFor(new, TakeUnit(v, p), taken, p, k + 1)
<1> DEFINE a == arrival_time[p]
           T == v.taken
           x == S!Min(FreeUnits(T, p))
           u == TakeUnit(v, p)
           new == own \union {x}
<1>1. T \in SUBSET Nat /\ v.last \in Nat /\ T = taken \union own /\ own \cap taken = {} /\ own \in SUBSET Nat
  BY DEF AllSlots, TakenFor
<1>2. IsFiniteSet(taken) /\ IsFiniteSet(own) /\ Cardinality(own) = k
  BY DEF Room, TakenFor
<1>3. IsFiniteSet(T) /\ Cardinality(T) < Horizon - a
  <2>1. IsFiniteSet(taken \union own) /\ Cardinality(taken \union own) = Cardinality(taken) + Cardinality(own) - Cardinality(taken \cap own)
    BY <1>2, FS_Union
  <2>2. taken \cap own = {}
    BY <1>1
  <2>3. Cardinality(taken \cap own) = 0
    BY <2>2, FS_EmptySet
  <2>4. Cardinality(taken) \in Nat
    BY <1>2, FS_CardinalityType
  <2>5. a \in Nat /\ burst_time[p] \in Nat /\ Horizon \in Nat /\ Cardinality(taken) + burst_time[p] <= Horizon - a
    BY DEF Room
  <2> HIDE DEF a, T
  <2>6. Cardinality(taken \union own) < Horizon - a
    BY ONLY <1>2, <2>1, <2>3, <2>4, <2>5, k \in Nat, k < burst_time[p]
  <2> QED BY <1>1, <2>1, <2>6
<1>4. /\ x \in Nat /\ x > a /\ x \notin T
      /\ \A t \in Nat : a < t /\ t < x => t \in T
  <2>1. a \in Nat /\ Horizon \in Nat
    BY DEF Room
  <2> HIDE DEF T
  <2> QED BY <1>1, <1>3, <2>1, FirstFree
<1>5. u = [taken |-> T \union {x}, last |-> x]
  BY DEF TakeUnit
<1> HIDE DEF x, u
<1>6. u \in AllSlots /\ u.taken = T \union {x} /\ u.last = x
  BY <1>1, <1>4, <1>5 DEF AllSlots
<1>7. a \in Nat
  BY DEF Room
<1>8. v.last < x \/ v.last <= a
  <2>1. x <= v.last => x \in T
    BY <1>4 DEF TakenFor
  <2> HIDE DEF T
  <2> QED BY <1>1, <1>4, <2>1
<1>9. \A j \in new : a < j /\ j <= u.last
  <2>1. ASSUME NEW j \in own PROVE a < j /\ j <= x
    <3>1. a < j /\ j <= v.last /\ j \in Nat
      BY <1>1 DEF TakenFor
    <3> HIDE DEF a, T
    <3> QED BY <1>1, <1>4, <1>7, <1>8, <3>1
  <2>2. a < x /\ x <= x
    BY <1>4, <1>7
  <2> QED BY <1>6, <2>1, <2>2
<1>10. \A t \in Nat : a < t /\ t <= u.last => t \in u.taken
  <2>1. ASSUME NEW t \in Nat, a < t, t <= x PROVE t \in T \union {x}
    <3>1. t < x \/ t = x
      BY <1>4, <2>1
    <3> QED BY <1>4, <2>1, <3>1
  <2> QED BY <1>6, <2>1
<1>11. IsFiniteSet(new) /\ Cardinality(new) = k + 1
  <2>1. x \notin own
    BY <1>1, <1>4
  <2> QED BY <1>2, <2>1, FS_AddElement
<1>12. new \in SUBSET Nat /\ new \cap taken = {} /\ u.taken = taken \union new
  BY <1>1, <1>4, <1>6
<1>13. TakenFor(new, u, taken, p, k + 1)
  BY <1>9, <1>10, <1>11, <1>12 DEF TakenFor
<1> QED BY <1>6, <1>13 DEF u

(* All of them.                                                            *)
LEMMA UnitsTaken ==
  ASSUME NEW p, NEW taken, Room(taken, p)
  PROVE  /\ TakeUnits(taken, p) \in AllSlots
         /\ \E own : TakenFor(own, TakeUnits(taken, p), taken, p, burst_time[p])
<1> DEFINE m == burst_time[p]
           b == [taken |-> taken, last |-> 0]
           qq == [k \in 1 .. m |-> p]
           Is(it) == it = [s \in SUBSET (DOMAIN qq) |-> IF s = {} THEN b
                             ELSE TakeUnit(it[s \ {Top(s)}], qq[Top(s)])]
           h == CHOOSE it : Is(it)
           Good(k) == {v \in AllSlots : \E own : TakenFor(own, v, taken, p, k)}
           J == [s \in SUBSET (1 .. m) |-> Good(Cardinality(s))]
           F == [j \in 1 .. m |-> [v \in AllSlots |-> IF TakeUnit(v, p) \in AllSlots THEN TakeUnit(v, p) ELSE v]]
<1>0. m \in Nat /\ DOMAIN qq = 1 .. m /\ \A j \in 1 .. m : qq[j] = p
  BY DEF Room
<1>1. TakeUnits(taken, p) = h[DOMAIN qq]
  BY DEF TakeUnits, S!FoldLeft, S!MapThenFoldSet, S!Max, Top
<1>2. b \in AllSlots /\ b \in Good(0)
  <2>1. b \in AllSlots
    BY DEF AllSlots, Room
  <2>2. TakenFor({}, b, taken, p, 0)
    <3>1. IsFiniteSet({}) /\ Cardinality({}) = 0
      BY FS_EmptySet
    <3>2. b.taken = taken \union {} /\ b.last = 0 /\ {} \cap taken = {} /\ {} \in SUBSET Nat
      OBVIOUS
    <3>3. \A t \in Nat : arrival_time[p] < t /\ t <= 0 => FALSE
      BY DEF Room
    <3> HIDE DEF b
    <3> QED BY <3>1, <3>2, <3>3 DEF TakenFor
  <2> HIDE DEF b
  <2> QED BY <2>1, <2>2
<1>3. F \in [1 .. m -> [AllSlots -> AllSlots]]
  OBVIOUS
<1>4. \A j \in 1 .. m : \A v \in AllSlots : TakeUnit(v, p) \in AllSlots => F[j][v] = TakeUnit(v, p)
  OBVIOUS
<1>5. J \in [SUBSET (1 .. m) -> SUBSET AllSlots]
  OBVIOUS
<1>6. \A s \in SUBSET (1 .. m) : J[s] = Good(Cardinality(s))
  OBVIOUS
<1> HIDE DEF m, b, F, J, qq
<1>7. ASSUME NEW s \in SUBSET (1 .. m), s # {}, NEW v \in J[s \ {Top(s)}]
      PROVE  TakeUnit(v, p) \in AllSlots /\ TakeUnit(v, p) \in J[s] /\ Top(s) \in 1 .. m /\ v \in AllSlots
  <2> DEFINE u == s \ {Top(s)}
             k == Cardinality(u)
  <2>1. u \in SUBSET (1 .. m) /\ Top(s) \in s /\ Top(s) \in 1 .. m
    BY <1>0, <1>7, TopOf
  <2>2. IsFiniteSet(s) /\ IsFiniteSet(1 .. m) /\ Cardinality(s) <= m
    <3>1. IsFiniteSet(1 .. m) /\ Cardinality(1 .. m) = IF 1 > m THEN 0 ELSE m - 1 + 1
      BY <1>0, FS_Interval
    <3>2. Cardinality(1 .. m) = m
      BY <1>0, <3>1
    <3>3. IsFiniteSet(s) /\ Cardinality(s) <= Cardinality(1 .. m)
      BY <3>1, FS_Subset
    <3> QED BY <3>1, <3>2, <3>3
  <2>3. k = Cardinality(s) - 1 /\ k \in Nat /\ Cardinality(s) \in Nat
    BY <2>1, <2>2, FS_RemoveElement, FS_CardinalityType
  <2>4. v \in Good(k)
    BY <1>6, <1>7, <2>1
  <2>5. k < m /\ k + 1 = Cardinality(s)
    BY <1>0, <2>2, <2>3
  <2> HIDE DEF k, u
  <2>6. PICK own : TakenFor(own, v, taken, p, k)
    BY <2>4
  <2>7. TakeUnit(v, p) \in AllSlots /\ \E new : TakenFor(new, TakeUnit(v, p), taken, p, k + 1)
    <3>1. k < burst_time[p] /\ k \in Nat /\ v \in AllSlots
      BY <2>3, <2>4, <2>5 DEF m
    <3> QED BY <2>6, <3>1, OneMoreUnit
  <2>8. TakeUnit(v, p) \in Good(Cardinality(s))
    BY <2>5, <2>7
  <2> QED BY <1>6, <2>1, <2>4, <2>7, <2>8
<1>8. FoldInto(m, AllSlots, b, F, J)
  <2>1. FoldIn(m, AllSlots, b, F)
    BY <1>0, <1>2, <1>3 DEF FoldIn
  <2>2. b \in J[{}]
    <3>1. Cardinality({}) = 0 /\ {} \in SUBSET (1 .. m)
      BY FS_EmptySet
    <3> QED BY <1>2, <1>6, <3>1
  <2>3. ASSUME NEW s \in SUBSET (1 .. m), s # {}, NEW v \in J[s \ {Top(s)}] PROVE F[Top(s)][v] \in J[s]
    BY <1>4, <1>7, <2>3
  <2> QED BY <1>5, <2>1, <2>2, <2>3 DEF FoldInto
<1> HIDE DEF Good
<1>9. PICK g : FoldValues(g, m, AllSlots, b, F) /\ \A s \in SUBSET (1 .. m) : g[s] \in J[s]
  BY <1>8, FoldKeeps
<1>10. ASSUME NEW s \in SUBSET (1 .. m)
       PROVE  g[s] = IF s = {} THEN b ELSE TakeUnit(g[s \ {Top(s)}], qq[Top(s)])
  <2>1. CASE s = {}
    BY <1>9, <2>1 DEF FoldValues
  <2>2. CASE s # {}
    <3>1. Top(s) \in 1 .. m /\ s \ {Top(s)} \in SUBSET (1 .. m)
      BY <1>0, <2>2, TopOf
    <3>2. g[s \ {Top(s)}] \in J[s \ {Top(s)}]
      BY <1>9, <3>1
    <3>3. g[s] = F[Top(s)][g[s \ {Top(s)}]]
      BY <1>9, <2>2 DEF FoldValues
    <3>4. F[Top(s)][g[s \ {Top(s)}]] = TakeUnit(g[s \ {Top(s)}], p)
      BY <1>4, <1>7, <2>2, <3>1, <3>2
    <3> QED BY <1>0, <2>2, <3>1, <3>3, <3>4
  <2> QED BY <2>1, <2>2
<1>11. Is(g)
  BY <1>0, <1>9, <1>10 DEF FoldValues
<1>12. Is(h)
  <2> HIDE DEF Is
  <2> QED BY <1>11
<1> HIDE DEF h
<1>13. \A s \in SUBSET (1 .. m) : h[s] = IF s = {} THEN b ELSE TakeUnit(h[s \ {Top(s)}], qq[Top(s)])
  BY <1>0, <1>12
<1> HIDE DEF Is
<1>14. FoldedInto(h, m, b, F, J)
  <2>1. ASSUME NEW s \in SUBSET (1 .. m), s # {}, h[s \ {Top(s)}] \in J[s \ {Top(s)}]
        PROVE  h[s] = F[Top(s)][h[s \ {Top(s)}]]
    <3>1. h[s] = TakeUnit(h[s \ {Top(s)}], p)
      <4>1. Top(s) \in 1 .. m
        BY <1>7, <2>1
      <4>2. qq[Top(s)] = p
        BY <1>0, <4>1
      <4>3. h[s] = TakeUnit(h[s \ {Top(s)}], qq[Top(s)])
        BY <1>13, <2>1
      <4> QED BY <4>2, <4>3
    <3> QED BY <1>4, <1>7, <2>1, <3>1
  <2> QED BY <1>13, <2>1 DEF FoldedInto
<1>15. h[1 .. m] \in J[1 .. m]
  <2>1. 1 .. m \in SUBSET (1 .. m)
    OBVIOUS
  <2> QED BY <1>8, <1>14, <2>1, FoldStays
<1>16. Cardinality(1 .. m) = m
  <2>1. Cardinality(1 .. m) = IF 1 > m THEN 0 ELSE m - 1 + 1
    BY <1>0, FS_Interval
  <2> QED BY <1>0, <2>1
<1>17. h[1 .. m] \in Good(m)
  <2>1. 1 .. m \in SUBSET (1 .. m)
    OBVIOUS
  <2> QED BY <1>6, <1>15, <1>16, <2>1
<1> QED BY <1>0, <1>1, <1>17 DEF Good, m

(* The horizon is late enough for everybody.                               *)
LEMMA HorizonFits ==
  ASSUME arrival_time \in [S!Ids -> Nat], burst_time \in [S!Ids -> Nat]
  PROVE  /\ Horizon \in Nat /\ Total(burst_time, S!Ids) \in Nat
         /\ \A p \in S!Ids : arrival_time[p] + Total(burst_time, S!Ids) <= Horizon
<1>1. IsFiniteSet(S!Ids) /\ S!Ids # {}
  BY SchedulersIds
<1>2. Total(burst_time, S!Ids) \in Nat
  BY <1>1, TotalNat
<1> DEFINE key == [p \in S!Ids |-> -arrival_time[p]]
           U == {arrival_time[p] : p \in S!Ids}
<1>3. \A p \in S!Ids : key[p] \in Int /\ key[p] = -arrival_time[p] /\ arrival_time[p] \in Nat
  OBVIOUS
<1> HIDE DEF key
<1>4. PICK p \in S!Ids : \A r \in S!Ids : key[p] <= key[r]
  BY <1>1, <1>3, FiniteBest
<1>5. arrival_time[p] \in U /\ U \subseteq Nat /\ \A i \in U : i <= arrival_time[p]
  <2>1. ASSUME NEW r \in S!Ids PROVE arrival_time[r] <= arrival_time[p]
    <3>1. key[p] <= key[r]
      BY <1>4
    <3> QED BY <1>3, <3>1
  <2> QED BY <1>3, <2>1
<1>6. S!Max(U) = arrival_time[p]
  <2>1. S!Max(U) = CHOOSE x \in U : \A y \in U : x >= y
    BY DEF S!Max
  <2> HIDE DEF U
  <2> QED BY ONLY <1>5, <2>1, MaxOf
<1>7. Horizon = arrival_time[p] + Total(burst_time, S!Ids)
  <2>1. S!sum_burst_time = Total(burst_time, S!Ids)
    BY TotalSchedulers DEF S!sum_burst_time
  <2> HIDE DEF U
  <2>2. Horizon = S!Max(U) + S!sum_burst_time
    BY DEF Horizon, U
  <2> QED BY <1>6, <2>1, <2>2
<1>8. ASSUME NEW r \in S!Ids PROVE arrival_time[r] + Total(burst_time, S!Ids) <= Horizon
  <2>1. arrival_time[r] <= arrival_time[p] /\ arrival_time[r] \in Nat /\ arrival_time[p] \in Nat
    BY <1>3, <1>5
  <2> HIDE DEF U
  <2> QED BY ONLY <1>2, <1>7, <2>1
<1> QED BY <1>2, <1>3, <1>7, <1>8

(* The processes of P have all their units, own[p], of which last[p] is the *)
(* last one.                                                               *)
AllPlaces == [taken : SUBSET Nat, total : Nat]
Placed(own, last, acc, P) ==
  /\ own \in [S!Ids -> SUBSET Nat] /\ last \in [S!Ids -> Nat]
  /\ \A p \in P : /\ IsFiniteSet(own[p]) /\ Cardinality(own[p]) = burst_time[p] /\ own[p] \subseteq acc.taken
                  /\ \A j \in own[p] : arrival_time[p] < j /\ j <= last[p]
  /\ \A p, q \in P : p # q => own[p] \cap own[q] = {}
  /\ IsFiniteSet(acc.taken) /\ Cardinality(acc.taken) = Total(burst_time, P)
  /\ acc.total = Total(last, P)

(* One process more.                                                       *)
LEMMA OneMorePlaced ==
  ASSUME arrival_time \in [S!Ids -> Nat], burst_time \in [S!Ids -> Nat],
         NEW P \in SUBSET S!Ids, NEW p \in S!Ids, p \notin P,
         NEW acc \in AllPlaces, NEW own, NEW last, Placed(own, last, acc, P)
  PROVE  PlaceNext(acc, p) \in AllPlaces /\ \E o, l : Placed(o, l, PlaceNext(acc, p), P \union {p})
<1> DEFINE T == acc.taken
           slots == TakeUnits(T, p)
           new == PlaceNext(acc, p)
<1>1. IsFiniteSet(T) /\ T \in SUBSET Nat /\ Cardinality(T) = Total(burst_time, P) /\ acc.total \in Nat /\ acc.total = Total(last, P)
  BY DEF Placed, AllPlaces
<1>2. /\ Total(burst_time, P) + burst_time[p] <= Total(burst_time, S!Ids)
      /\ Total(burst_time, P \union {p}) = Total(burst_time, P) + burst_time[p]
      /\ Total(burst_time, P) \in Int
  <2> DEFINE f == burst_time
             D == S!Ids
  <2>1. IsFiniteSet(D) /\ (\A x \in D : f[x] \in Nat) /\ P \subseteq D /\ p \in D
    BY SchedulersIds
  <2> HIDE DEF f, D
  <2>2. /\ Total(f, P) + f[p] <= Total(f, D)
        /\ Total(f, P \union {p}) = Total(f, P) + f[p]
        /\ Total(f, P) \in Int
    BY ONLY <2>1, p \notin P, TotalGrows
  <2> QED BY <2>2 DEF f, D
<1>3. Room(T, p)
  <2>1. /\ Horizon \in Nat /\ Total(burst_time, S!Ids) \in Nat
        /\ arrival_time[p] + Total(burst_time, S!Ids) <= Horizon
    BY HorizonFits
  <2>2. arrival_time[p] \in Nat /\ burst_time[p] \in Nat
    OBVIOUS
  <2>3. Cardinality(T) + burst_time[p] <= Horizon - arrival_time[p]
    <3> HIDE DEF T
    <3> QED BY ONLY <1>1, <1>2, <2>1, <2>2
  <2> HIDE DEF T
  <2> QED BY <1>1, <2>1, <2>2, <2>3 DEF Room
<1> HIDE DEF slots
<1>4. slots \in AllSlots /\ \E u : TakenFor(u, slots, T, p, burst_time[p])
  <2> HIDE DEF T
  <2> QED BY <1>3, UnitsTaken DEF slots
<1>5. PICK u : TakenFor(u, slots, T, p, burst_time[p])
  BY <1>4
<1>6. /\ u \in SUBSET Nat /\ u \cap T = {} /\ slots.taken = T \union u /\ IsFiniteSet(u)
      /\ Cardinality(u) = burst_time[p] /\ \A j \in u : arrival_time[p] < j /\ j <= slots.last
  BY <1>5 DEF TakenFor
<1>7. slots.taken \in SUBSET Nat /\ slots.last \in Nat
  BY <1>4 DEF AllSlots
<1>8. new = [taken |-> slots.taken, total |-> acc.total + slots.last]
  BY DEF PlaceNext, slots
<1> HIDE DEF new
<1>9. new \in AllPlaces /\ new.taken = T \union u /\ new.total = acc.total + slots.last
  BY <1>1, <1>6, <1>7, <1>8 DEF AllPlaces
<1> DEFINE o == [own EXCEPT ![p] = u]
           l == [last EXCEPT ![p] = slots.last]
           N == P \union {p}
<1>10. /\ own \in [S!Ids -> SUBSET Nat] /\ last \in [S!Ids -> Nat]
       /\ \A q \in P : /\ IsFiniteSet(own[q]) /\ Cardinality(own[q]) = burst_time[q] /\ own[q] \subseteq T
                       /\ \A j \in own[q] : arrival_time[q] < j /\ j <= last[q]
       /\ \A q, r \in P : q # r => own[q] \cap own[r] = {}
  BY DEF Placed
<1> HIDE DEF T
<1>11. /\ o \in [S!Ids -> SUBSET Nat] /\ l \in [S!Ids -> Nat] /\ o[p] = u /\ l[p] = slots.last
       /\ \A q \in P : o[q] = own[q] /\ l[q] = last[q]
  BY <1>6, <1>7, <1>10
<1> HIDE DEF o, l
<1>12. ASSUME NEW q \in N
       PROVE  /\ IsFiniteSet(o[q]) /\ Cardinality(o[q]) = burst_time[q] /\ o[q] \subseteq new.taken
              /\ \A j \in o[q] : arrival_time[q] < j /\ j <= l[q]
  <2>1. CASE q = p
    BY <1>6, <1>9, <1>11, <2>1
  <2>2. CASE q # p
    BY <1>9, <1>10, <1>11, <2>2
  <2> QED BY <2>1, <2>2
<1>13. ASSUME NEW q \in N, NEW r \in N, q # r PROVE o[q] \cap o[r] = {}
  <2>1. CASE q # p /\ r # p
    BY <1>10, <1>11, <1>13, <2>1
  <2>2. ASSUME NEW x \in P PROVE own[x] \cap u = {}
    BY <1>6, <1>10
  <2> QED BY <1>11, <1>13, <2>1, <2>2
<1>14. IsFiniteSet(new.taken) /\ Cardinality(new.taken) = Total(burst_time, N)
  <2>1. IsFiniteSet(T \union u) /\ Cardinality(T \union u) = Cardinality(T) + Cardinality(u) - Cardinality(T \cap u)
    BY <1>1, <1>6, FS_Union
  <2>2. T \cap u = {}
    BY <1>6
  <2>3. Cardinality(T \cap u) = 0
    BY <2>2, FS_EmptySet
  <2>4. burst_time[p] \in Nat
    OBVIOUS
  <2>5. Cardinality(T \union u) = Total(burst_time, N)
    BY ONLY <1>1, <1>2, <1>6, <2>1, <2>3, <2>4
  <2> QED BY <1>9, <2>1, <2>5
<1>15. new.total = Total(l, N)
  <2>1. IsFiniteSet(N) /\ IsFiniteSet(P) /\ (\A q \in N : l[q] \in Nat) /\ (\A q \in P : last[q] \in Nat /\ l[q] \in Nat)
    <3>1. N \in SUBSET S!Ids /\ P \in SUBSET S!Ids
      OBVIOUS
    <3> HIDE DEF N
    <3>2. IsFiniteSet(N) /\ IsFiniteSet(P)
      BY <3>1, SchedulersIds, FS_Subset
    <3> QED BY <1>10, <1>11, <3>1, <3>2
  <2>2. Summable(l, N) /\ Summable(last, P) /\ Total(last, P) \in Nat
    <3> HIDE DEF N
    <3> QED BY <2>1, TotalNat
  <2>3. Total(l, N) = l[p] + Total(l, N \ {p})
    <3>1. p \in N
      OBVIOUS
    <3> HIDE DEF N
    <3> QED BY <2>2, <3>1, TotalWithout
  <2>4. N \ {p} = P
    OBVIOUS
  <2>5. Total(l, P) = Total(last, P)
    <3>1. \A q \in P : last[q] = l[q]
      BY <1>11
    <3> QED BY <2>2, <3>1, TotalAgrees
  <2>6. l[p] \in Nat
    BY <1>7, <1>11
  <2> HIDE DEF N
  <2>7. Total(l, N) = l[p] + Total(last, P)
    BY <2>3, <2>4, <2>5
  <2> QED BY ONLY <1>1, <1>9, <1>11, <2>2, <2>6, <2>7
<1>16. Placed(o, l, new, N)
  <2> HIDE DEF N
  <2> QED BY <1>11, <1>12, <1>13, <1>14, <1>15 DEF Placed
<1> QED BY <1>9, <1>16 DEF new, N

(* An order lists every process once.                                      *)
LEMMA OrdersListOnce ==
  ASSUME NEW order \in S!Orders
  PROVE  /\ order \in [1 .. n -> S!Ids] /\ S!Ids = {order[k] : k \in 1 .. n}
         /\ \A i, j \in 1 .. n : order[i] = order[j] => i = j
<1>1. order \in [S!Ids -> S!Ids] /\ (\A p \in S!Ids : \E k \in S!Ids : order[k] = p) /\ S!Ids = 1 .. n
  BY SchedulersIds DEF S!Orders
<1>2. order \in Surjection(S!Ids, S!Ids)
  BY <1>1, Fun_IsSurj
<1>3. order \in Injection(S!Ids, S!Ids)
  BY <1>2, SchedulersIds, FS_Surjection
<1>4. \A i, j \in S!Ids : order[i] = order[j] => i = j
  BY <1>3 DEF Injection, IsInjective
<1> QED BY <1>1, <1>4

(* So the total turnaround time of an order is that of a timetable.        *)
LEMMA OrderPlaces ==
  ASSUME arrival_time \in [S!Ids -> Nat], burst_time \in [S!Ids -> Nat], NEW order \in S!Orders
  PROVE  \E z, last : /\ Timetable(S!Ids, arrival_time, burst_time, z) /\ last \in [S!Ids -> Nat]
                      /\ \A p \in S!Ids : \A j \in z[p] : j <= last[p]
                      /\ S!TotalCompletion(order) = Total(last, S!Ids)
<1> DEFINE b == [taken |-> {}, total |-> 0]
           Is(it) == it = [s \in SUBSET (DOMAIN order) |-> IF s = {} THEN b
                             ELSE PlaceNext(it[s \ {Top(s)}], order[Top(s)])]
           h == CHOOSE it : Is(it)
           Of2(s) == {order[k] : k \in s}
           Good(P) == {v \in AllPlaces : \E o, l : Placed(o, l, v, P)}
           J == [s \in SUBSET (1 .. n) |-> Good(Of2(s))]
           F == [j \in 1 .. n |-> [v \in AllPlaces |->
                   IF PlaceNext(v, order[j]) \in AllPlaces THEN PlaceNext(v, order[j]) ELSE v]]
<1>0. /\ n \in Nat /\ DOMAIN order = 1 .. n /\ S!Ids = Of2(1 .. n) /\ \A j \in 1 .. n : order[j] \in S!Ids
      /\ \A i, j \in 1 .. n : order[i] = order[j] => i = j
  BY OrdersListOnce, SchedulersConstants
<1>1. S!TotalCompletion(order) = h[DOMAIN order].total
  <2>1. S!FoldLeft(PlaceNext, [taken |-> {}, total |-> 0], order) = h[DOMAIN order]
    BY DEF S!FoldLeft, S!MapThenFoldSet, S!Max, Top
  <2> QED BY <2>1, CompletionFold
<1>2. b \in AllPlaces /\ b \in Good({})
  <2>1. b \in AllPlaces
    BY DEF AllPlaces
  <2>2. Placed([p \in S!Ids |-> {}], [p \in S!Ids |-> 0], b, {})
    <3>1. IsFiniteSet({}) /\ Cardinality({}) = 0 /\ Total(burst_time, {}) = 0
      BY FS_EmptySet, TotalEmpty
    <3>2. Total([p \in S!Ids |-> 0], {}) = 0
      BY TotalEmpty
    <3>3. b.taken = {} /\ b.total = 0
      OBVIOUS
    <3> HIDE DEF b
    <3> QED BY <3>1, <3>2, <3>3 DEF Placed
  <2> HIDE DEF b
  <2> QED BY <2>1, <2>2
<1>3. F \in [1 .. n -> [AllPlaces -> AllPlaces]]
  OBVIOUS
<1>4. \A j \in 1 .. n : \A v \in AllPlaces :
         PlaceNext(v, order[j]) \in AllPlaces => F[j][v] = PlaceNext(v, order[j])
  OBVIOUS
<1>5. J \in [SUBSET (1 .. n) -> SUBSET AllPlaces]
  OBVIOUS
<1>6. \A s \in SUBSET (1 .. n) : J[s] = Good(Of2(s))
  OBVIOUS
<1> HIDE DEF b, F, J
<1>7. ASSUME NEW s \in SUBSET (1 .. n), s # {}, NEW v \in J[s \ {Top(s)}]
      PROVE  /\ PlaceNext(v, order[Top(s)]) \in AllPlaces /\ PlaceNext(v, order[Top(s)]) \in J[s]
             /\ Top(s) \in 1 .. n /\ v \in AllPlaces
  <2> DEFINE u == s \ {Top(s)}
             P == Of2(u)
             p == order[Top(s)]
  <2>1. u \in SUBSET (1 .. n) /\ Top(s) \in s /\ Top(s) \in 1 .. n
    BY <1>0, <1>7, TopOf
  <2>2. p \in S!Ids /\ P \in SUBSET S!Ids
    BY <1>0, <2>1
  <2>3. p \notin P
    BY <1>0, <2>1
  <2>4. Of2(s) = P \union {p}
    BY <2>1
  <2>5. v \in Good(P)
    BY <1>6, <1>7, <2>1
  <2> HIDE DEF P, p, u, Of2
  <2>6. PICK o, l : Placed(o, l, v, P)
    BY <2>5
  <2>7. PlaceNext(v, p) \in AllPlaces /\ \E o2, l2 : Placed(o2, l2, PlaceNext(v, p), P \union {p})
    <3>1. v \in AllPlaces
      BY <2>5
    <3> QED BY <2>2, <2>3, <2>6, <3>1, OneMorePlaced
  <2>8. PlaceNext(v, p) \in Good(Of2(s))
    BY <2>4, <2>7
  <2> QED BY <1>6, <2>1, <2>5, <2>7, <2>8 DEF p
<1> HIDE DEF Of2
<1>8. FoldInto(n, AllPlaces, b, F, J)
  <2>1. FoldIn(n, AllPlaces, b, F)
    BY <1>0, <1>2, <1>3 DEF FoldIn
  <2>2. b \in J[{}]
    <3>1. Of2({}) = {} /\ {} \in SUBSET (1 .. n)
      BY DEF Of2
    <3>2. J[{}] = Good(Of2({}))
      BY <1>6, <3>1
    <3>3. Good(Of2({})) = Good({})
      BY <3>1
    <3> HIDE DEF Good
    <3> QED BY <1>2, <3>2, <3>3
  <2>3. ASSUME NEW s \in SUBSET (1 .. n), s # {}, NEW v \in J[s \ {Top(s)}] PROVE F[Top(s)][v] \in J[s]
    BY <1>4, <1>7, <2>3
  <2> QED BY <1>5, <2>1, <2>2, <2>3 DEF FoldInto
<1> HIDE DEF Good
<1>9. PICK g : FoldValues(g, n, AllPlaces, b, F) /\ \A s \in SUBSET (1 .. n) : g[s] \in J[s]
  BY <1>8, FoldKeeps
<1>10. ASSUME NEW s \in SUBSET (1 .. n)
       PROVE  g[s] = IF s = {} THEN b ELSE PlaceNext(g[s \ {Top(s)}], order[Top(s)])
  <2>1. CASE s = {}
    BY <1>9, <2>1 DEF FoldValues
  <2>2. CASE s # {}
    <3>1. Top(s) \in 1 .. n /\ s \ {Top(s)} \in SUBSET (1 .. n)
      BY <1>0, <2>2, TopOf
    <3>2. g[s \ {Top(s)}] \in J[s \ {Top(s)}]
      BY <1>9, <3>1
    <3>3. g[s] = F[Top(s)][g[s \ {Top(s)}]]
      BY <1>9, <2>2 DEF FoldValues
    <3>4. F[Top(s)][g[s \ {Top(s)}]] = PlaceNext(g[s \ {Top(s)}], order[Top(s)])
      <4> DEFINE v == g[s \ {Top(s)}]
      <4>1. v \in J[s \ {Top(s)}]
        BY <3>2
      <4> HIDE DEF v
      <4>2. PlaceNext(v, order[Top(s)]) \in AllPlaces /\ v \in AllPlaces
        BY <1>7, <2>2, <4>1
      <4>3. F[Top(s)][v] = PlaceNext(v, order[Top(s)])
        BY <1>4, <3>1, <4>2
      <4> QED BY <4>3 DEF v
    <3> QED BY <2>2, <3>3, <3>4
  <2> QED BY <2>1, <2>2
<1>11. Is(g)
  BY <1>0, <1>9, <1>10 DEF FoldValues
<1>12. Is(h)
  <2> HIDE DEF Is
  <2> QED BY <1>11
<1> HIDE DEF h
<1>13. \A s \in SUBSET (1 .. n) : h[s] = IF s = {} THEN b ELSE PlaceNext(h[s \ {Top(s)}], order[Top(s)])
  BY <1>0, <1>12
<1> HIDE DEF Is
<1>14. FoldedInto(h, n, b, F, J)
  <2>1. ASSUME NEW s \in SUBSET (1 .. n), s # {}, h[s \ {Top(s)}] \in J[s \ {Top(s)}]
        PROVE  h[s] = F[Top(s)][h[s \ {Top(s)}]]
    <3>1. h[s] = PlaceNext(h[s \ {Top(s)}], order[Top(s)])
      BY <1>13, <2>1
    <3> QED BY <1>4, <1>7, <2>1, <3>1
  <2> QED BY <1>13, <2>1 DEF FoldedInto
<1>15. h[1 .. n] \in J[1 .. n]
  <2>1. 1 .. n \in SUBSET (1 .. n)
    OBVIOUS
  <2> QED BY <1>8, <1>14, <2>1, FoldStays
<1>16. h[1 .. n] \in Good(S!Ids)
  <2>1. 1 .. n \in SUBSET (1 .. n)
    OBVIOUS
  <2> QED BY <1>0, <1>6, <1>15, <2>1
<1> DEFINE r == h[1 .. n]
<1>17. PICK z, last : Placed(z, last, r, S!Ids)
  BY <1>16 DEF Good
<1>18. S!TotalCompletion(order) = Total(last, S!Ids)
  BY <1>0, <1>1, <1>17 DEF Placed
<1> HIDE DEF r
<1>19. Timetable(S!Ids, arrival_time, burst_time, z)
  <2>1. IsFiniteSet(S!Ids) /\ 0 \notin S!Ids
    BY SchedulersIds
  <2>2. \A p \in S!Ids : IsFiniteSet(z[p]) /\ Cardinality(z[p]) = burst_time[p] /\ \A j \in z[p] : j > arrival_time[p]
    <3>1. ASSUME NEW p \in S!Ids, NEW j \in z[p] PROVE j > arrival_time[p]
      <4>1. arrival_time[p] < j
        BY <1>17 DEF Placed
      <4>2. z[p] \in SUBSET Nat /\ arrival_time[p] \in Nat
        BY <1>17 DEF Placed
      <4> QED BY <4>1, <4>2
    <3> QED BY <1>17, <3>1 DEF Placed
  <2> QED BY <1>17, <2>1, <2>2 DEF Placed, Timetable
<1> QED BY <1>17, <1>18, <1>19 DEF Placed

-----------------------------------------------------------------------------
(***************************************************************************)
(* The schedulers with one queue: the shortest first.                      *)
(***************************************************************************)
(* What p still needs after t units of time. *)
UnitsUntil(p, t) == {j \in S!Units(p) : j <= t}
StillNeeds(p, t) == burst_time[p] - Cardinality(UnitsUntil(p, t))

(* In every unit so far the CPU went to one that then needed the least.    *)
Preferred ==
  \A t \in 0 .. S!time - 1 : \A p \in S!Ids :
     arrival_time[p] <= t /\ StillNeeds(p, t) > 0 =>
       \E r \in S!Ids : t + 1 \in S!Units(r) /\ StillNeeds(r, t) <= StillNeeds(p, t)

(* What sjf.c and srtf.c keep besides, which makes them optimal.           *)
ShortestInv ==
  /\ policy = "srtf" => \A p \in S!Ids : burst_time[p] > 0
  /\ policy = "sjf" => \A i, k \in S!Ids : i <= k => burst_time[processes[i]] <= burst_time[processes[k]]
  /\ policy = "sjf" => \A p \in S!Ids : burst_time[p] = 0 =>
       waiting_time[p] = 0 /\ (p \notin completed => S!time = 0)
  /\ policy \in {"sjf", "srtf"} => Preferred

(* Now everybody needs what remains.                                       *)
LEMMA NeedsNow ==
  ASSUME S!TypeOK, CountInv, NEW p \in S!Ids
  PROVE  StillNeeds(p, S!time) = remaining[p]
<1>1. S!Units(p) \subseteq 1 .. S!time /\ S!time \in Nat
  BY UnitsFinite, SchedulerTimes
<1>2. UnitsUntil(p, S!time) = S!Units(p)
  BY <1>1 DEF UnitsUntil
<1>3. Cardinality(S!Units(p)) = burst_time[p] - remaining[p] /\ burst_time[p] \in Nat /\ remaining[p] \in Nat
  BY SchedulerTimes DEF CountInv
<1> QED BY <1>2, <1>3 DEF StillNeeds

(* A turn does not change what was needed before, and takes from p only.   *)
LEMMA NeedsAfterTurn ==
  ASSUME S!TypeOK, CountInv, NEW p, NEW u, NEW d, ProperTurn(p, u, d),
         NEW q \in S!Ids, NEW t \in 0 .. S!time + u
  PROVE  /\ t <= S!time => StillNeeds(q, t)' = StillNeeds(q, t)
         /\ t >= S!time => StillNeeds(q, t)' = IF q = p THEN remaining[q] - (t - S!time) ELSE remaining[q]
<1> DEFINE T == S!time
           U == S!Units(q)
           New == T + 1 .. t
<1>1. /\ S!Units(q)' = (IF q = p THEN U \union (T + 1 .. T + u) ELSE U) /\ burst_time' = burst_time
      /\ T \in Nat /\ u \in Nat
  BY TurnEffects DEF ProperTurn
<1>2. U \subseteq 1 .. T /\ IsFiniteSet(U) /\ Cardinality(U) = burst_time[q] - remaining[q]
      /\ burst_time[q] \in Nat /\ remaining[q] \in Nat
  BY UnitsFinite, SchedulerTimes DEF CountInv
<1>3. /\ StillNeeds(q, t) = burst_time[q] - Cardinality({j \in U : j <= t})
      /\ StillNeeds(q, t)' = burst_time[q] - Cardinality({j \in S!Units(q)' : j <= t})
  BY <1>1 DEF StillNeeds, UnitsUntil
<1> HIDE DEF T, U
<1>4. t \in Nat /\ t <= T + u
  BY <1>1 DEF T
<1>5. ASSUME t <= T PROVE StillNeeds(q, t)' = StillNeeds(q, t)
  <2>1. \A j \in T + 1 .. T + u : ~(j <= t)
    BY <1>1, <1>4, <1>5
  <2>2. {j \in S!Units(q)' : j <= t} = {j \in U : j <= t}
    BY <1>1, <2>1
  <2> QED BY <1>3, <2>2
<1>6. ASSUME t >= T, q # p PROVE StillNeeds(q, t)' = remaining[q]
  <2>1. {j \in S!Units(q)' : j <= t} = U
    <3>1. S!Units(q)' = U
      BY <1>1, <1>6
    <3>2. \A j \in U : j <= t
      BY <1>1, <1>2, <1>4, <1>6
    <3> QED BY <3>1, <3>2
  <2>2. StillNeeds(q, t)' = burst_time[q] - Cardinality(U)
    BY <1>3, <2>1
  <2> QED BY ONLY <1>2, <2>2
<1>7. ASSUME t >= T, q = p PROVE StillNeeds(q, t)' = remaining[q] - (t - T)
  <2>1. {j \in S!Units(q)' : j <= t} = U \union New
    <3>1. S!Units(q)' = U \union (T + 1 .. T + u)
      BY <1>1, <1>7
    <3>2. \A j \in U : j <= t
      BY <1>1, <1>2, <1>4, <1>7
    <3>3. {j \in T + 1 .. T + u : j <= t} = New
      BY <1>1, <1>4
    <3> HIDE DEF New
    <3> QED BY <3>1, <3>2, <3>3
  <2>2. IsFiniteSet(New) /\ Cardinality(New) = t - T
    <3> DEFINE c == T + 1
    <3>1. c \in Int /\ t \in Int
      BY <1>1, <1>4
    <3> HIDE DEF c
    <3>2. IsFiniteSet(c .. t) /\ Cardinality(c .. t) = IF c > t THEN 0 ELSE t - c + 1
      BY <3>1, FS_Interval
    <3>3. Cardinality(c .. t) = t - T
      BY ONLY <1>1, <1>4, <1>7, <3>2 DEF c
    <3> QED BY <3>2, <3>3 DEF c
  <2>3. U \cap New = {}
    BY <1>1, <1>2, <1>4
  <2> HIDE DEF New
  <2>4. Cardinality(U \union New) = Cardinality(U) + Cardinality(New) - Cardinality({})
    BY <1>2, <2>2, <2>3, FS_Union
  <2>5. Cardinality({}) = 0
    BY FS_EmptySet
  <2>6. StillNeeds(q, t)' = burst_time[q] - Cardinality(U \union New)
    BY <1>3, <2>1
  <2> QED BY ONLY <1>1, <1>2, <1>4, <2>2, <2>4, <2>5, <2>6
<1> QED BY <1>5, <1>6, <1>7 DEF T

(* A turn of one that needs the least of those who arrive before its end.  *)
LEMMA PreferredTurns ==
  ASSUME S!TypeOK, CountInv, Preferred, NEW p, NEW u, NEW d, ProperTurn(p, u, d),
         \A q \in S!Ids : arrival_time[q] < S!time + u /\ remaining[q] > 0 => remaining[p] <= remaining[q]
  PROVE  Preferred'
<1> DEFINE T == S!time
<1>1. /\ S!time' = T + u /\ T \in Nat /\ u \in Nat /\ p \in S!Ids /\ arrival_time' = arrival_time
      /\ \A q \in S!Ids : S!Units(q)' = IF q = p THEN S!Units(q) \union (T + 1 .. T + u) ELSE S!Units(q)
  BY TurnEffects DEF ProperTurn
<1>2. \A q \in S!Ids : remaining[q] \in Nat /\ arrival_time[q] \in Nat
  BY SchedulerTimes
<1>3. SUFFICES ASSUME NEW t \in 0 .. T + u - 1, NEW q \in S!Ids, arrival_time[q] <= t, StillNeeds(q, t)' > 0
               PROVE  \E r \in S!Ids : t + 1 \in S!Units(r)' /\ StillNeeds(r, t)' <= StillNeeds(q, t)'
  BY <1>1 DEF Preferred
<1>4. t \in 0 .. S!time + u /\ t \in Nat
  BY <1>1
<1>5. ASSUME NEW r \in S!Ids
      PROVE  /\ t <= T => StillNeeds(r, t)' = StillNeeds(r, t)
             /\ t >= T => StillNeeds(r, t)' = IF r = p THEN remaining[r] - (t - T) ELSE remaining[r]
  BY <1>4, NeedsAfterTurn
<1>6. CASE t < T
  <2>1. t \in 0 .. S!time - 1 /\ t <= T
    BY <1>1, <1>4, <1>6
  <2>2. StillNeeds(q, t)' = StillNeeds(q, t)
    BY <1>5, <2>1
  <2>3. PICK r \in S!Ids : t + 1 \in S!Units(r) /\ StillNeeds(r, t) <= StillNeeds(q, t)
    BY <1>3, <2>1, <2>2 DEF Preferred
  <2>4. StillNeeds(r, t)' = StillNeeds(r, t)
    BY <1>5, <2>1
  <2>5. t + 1 \in S!Units(r)'
    BY <1>1, <2>3
  <2> QED BY <2>2, <2>3, <2>4, <2>5
<1>7. CASE t >= T
  <2>1. t + 1 \in S!Units(p)'
    <3>1. t + 1 \in T + 1 .. T + u
      BY <1>1, <1>4, <1>7
    <3> QED BY <1>1, <3>1
  <2>2. StillNeeds(p, t)' <= StillNeeds(q, t)'
    <3>1. CASE q = p
      <4>1. StillNeeds(p, t)' = remaining[p] - (t - T)
        BY <1>1, <1>5, <1>7
      <4>2. remaining[p] \in Nat
        BY <1>1, <1>2
      <4> QED BY <1>1, <1>4, <3>1, <4>1, <4>2
    <3>2. CASE q # p
      <4>1. StillNeeds(q, t)' = remaining[q]
        BY <1>5, <1>7, <3>2
      <4>2. StillNeeds(p, t)' = remaining[p] - (t - T)
        BY <1>1, <1>5, <1>7
      <4>3. arrival_time[q] < S!time + u
        BY <1>1, <1>2, <1>3, <1>4
      <4>4. remaining[p] <= remaining[q]
        BY <1>3, <4>1, <4>3
      <4>5. remaining[p] \in Nat /\ remaining[q] \in Nat
        BY <1>1, <1>2
      <4> HIDE DEF T
      <4>6. t - T \in Nat
        BY ONLY <1>1, <1>4, <1>7
      <4> QED BY ONLY <4>1, <4>2, <4>4, <4>5, <4>6
    <3> QED BY <3>1, <3>2
  <2> QED BY <1>1, <2>1, <2>2
<1> QED BY <1>1, <1>4, <1>6, <1>7

(* sjf.c takes the shortest of those that are left.                        *)
LEMMA SjfTurn ==
  ASSUME S!TypeOK, CountInv, PolicyInv, ShortestInv, policy = "sjf",
         NEW p, NEW u, NEW d, ProperTurn(p, u, d), u = burst_time[p], d,
         p = processes[Cardinality(completed) + 1]
  PROVE  ShortestInv'
<1> DEFINE c == Cardinality(completed)
           T == S!time
<1>1. /\ S!time' = T + u /\ T \in Nat /\ p \in S!Ids /\ p \notin completed
      /\ completed' = completed \union {p}
      /\ \A q \in S!Ids : waiting_time'[q] = IF q = p THEN T + u - arrival_time[p] - burst_time[p] ELSE waiting_time[q]
      /\ policy' = policy /\ burst_time' = burst_time /\ processes' = processes
  <2>1. /\ S!time' = S!time + u /\ S!time \in Nat
        /\ completed' = IF d THEN completed \union {p} ELSE completed
        /\ \A q \in S!Ids : waiting_time'[q] = IF q = p /\ d THEN S!time + u - arrival_time[p] - burst_time[p]
                                                             ELSE waiting_time[q]
    BY ONLY S!TypeOK, ProperTurn(p, u, d), TurnEffects
  <2>2. policy' = policy /\ burst_time' = burst_time /\ processes' = processes
    BY TurnEffects
  <2>3. p \in S!Ids /\ p \notin completed
    BY DEF ProperTurn
  <2>4. d
    OBVIOUS
  <2> QED BY <2>1, <2>2, <2>3, <2>4
<1>2. \A q \in S!Ids : remaining[q] \in Nat /\ arrival_time[q] = 0 /\ burst_time[q] \in Nat
  BY SchedulerTimes DEF PolicyInv
<1>3. ASSUME NEW q \in S!Ids, q \notin completed PROVE burst_time[p] <= burst_time[q] /\ remaining[q] = burst_time[q]
  <2>1. completed = {processes[k] : k \in 1 .. c} /\ c \in Nat /\ processes \in Arrays
    BY SchedulerTimes DEF PolicyInv
  <2>2. PICK k \in S!Ids : processes[k] = q
    BY <2>1 DEF Arrays
  <2> HIDE DEF c
  <2>3. S!Ids = 1 .. n /\ n \in Nat
    BY SchedulersIds, SchedulersConstants
  <2>4. k \notin 1 .. c
    BY <1>3, <2>1, <2>2
  <2>5. c + 1 \in S!Ids /\ c + 1 <= k
    BY <2>1, <2>2, <2>3, <2>4
  <2>6. burst_time[processes[c + 1]] <= burst_time[processes[k]]
    BY <2>2, <2>5 DEF ShortestInv
  <2>7. p = processes[c + 1]
    BY DEF c
  <2> QED BY <1>3, <2>2, <2>6, <2>7 DEF PolicyInv
<1>4. Preferred'
  <2>1. ASSUME NEW q \in S!Ids, remaining[q] > 0 PROVE remaining[p] <= remaining[q]
    <3>1. q \notin completed
      BY <2>1 DEF CountInv
    <3> QED BY <1>1, <1>3, <3>1
  <2>2. Preferred
    BY DEF ShortestInv
  <2> QED BY <2>1, <2>2, PreferredTurns
<1>5. ASSUME NEW q \in S!Ids, burst_time[q] = 0
      PROVE  waiting_time'[q] = 0 /\ (q \notin completed' => S!time' = 0)
  <2>1. CASE q \in completed
    <3>1. q # p
      BY <1>1, <2>1
    <3> QED BY <1>1, <1>5, <2>1, <3>1 DEF ShortestInv
  <2>2. CASE q \notin completed
    <3>1. T = 0
      BY <1>5, <2>2 DEF ShortestInv
    <3>2. u = 0
      BY <1>1, <1>2, <1>3, <1>5, <2>2
    <3>3. S!time' = 0 /\ waiting_time'[p] = 0
      BY <1>1, <1>2, <3>1, <3>2
    <3> QED BY <1>1, <1>5, <3>3 DEF ShortestInv
  <2> QED BY <2>1, <2>2
<1>6. S!Ids' = S!Ids
  BY DEF S!Ids
<1> QED BY <1>1, <1>4, <1>5, <1>6 DEF ShortestInv

(* srtf.c takes the one with the shortest remaining time.                  *)
LEMMA SrtfTurn ==
  ASSUME S!TypeOK, CountInv, PolicyInv, ShortestInv, policy = "srtf",
         NEW p, NEW d, ProperTurn(p, 1, d), \A q \in S!Arrived(S!time) : remaining[p] <= remaining[q]
  PROVE  ShortestInv'
<1>1. policy' = policy /\ burst_time' = burst_time
  BY TurnEffects
<1>2. Preferred'
  <2>1. ASSUME NEW q \in S!Ids, arrival_time[q] < S!time + 1, remaining[q] > 0 PROVE remaining[p] <= remaining[q]
    <3>1. q \notin completed
      BY <2>1 DEF CountInv
    <3>2. arrival_time[q] <= S!time
      BY <2>1, SchedulerTimes
    <3>3. q \in S!Arrived(S!time)
      BY <3>1, <3>2 DEF S!Arrived
    <3> QED BY <3>3
  <2>2. Preferred
    BY DEF ShortestInv
  <2> QED BY <2>1, <2>2, PreferredTurns
<1>3. S!Ids' = S!Ids
  BY DEF S!Ids
<1> QED BY <1>1, <1>2, <1>3 DEF ShortestInv

(* Nobody who has arrived needs the unit that passes idle.                 *)
LEMMA IdleIsPreferred ==
  ASSUME S!TypeOK, CountInv, PolicyInv, ShortestInv, S!srtf_idle
  PROVE  ShortestInv'
<1>1. /\ policy' = policy /\ arrival_time' = arrival_time /\ burst_time' = burst_time
      /\ chart' = Append(chart, 0) /\ policy = "srtf" /\ S!Arrived(S!time) = {}
  BY DEF S!srtf_idle, S!inputs, S!Ready
<1>2. S!time \in Nat /\ S!time = Len(chart) /\ chart \in Seq(S!Ids \union {0})
  BY SchedulerTimes
<1>3. /\ S!time' = S!time + 1 /\ chart'[S!time + 1] = 0
      /\ \A j \in 1 .. S!time : chart'[j] = chart[j]
  BY <1>1, <1>2 DEF S!time
<1>4. ASSUME NEW q \in S!Ids PROVE S!Units(q)' = S!Units(q)
  <2>1. S!Units(q)' = {j \in 1 .. S!time + 1 : chart'[j] = q} /\ S!Units(q) = {j \in 1 .. S!time : chart[j] = q}
    BY <1>3 DEF S!Units
  <2>2. q # 0
    BY SchedulersIds
  <2>3. 1 .. S!time + 1 = (1 .. S!time) \union {S!time + 1}
    BY <1>2
  <2> QED BY <1>3, <2>1, <2>2, <2>3
<1>5. \A q \in S!Ids : \A t \in Nat : StillNeeds(q, t)' = StillNeeds(q, t)
  BY <1>1, <1>4 DEF StillNeeds, UnitsUntil
<1>6. ASSUME NEW t \in 0 .. S!time, NEW q \in S!Ids, arrival_time[q] <= t, StillNeeds(q, t) > 0
      PROVE  \E r \in S!Ids : t + 1 \in S!Units(r) /\ StillNeeds(r, t) <= StillNeeds(q, t)
  <2>1. CASE t = S!time
    <3>1. remaining[q] > 0
      BY <1>6, <2>1, NeedsNow
    <3>2. q \notin completed
      BY <3>1 DEF CountInv
    <3>3. q \in S!Arrived(S!time)
      BY <1>6, <2>1, <3>2 DEF S!Arrived
    <3> QED BY <1>1, <3>3
  <2>2. CASE t # S!time
    <3>1. t \in 0 .. S!time - 1
      BY <1>2, <2>2
    <3>2. Preferred
      BY <1>1 DEF ShortestInv
    <3> QED BY <1>6, <3>1, <3>2 DEF Preferred
  <2> QED BY <2>1, <2>2
<1>7. Preferred'
  <2>1. ASSUME NEW t \in 0 .. S!time' - 1, NEW q \in S!Ids, arrival_time[q] <= t, StillNeeds(q, t)' > 0
        PROVE  \E r \in S!Ids : t + 1 \in S!Units(r)' /\ StillNeeds(r, t)' <= StillNeeds(q, t)'
    <3>1. t \in 0 .. S!time /\ t \in Nat
      BY <1>2, <1>3
    <3>2. StillNeeds(q, t)' = StillNeeds(q, t)
      BY <1>5, <3>1
    <3>3. PICK r \in S!Ids : t + 1 \in S!Units(r) /\ StillNeeds(r, t) <= StillNeeds(q, t)
      BY <1>6, <2>1, <3>1, <3>2
    <3>4. StillNeeds(r, t)' = StillNeeds(r, t) /\ S!Units(r)' = S!Units(r)
      BY <1>4, <1>5, <3>1
    <3> QED BY <3>2, <3>3, <3>4
  <2> QED BY <1>1, <2>1 DEF Preferred
<1>8. S!Ids' = S!Ids
  BY DEF S!Ids
<1> QED BY <1>1, <1>7, <1>8 DEF ShortestInv

(* Steps that leave the schedule alone.                                    *)
LEMMA ShortestStays ==
  ASSUME S!TypeOK, ShortestInv, UNCHANGED <<S!inputs, completed, waiting_time, chart>>
  PROVE  ShortestInv'
<1>1. /\ policy' = policy /\ arrival_time' = arrival_time /\ burst_time' = burst_time
      /\ processes' = processes /\ completed' = completed /\ waiting_time' = waiting_time /\ chart' = chart
  BY DEF S!inputs
<1>2. S!time' = S!time
  BY <1>1 DEF S!time
<1>3. \A q \in S!Ids : S!Units(q)' = S!Units(q)
  BY <1>1, <1>2 DEF S!Units
<1>4. \A q \in S!Ids : \A t \in Nat : StillNeeds(q, t)' = StillNeeds(q, t)
  BY <1>1, <1>3 DEF StillNeeds, UnitsUntil
<1>5. S!Ids' = S!Ids
  BY DEF S!Ids
<1>6. ASSUME Preferred PROVE Preferred'
  <2>1. \A t \in 0 .. S!time - 1 : t \in Nat
    BY SchedulerTimes
  <2>2. ASSUME NEW t \in 0 .. S!time - 1, NEW q \in S!Ids, arrival_time[q] <= t, StillNeeds(q, t)' > 0
        PROVE  \E r \in S!Ids : t + 1 \in S!Units(r)' /\ StillNeeds(r, t)' <= StillNeeds(q, t)'
    <3>1. StillNeeds(q, t)' = StillNeeds(q, t)
      BY <1>4, <2>1
    <3>2. PICK r \in S!Ids : t + 1 \in S!Units(r) /\ StillNeeds(r, t) <= StillNeeds(q, t)
      BY <1>6, <2>2, <3>1 DEF Preferred
    <3>3. StillNeeds(r, t)' = StillNeeds(r, t) /\ S!Units(r)' = S!Units(r)
      BY <1>3, <1>4, <2>1
    <3> QED BY <3>1, <3>2, <3>3
  <2> QED BY <1>1, <1>2, <2>2 DEF Preferred
<1> QED BY <1>1, <1>2, <1>5, <1>6 DEF ShortestInv

(* It holds at the start: sjf.c has sorted its array.                      *)
LEMMA ShortestStarts == ASSUME S!Init PROVE ShortestInv
<1>1. S!TypeOK
  BY SchedulersStart
<1>2. /\ completed = {} /\ waiting_time = [p \in S!Ids |-> 0]
      /\ policy = "srtf" => burst_time \in [S!Ids -> Bursts \ {0}]
      /\ policy = "sjf" => processes = S!selection_sort(S!Unsorted)
      /\ policy \in {"sjf", "srtf"} => chart = <<>>
  BY DEF S!Init
<1>3. burst_time \in [S!Ids -> Nat]
  BY <1>1, SchedulerTimes
<1>4. policy = "srtf" => \A p \in S!Ids : burst_time[p] > 0
  BY <1>2, <1>3
<1>5. ASSUME policy = "sjf", NEW i \in S!Ids, NEW k \in S!Ids, i <= k
      PROVE  burst_time[processes[i]] <= burst_time[processes[k]]
  <2>1. processes = S!selection_sort(S!Unsorted)
    BY <1>2, <1>5
  <2>2. burst_time[S!selection_sort(S!Unsorted)[i]] <= burst_time[S!selection_sort(S!Unsorted)[k]]
    BY <1>3, <1>5, UnsortedArray, SelectionSorts
  <2> QED BY <2>1, <2>2
<1>6. policy \in {"sjf", "srtf"} => S!time = 0
  BY <1>2 DEF S!time
<1>7. policy \in {"sjf", "srtf"} => Preferred
  <2>1. 0 .. 0 - 1 = {}
    OBVIOUS
  <2> QED BY <1>6, <2>1 DEF Preferred
<1>8. policy = "sjf" => \A p \in S!Ids : burst_time[p] = 0 =>
        waiting_time[p] = 0 /\ (p \notin completed => S!time = 0)
  BY <1>2, <1>6
<1> QED BY <1>4, <1>5, <1>7, <1>8 DEF ShortestInv

(* Every step keeps it.                                                    *)
LEMMA ShortestGoesOn ==
  ASSUME SchedulersInv, ShortestInv, S!Next \/ UNCHANGED S!schedulerVars
  PROVE  ShortestInv'
<1>1. policy' = policy
  BY InputsStay
<1>2. CASE policy \notin {"sjf", "srtf"}
  BY <1>1, <1>2 DEF ShortestInv
<1>3. CASE policy \in {"sjf", "srtf"}
  <2>1. S!TypeOK /\ CountInv /\ PolicyInv
    BY <1>3 DEF SchedulersInv, Pre
  <2>2. ASSUME UNCHANGED <<S!inputs, completed, waiting_time, chart>> PROVE ShortestInv'
    BY <2>1, <2>2, ShortestStays
  <2>3. CASE UNCHANGED S!schedulerVars
    BY <2>2, <2>3 DEF S!schedulerVars
  <2>4. CASE S!sjf
    <3>1. PICK p : /\ ProperTurn(p, burst_time[p], TRUE) /\ policy = "sjf"
                   /\ p = processes[Cardinality(completed) + 1]
      BY <2>1, <2>4, TurnsAreProper
    <3> DEFINE d == TRUE
               u == burst_time[p]
    <3>2. ProperTurn(p, u, d) /\ d /\ u = burst_time[p]
      BY <3>1
    <3> HIDE DEF d, u
    <3> QED BY <2>1, <3>1, <3>2, SjfTurn
  <2>5. CASE S!srtf
    <3>1. PICK p : /\ ProperTurn(p, 1, remaining[p] = 1) /\ policy = "srtf"
                   /\ \A q \in S!Arrived(S!time) : remaining[p] <= remaining[q]
      BY <2>1, <2>5, TurnsAreProper
    <3> DEFINE d == remaining[p] = 1
    <3>2. ProperTurn(p, 1, d)
      BY <3>1
    <3> HIDE DEF d
    <3> QED BY <2>1, <3>1, <3>2, SrtfTurn
  <2>6. CASE S!srtf_idle
    BY <2>1, <2>6, IdleIsPreferred
  <2>7. CASE S!Finish
    BY <2>2, <2>7 DEF S!Finish
  <2>8. CASE S!hrrn \/ S!hrrn_no_candidate \/ S!hrrn_divides_by_zero
    BY <1>3, <2>8 DEF S!hrrn, S!hrrn_no_candidate, S!hrrn_divides_by_zero, S!Ready
  <2>9. CASE S!rr
    BY <1>3, <2>9 DEF S!rr, S!Ready
  <2> QED BY <2>3, <2>4, <2>5, <2>6, <2>7, <2>8, <2>9 DEF S!Next
<1> QED BY <1>2, <1>3

(* At the end the units of the processes are a timetable.                  *)
LEMMA ScheduleIsTimetable ==
  ASSUME S!TypeOK, CountInv, PolicyInv, state = "done"
  PROVE  Timetable(S!Ids, arrival_time, burst_time, [p \in S!Ids |-> S!Units(p)])
<1> DEFINE s == [p \in S!Ids |-> S!Units(p)]
<1>1. /\ IsFiniteSet(S!Ids) /\ 0 \notin S!Ids
      /\ arrival_time \in [S!Ids -> Nat] /\ burst_time \in [S!Ids -> Nat]
  BY SchedulersIds, SchedulerTimes
<1>2. s \in [S!Ids -> SUBSET Nat]
  BY UnitsFinite
<1>3. ASSUME NEW p \in S!Ids
      PROVE  IsFiniteSet(S!Units(p)) /\ Cardinality(S!Units(p)) = burst_time[p] /\ \A j \in S!Units(p) : j > arrival_time[p]
  <2>1. remaining[p] \in Nat /\ remaining[p] <= burst_time[p] /\ burst_time[p] \in Nat
    BY SchedulerTimes
  <2>2. burst_time[p] > 0 => remaining[p] = 0
    BY DEF PolicyInv, CountInv
  <2>3. remaining[p] = 0
    BY <2>1, <2>2
  <2>4. Cardinality(S!Units(p)) = burst_time[p] - remaining[p] /\ \A j \in S!Units(p) : j > arrival_time[p]
    BY DEF CountInv
  <2>5. Cardinality(S!Units(p)) = burst_time[p]
    BY ONLY <2>1, <2>3, <2>4
  <2> QED BY <2>4, <2>5, UnitsFinite
<1>4. ASSUME NEW p \in S!Ids, NEW q \in S!Ids, p # q PROVE S!Units(p) \cap S!Units(q) = {}
  BY <1>4 DEF S!Units
<1>5. \A p \in S!Ids : s[p] = S!Units(p)
  OBVIOUS
<1> HIDE DEF s
<1>6. Timetable(S!Ids, arrival_time, burst_time, s)
  BY <1>1, <1>2, <1>3, <1>4, <1>5 DEF Timetable
<1> QED BY <1>6 DEF s

(* What is needed after t units is what comes later.                       *)
LEMMA NeedsLater ==
  ASSUME S!TypeOK, NEW p \in S!Ids, Cardinality(S!Units(p)) = burst_time[p], NEW t \in Nat
  PROVE  Cardinality(Later(S!Units(p), t)) = StillNeeds(p, t)
<1> DEFINE U == S!Units(p)
           X == UnitsUntil(p, t)
           Y == Later(U, t)
<1>1. IsFiniteSet(U) /\ U \subseteq Nat /\ Cardinality(U) = burst_time[p]
  BY UnitsFinite
<1>2. X = {j \in U : j <= t} /\ Y = {j \in U : j > t}
  BY DEF UnitsUntil, Later
<1> HIDE DEF U, X, Y
<1>3. X \union Y = U /\ X \cap Y = {}
  <2>1. \A j \in U : (j <= t \/ j > t) /\ ~(j <= t /\ j > t)
    BY <1>1
  <2> QED BY <1>2, <2>1
<1>4. IsFiniteSet(X) /\ IsFiniteSet(Y)
  BY <1>1, <1>3, FS_Subset
<1>5. Cardinality(X \union Y) = Cardinality(X) + Cardinality(Y) - Cardinality({})
  BY <1>3, <1>4, FS_Union
<1>6. Cardinality({}) = 0 /\ Cardinality(X) \in Nat /\ Cardinality(Y) \in Nat
  BY <1>4, FS_EmptySet, FS_CardinalityType
<1>7. Cardinality(X \union Y) = burst_time[p]
  BY <1>1, <1>3
<1>8. Cardinality(Y) = burst_time[p] - Cardinality(X)
  BY ONLY <1>5, <1>6, <1>7
<1> QED BY <1>8 DEF StillNeeds, U, X, Y

(* And it prefers the shortest.                                            *)
LEMMA ScheduleIsPreferred ==
  ASSUME S!TypeOK, CountInv, PolicyInv, Preferred, state = "done",
         NEW s, s = [p \in S!Ids |-> S!Units(p)]
  PROVE  PrefersShortest(S!Ids, arrival_time, Needs(S!Ids, s), Nexts(S!Ids, s))
<1>1. Timetable(S!Ids, arrival_time, burst_time, s)
  BY ScheduleIsTimetable
<1>2. /\ \A t \in Nat : \A p \in S!Ids : Needs(S!Ids, s)[t][p] > 0 <=> \E j \in s[p] : j > t
      /\ \A t \in Nat : \A p \in S!Ids : t + 1 \in s[p] <=> Nexts(S!Ids, s)[t] = p
  BY <1>1, TimetableRuns
<1>3. \A p \in S!Ids : s[p] = S!Units(p)
  OBVIOUS
<1>4. ASSUME NEW t \in Nat, NEW p \in S!Ids PROVE Needs(S!Ids, s)[t][p] = StillNeeds(p, t)
  <2>1. Cardinality(S!Units(p)) = burst_time[p]
    BY <1>1, <1>3 DEF Timetable
  <2>2. Needs(S!Ids, s)[t][p] = Cardinality(Later(s[p], t))
    BY DEF Needs
  <2> QED BY <1>3, <2>1, <2>2, NeedsLater
<1>5. ASSUME NEW t \in Nat, NEW p \in S!Ids, arrival_time[p] <= t, Needs(S!Ids, s)[t][p] > 0
      PROVE  /\ Nexts(S!Ids, s)[t] \in S!Ids
             /\ Needs(S!Ids, s)[t][Nexts(S!Ids, s)[t]] <= Needs(S!Ids, s)[t][p]
  <2>1. t \in 0 .. S!time - 1
    <3>1. PICK j \in S!Units(p) : j > t
      BY <1>2, <1>3, <1>5
    <3>2. j \in 1 .. S!time /\ S!time \in Nat
      BY <3>1, UnitsFinite, SchedulerTimes
    <3> QED BY <3>1, <3>2
  <2>2. StillNeeds(p, t) > 0
    BY <1>4, <1>5
  <2>3. PICK r \in S!Ids : t + 1 \in S!Units(r) /\ StillNeeds(r, t) <= StillNeeds(p, t)
    BY <1>5, <2>1, <2>2 DEF Preferred
  <2>4. Nexts(S!Ids, s)[t] = r
    BY <1>2, <1>3, <2>3
  <2> QED BY <1>4, <2>3, <2>4
<1> QED BY <1>5 DEF PrefersShortest

(* The turnaround time is the last unit of the process.                    *)
LEMMA TurnaroundIsLast ==
  ASSUME S!TypeOK, CountInv, PolicyInv, ShortestInv, state = "done", policy \in {"sjf", "srtf"},
         NEW p \in S!Ids, NEW c, c = waiting_time[p] + burst_time[p] + arrival_time[p]
  PROVE  c \in Nat /\ (c = 0 \/ c \in S!Units(p))
<1>1. burst_time[p] \in Nat /\ arrival_time[p] \in Nat
  BY SchedulerTimes
<1>2. CASE burst_time[p] = 0
  <2>1. policy = "sjf"
    BY <1>2 DEF ShortestInv
  <2>2. waiting_time[p] = 0 /\ arrival_time[p] = 0
    BY <1>2, <2>1 DEF ShortestInv, PolicyInv
  <2> QED BY <1>2, <2>2
<1>3. CASE burst_time[p] # 0
  <2>1. p \in completed /\ burst_time[p] > 0
    BY <1>1, <1>3 DEF PolicyInv
  <2>2. waiting_time[p] = S!LastUnit(p) - arrival_time[p] - burst_time[p] /\ remaining[p] = 0
    BY <2>1 DEF CountInv
  <2>3. Cardinality(S!Units(p)) = burst_time[p] - remaining[p]
    BY DEF CountInv
  <2>4. S!Units(p) # {} /\ IsFiniteSet(S!Units(p)) /\ S!Units(p) \subseteq Nat
    <3>1. Cardinality(S!Units(p)) # 0
      BY ONLY <1>1, <1>3, <2>2, <2>3
    <3> QED BY <3>1, UnitsFinite, FS_EmptySet
  <2>5. PICK j \in S!Units(p) : \A i \in S!Units(p) : i <= j
    BY <2>4, LargestOf
  <2>6. S!LastUnit(p) = j /\ j \in Nat
    BY <2>4, <2>5, LastIs
  <2>7. c = j
    BY ONLY <1>1, <2>2, <2>6, c = waiting_time[p] + burst_time[p] + arrival_time[p]
  <2> QED BY <2>6, <2>7
<1> QED BY <1>2, <1>3

(* So the schedules of sjf.c and srtf.c are optimal.                       *)
LEMMA ShortestKeeps == ASSUME SchedulersInv, ShortestInv PROVE S!ShortestFirstOptimal
<1> DEFINE C == [p \in S!Ids |-> waiting_time[p] + burst_time[p] + arrival_time[p]]
           s == [p \in S!Ids |-> S!Units(p)]
<1>1. SUFFICES ASSUME state = "done", policy \in {"sjf", "srtf"}, NEW order \in S!Orders
               PROVE  S!FoldFunctionOnSet(+, 0, C, S!Ids) <= S!TotalCompletion(order)
  BY DEF S!ShortestFirstOptimal
<1>2. S!TypeOK /\ CountInv /\ PolicyInv /\ Preferred
  BY <1>1 DEF SchedulersInv, Pre, ShortestInv
<1>3. \A p \in S!Ids : C[p] \in Nat /\ (C[p] = 0 \/ C[p] \in S!Units(p))
  BY <1>1, <1>2, TurnaroundIsLast
<1>4. C \in [S!Ids -> Nat] /\ \A p \in S!Ids : C[p] = 0 \/ C[p] \in s[p]
  BY <1>3
<1> HIDE DEF C, s
<1>5. Timetable(S!Ids, arrival_time, burst_time, s)
  BY <1>1, <1>2, ScheduleIsTimetable DEF s
<1>6. PrefersShortest(S!Ids, arrival_time, Needs(S!Ids, s), Nexts(S!Ids, s))
  BY <1>1, <1>2, ScheduleIsPreferred DEF s
<1>7. PICK z, last : /\ Timetable(S!Ids, arrival_time, burst_time, z) /\ last \in [S!Ids -> Nat]
                     /\ \A p \in S!Ids : \A j \in z[p] : j <= last[p]
                     /\ S!TotalCompletion(order) = Total(last, S!Ids)
  <2>1. arrival_time \in [S!Ids -> Nat] /\ burst_time \in [S!Ids -> Nat]
    BY <1>2, SchedulerTimes
  <2> QED BY <1>1, <2>1, OrderPlaces
<1>8. Total(C, S!Ids) <= Total(last, S!Ids)
  BY <1>4, <1>5, <1>6, <1>7, ShortestIsBest
<1>9. S!FoldFunctionOnSet(+, 0, C, S!Ids) = Total(C, S!Ids)
  BY TotalSchedulers
<1> QED BY <1>7, <1>8, <1>9

-----------------------------------------------------------------------------
(***************************************************************************)
(* The simulators.                                                         *)
(***************************************************************************)
(* The inductive invariant: each program's own, for the one that runs.      *)
SimulatorsInv ==
  \/ program = "mlfq" /\ MlfqInv /\ LevelsInv /\ CutInv
  \/ program = "schedulers" /\ SchedulersInv /\ ShortestInv

(* It holds throughout, so in every run of each of the five programs.       *)
THEOREM SimulatorsInvariant == Spec => []SimulatorsInv
<1>1. ASSUME Init PROVE SimulatorsInv
  <2>1. (program = "schedulers" /\ S!Init) \/ (program = "mlfq" /\ Q!Init)
    BY <1>1 DEF Init
  <2> QED BY <2>1, MlfqStarts, LevelsStart, CutStarts, SchedulersInit, ShortestStarts DEF SimulatorsInv
<1>2. ASSUME SimulatorsInv, [Next]_vars PROVE SimulatorsInv'
  <2>1. CASE program = "mlfq"
    <3>1. MlfqInv /\ LevelsInv /\ CutInv
      BY <1>2, <2>1 DEF SimulatorsInv
    <3>2. program' = program /\ (Q!Next \/ UNCHANGED Q!mlfqVars)
      <4>1. CASE UNCHANGED vars
        BY <4>1 DEF vars, shared, mlfqOwn, Q!mlfqVars, Q!inputs
      <4> QED BY <1>2, <2>1, <4>1 DEF Next, Step, mlfq, schedulers
    <3> QED BY <2>1, <3>1, <3>2, MlfqGoesOn, LevelsGoOn, CutGoesOn DEF SimulatorsInv
  <2>2. CASE program = "schedulers"
    <3>1. SchedulersInv /\ ShortestInv
      BY <1>2, <2>2 DEF SimulatorsInv
    <3>2. program' = program /\ (S!Next \/ UNCHANGED S!schedulerVars)
      <4>1. CASE UNCHANGED vars
        BY <4>1 DEF vars, shared, schedulersOwn, S!schedulerVars, S!inputs
      <4> QED BY <1>2, <2>2, <4>1 DEF Next, Step, mlfq, schedulers
    <3> QED BY <2>2, <3>1, <3>2, SchedulersGoOn, ShortestGoesOn DEF SimulatorsInv
  <2> QED BY <1>2, <2>1, <2>2 DEF SimulatorsInv
<1> QED BY <1>1, <1>2, PTL DEF Spec

(* The variables keep their types; no array is read outside its bounds, no  *)
(* queue outgrows its allocation (68-70), no process needs more time than   *)
(* its burst.                                                               *)
THEOREM SimulatorsTypeOK == Spec => []TypeOK
<1>1. SimulatorsInv => TypeOK
  BY MlfqKeeps, SchedulersKeep DEF SimulatorsInv, TypeOK
<1> QED BY <1>1, SimulatorsInvariant, PTL

(* What the tables and the clock say is what the simulation did, for any    *)
(* number of processes and any input (of HRRN.c: any on which somebody is   *)
(* always ready while work is left).                                        *)
THEOREM SimulatorsTimesAddUp == Spec => []TimesAddUp
<1>1. SimulatorsInv => TimesAddUp
  BY MlfqKeeps, SchedulersKeep DEF SimulatorsInv, TimesAddUp
<1> QED BY <1>1, SimulatorsInvariant, PTL

(* The loop of multi_level_sched.c ends early only over an entry nothing is *)
(* left of, and not before everybody who is there has had its first turn,   *)
(* for any number of processes, any bursts, arrivals and quanta.            *)
THEOREM SimulatorsCutShort == Spec => []CutShortByStaleHead
<1>1. SimulatorsInv => CutShortByStaleHead
  BY CutKeeps DEF SimulatorsInv, CutShortByStaleHead, Of
<1> QED BY <1>1, SimulatorsInvariant, PTL

(* multi_level_sched.c gives turns level by level. *)
THEOREM SimulatorsLevelsInOrder == Spec => []LevelsInOrder
<1>1. SimulatorsInv => LevelsInOrder
  BY LevelsKeep DEF SimulatorsInv, LevelsInOrder, Of
<1> QED BY <1>1, SimulatorsInvariant, PTL

(* sjf.c and srtf.c are optimal: at the end no order's schedule, with      *)
(* preemption, has a smaller total turnaround time, for any number of      *)
(* processes, any bursts (for srtf.c not 0) and, for srtf.c, any arrivals.  *)
THEOREM SimulatorsShortestFirstOptimal == Spec => []ShortestFirstOptimal
<1>1. SimulatorsInv => ShortestFirstOptimal
  BY ShortestKeeps DEF SimulatorsInv, ShortestFirstOptimal, Of
<1> QED BY <1>1, SimulatorsInvariant, PTL

=============================================================================
