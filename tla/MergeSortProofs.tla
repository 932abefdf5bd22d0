---------------------------- MODULE MergeSortProofs ----------------------------
(***************************************************************************)
(* Proofs about the parallel merge sort, as Programs runs it: where the     *)
(* calls of mergeSort() are, that the sections and the pairs of blocks of   *)
(* two children have no cell in common in any round, whatever the array's   *)
(* length and the number of sections, that no store loses a value, and that *)
(* the blocks of every round are in order unless a fork has failed.         *)
(***************************************************************************)
EXTENDS Programs, InductionLemmas

-----------------------------------------------------------------------------
(***************************************************************************)
(* Calls of merge, in order.                                               *)
(***************************************************************************)
LEMMA SortConstants ==
  SortCells \in Nat /\ SortSections \in Nat /\ 1 <= SortSections /\ SortSections <= SortCells /\ SortValues \subseteq Int
  BY ProgramsAssumption DEF ProgramsAssumption, S!MergeSortAssumption

Middle(l, r) == l + (r - l) \div 2

LEMMA Halves ==
  ASSUME NEW l \in S!Cells, NEW r \in S!Cells, l < r
  PROVE  /\ Middle(l, r) \in S!Cells /\ Middle(l, r) + 1 \in S!Cells
         /\ l <= Middle(l, r) /\ Middle(l, r) < r
<1>1. l \in Int /\ r \in Int /\ 0 <= l /\ r <= SortCells - 1
  BY SortConstants DEF S!Cells
<1>2. (r - l) \div 2 \in Int /\ 0 <= (r - l) \div 2 /\ (r - l) \div 2 < r - l
  BY <1>1
<1> QED BY <1>1, <1>2, SortConstants DEF Middle, S!Cells

CallsOf(f, x) ==
  IF x[1] < x[2]
  THEN f[<<x[1], Middle(x[1], x[2])>>] \o f[<<Middle(x[1], x[2]) + 1, x[2]>>]
         \o <<[l |-> x[1], m |-> Middle(x[1], x[2]), r |-> x[2]]>>
  ELSE <<>>

LEMMA SortCallsEquation ==
  S!mergeSort = [x \in S!Cells \X S!Cells |-> CallsOf(S!mergeSort, x)]
<1> DEFINE Dom == S!Cells \X S!Cells
           Val == Seq(S!Calls)
           Body(f) == [x \in Dom |-> CallsOf(f, x)]
           Fun == [f \in [Dom -> Val] |-> Body(f)]
           mu == [x \in Dom |-> IF x[1] < x[2] THEN x[2] - x[1] ELSE 0]
<1>1. \A f \in [Dom -> Val] : Body(f) \in [Dom -> Val]
  <2>0. SUFFICES ASSUME NEW f \in [Dom -> Val], NEW x \in Dom
               PROVE  CallsOf(f, x) \in Val
    OBVIOUS
  <2> DEFINE l == x[1]
             r == x[2]
  <2>1. l \in S!Cells /\ r \in S!Cells
    OBVIOUS
  <2>2. CASE l < r
    <3>1. /\ <<l, Middle(l, r)>> \in Dom /\ <<Middle(l, r) + 1, r>> \in Dom
          /\ [l |-> l, m |-> Middle(l, r), r |-> r] \in S!Calls
      <4> HIDE DEF l, r
      <4> QED BY <2>1, <2>2, Halves DEF S!Calls
    <3>2. f[<<l, Middle(l, r)>>] \in Val /\ f[<<Middle(l, r) + 1, r>>] \in Val
      <4> HIDE DEF l, r, Dom, Val
      <4> QED BY <3>1, <2>0
    <3>3. <<[l |-> l, m |-> Middle(l, r), r |-> r]>> \in Val
      BY <3>1
    <3>4. CallsOf(f, x) = f[<<l, Middle(l, r)>>] \o f[<<Middle(l, r) + 1, r>>]
                           \o <<[l |-> l, m |-> Middle(l, r), r |-> r]>>
      BY <2>2 DEF CallsOf
    <3> QED BY <3>2, <3>3, <3>4
  <2>3. CASE ~(l < r)
    BY <2>3 DEF CallsOf
  <2> QED BY <2>2, <2>3
<1>2. Fun \in [[Dom -> Val] -> [Dom -> Val]]
  <2> HIDE DEF Body, Dom, Val
  <2> QED BY <1>1
<1>3. mu \in [Dom -> Nat] /\ Val # {}
  <2>1. S!Cells \subseteq Int
    BY SortConstants DEF S!Cells
  <2>2. mu \in [Dom -> Nat]
    <3>1. ASSUME NEW x \in Dom PROVE (IF x[1] < x[2] THEN x[2] - x[1] ELSE 0) \in Nat
      <4>1. x[1] \in Int /\ x[2] \in Int
        BY <2>1
      <4> HIDE DEF Dom
      <4> QED BY <4>1
    <3> HIDE DEF Dom
    <3> QED BY <3>1
  <2>3. <<>> \in Val
    OBVIOUS
  <2> QED BY <2>2, <2>3
<1>4. ASSUME NEW g \in [Dom -> Val], NEW h \in [Dom -> Val], NEW x \in Dom,
             \A y \in Dom : mu[y] < mu[x] => g[y] = h[y]
      PROVE  Fun[g][x] = Fun[h][x]
  <2> DEFINE l == x[1]
             r == x[2]
  <2>1. l \in S!Cells /\ r \in S!Cells /\ S!Cells \subseteq Int
    BY SortConstants DEF S!Cells
  <2>2. CallsOf(g, x) = CallsOf(h, x)
    <3>1. CASE l < r
      <4>1. mu[x] = r - l
        BY <3>1
      <4>2. /\ <<l, Middle(l, r)>> \in Dom /\ <<Middle(l, r) + 1, r>> \in Dom
            /\ Middle(l, r) \in Int /\ l <= Middle(l, r) /\ Middle(l, r) < r
        <5> HIDE DEF l, r
        <5> QED BY <2>1, <3>1, Halves
      <4>3. mu[<<l, Middle(l, r)>>] < r - l /\ mu[<<Middle(l, r) + 1, r>>] < r - l
        <5> HIDE DEF l, r
        <5> QED BY <2>1, <3>1, <4>2
      <4>4. g[<<l, Middle(l, r)>>] = h[<<l, Middle(l, r)>>]
            /\ g[<<Middle(l, r) + 1, r>>] = h[<<Middle(l, r) + 1, r>>]
        <5> HIDE DEF l, r, mu, Dom
        <5> QED BY <1>4, <4>1, <4>2, <4>3
      <4> QED BY <4>4 DEF CallsOf
    <3>2. CASE ~(l < r)
      BY <3>2 DEF CallsOf
    <3> QED BY <3>1, <3>2
  <2>3. Body(g)[x] = Body(h)[x]
    <3> HIDE DEF Dom
    <3> QED BY <2>2
  <2> HIDE DEF Body
  <2> QED BY <2>3
<1>5. \E f \in [Dom -> Val] : f = Fun[f]
  <2>1. Recursive(Dom, Val, mu, Fun)
    <3> HIDE DEF Fun, mu, Dom, Val
    <3> QED BY <1>2, <1>3, <1>4 DEF Recursive
  <2> HIDE DEF Fun, mu, Dom, Val
  <2> QED BY <2>1, Recursion
<1>6. \E f : f = Body(f)
  <2> HIDE DEF Body, Dom, Val
  <2> QED BY <1>5
<1>7. \E f : f = [section \in S!Cells \X S!Cells |->
        LET l == section[1]
            r == section[2]
            m == l + (r - l) \div 2
        IN  IF l < r THEN f[<<l, m>>] \o f[<<m + 1, r>>] \o <<[l |-> l, m |-> m, r |-> r]>> ELSE <<>>]
  BY ONLY <1>6 DEF CallsOf, Middle
<1>8. S!mergeSort = [section \in S!Cells \X S!Cells |->
        LET l == section[1]
            r == section[2]
            m == l + (r - l) \div 2
        IN  IF l < r
            THEN S!mergeSort[<<l, m>>] \o S!mergeSort[<<m + 1, r>>] \o <<[l |-> l, m |-> m, r |-> r]>>
            ELSE <<>>]
  BY ONLY <1>7 DEF S!mergeSort
<1> QED BY ONLY <1>8 DEF CallsOf, Middle

-----------------------------------------------------------------------------
(***************************************************************************)
(* What the invariant says.                                                *)
(***************************************************************************)
(* The cells of a child's section, or of its pair of blocks, and how many   *)
(* children a round has.                                                    *)
Sorting == main \in {"fork_sort", "wait_sort"}
Merging == main \in {"fork_merge", "wait_merge"}

First(c) == IF Sorting THEN c * size ELSE c * (2 * size)
Last(c) ==
  IF Sorting THEN (IF c = SortSections - 1 THEN SortCells - 1 ELSE c * size + size - 1)
  ELSE IF c * (2 * size) + 2 * size - 1 < SortCells - 1 THEN c * (2 * size) + 2 * size - 1 ELSE SortCells - 1
Count == IF Sorting THEN SortSections ELSE S!num_merges

(* A pair of blocks whose second block is not empty. *)
HasPair(c) == First(c) + size - 1 < SortCells - 1

(* Where main() is in its loops, and which children may be at work.         *)
Idling(c) == todo[c] = <<>> /\ c \notin failed /\ c \notin unwaited

RoundInv ==
  /\ SortCells \div SortSections <= size
  /\ Sorting => size = SortCells \div SortSections
  /\ Merging => size < SortCells
  /\ main = "done" => SortCells <= size
  /\ IF main = "done" THEN i = 0 ELSE i < Count
  /\ \A c \in S!Kids :
       /\ main \in {"fork_sort", "fork_merge"} /\ i <= c => Idling(c)
       /\ main \in {"wait_sort", "wait_merge"} /\ c < i => todo[c] = <<>> /\ c \notin unwaited
       /\ main = "done" \/ Count <= c \/ (Merging /\ ~HasPair(c)) => Idling(c)
       /\ c \in failed => todo[c] = <<>>
  /\ ~incomplete => failed = {}

(* The calls a child still has to make, and the one it is in.               *)
Shape(cs, lt, rt, lo, hi) ==
  /\ \A k \in DOMAIN cs : lo <= cs[k].l /\ cs[k].l <= cs[k].m /\ cs[k].m < cs[k].r /\ cs[k].r <= hi
  /\ \/ lt = <<>> /\ rt = <<>>
     \/ /\ cs # <<>>
        /\ Len(lt) <= cs[1].m - cs[1].l + 1 /\ Len(rt) <= cs[1].r - cs[1].m

Shapes == \A c \in S!Kids : Shape(todo[c], L[c], R[c], First(c), Last(c))

InOrder(a, l, r) == \A k \in l .. r - 1 : a[k] <= a[k + 1]

(* A call contains an earlier one in one of its halves, or is apart from it. *)
Nested(cs) ==
  \A k \in DOMAIN cs : \A j \in 1 .. k - 1 :
    \/ cs[j].r < cs[k].l \/ cs[k].r < cs[j].l
    \/ cs[k].l <= cs[j].l /\ cs[j].r <= cs[k].m
    \/ cs[k].m + 1 <= cs[j].l /\ cs[j].r <= cs[k].r

(* Before the k-th call x .. y will be in order: an earlier call merges it,   *)
(* or it is in order and no earlier call touches it.                         *)
WillBeInOrder(a, cs, k, x, y) ==
  \/ \E j \in 1 .. k - 1 : cs[j].l = x /\ cs[j].r = y
  \/ InOrder(a, x, y) /\ \A j \in 1 .. k - 1 : cs[j].r < x \/ y < cs[j].l

Output(cs, lt, rt) == cs[1].r + 1 - Len(lt) - Len(rt)

(* What has been merged is in order, and below what has not been.            *)
Merges(a, cs, lt, rt) ==
  /\ InOrder(lt, 1, Len(lt)) /\ InOrder(rt, 1, Len(rt))
  /\ lt # <<>> \/ rt # <<>> =>
       /\ InOrder(a, cs[1].l, Output(cs, lt, rt) - 1)
       /\ \A k \in cs[1].l .. Output(cs, lt, rt) - 1 :
            /\ \A j \in DOMAIN lt : a[k] <= lt[j]
            /\ \A j \in DOMAIN rt : a[k] <= rt[j]

Sorts(a, cs, lt, rt, lo, hi) ==
  /\ Nested(cs)
  /\ \A k \in DOMAIN cs : k > 1 \/ (lt = <<>> /\ rt = <<>>) =>
       /\ WillBeInOrder(a, cs, k, cs[k].l, cs[k].m)
       /\ WillBeInOrder(a, cs, k, cs[k].m + 1, cs[k].r)
  /\ WillBeInOrder(a, cs, Len(cs) + 1, lo, hi)
  /\ Merges(a, cs, lt, rt)

Forked(c) == main \in {"wait_sort", "wait_merge"} \/ c < i

SortInv ==
  ~incomplete =>
    /\ \A c \in S!Kids : main # "done" /\ c < Count =>
         IF Forked(c) THEN Sorts(arr, todo[c], L[c], R[c], First(c), Last(c))
         ELSE Merging => /\ InOrder(arr, First(c), IF HasPair(c) THEN First(c) + size - 1 ELSE Last(c))
                         /\ HasPair(c) => InOrder(arr, First(c) + size, Last(c))
    /\ main = "done" => InOrder(arr, 0, SortCells - 1)

(* How long blocks are and how many merges there are. *)
LEMMA SectionLength ==
  ASSUME NEW q, q = SortCells \div SortSections
  PROVE  q \in Nat /\ 1 <= q /\ SortSections * q <= SortCells /\ SortCells < (q + 1) * SortSections
<1>1. SortCells \in Nat /\ SortSections \in Nat /\ 1 <= SortSections /\ SortSections <= SortCells
  BY SortConstants
<1>2. q \in Int /\ SortSections * q <= SortCells /\ SortCells < SortSections * q + SortSections
  BY <1>1
<1>3. 1 <= q
  <2>1. SUFFICES ASSUME q <= 0 PROVE FALSE
    BY <1>2
  <2>2. SortSections * q <= 0
    BY ONLY <1>1, <1>2, <2>1
  <2> QED BY ONLY <1>1, <1>2, <2>1, <2>2
<1>4. (q + 1) * SortSections = SortSections * q + SortSections
  BY ONLY <1>1, <1>2
<1> QED BY ONLY <1>1, <1>2, <1>3, <1>4

LEMMA MergeCount ==
  ASSUME NEW s \in Nat, 1 <= s, NEW nm, nm = (SortCells + 2 * s - 1) \div (2 * s)
  PROVE  /\ nm \in Nat /\ 1 <= nm
         /\ \A c \in Nat : c < nm <=> c * (2 * s) < SortCells
         /\ SortCells \div SortSections <= s => nm <= SortSections
<1>1. SortCells \in Nat /\ SortSections \in Nat /\ 1 <= SortSections /\ SortSections <= SortCells
  BY SortConstants
<1> DEFINE t == 2 * s
<1>2. t \in Nat /\ 2 <= t
  OBVIOUS
<1>3. nm \in Int /\ t * nm <= SortCells + t - 1 /\ SortCells + t - 1 < t * nm + t
  BY <1>1, <1>2
<1> HIDE DEF t
<1>4. 1 <= nm
  <2>1. SUFFICES ASSUME nm <= 0 PROVE FALSE
    BY <1>3
  <2>2. t * nm <= 0
    BY ONLY <1>2, <1>3, <2>1
  <2> QED BY ONLY <1>1, <1>2, <1>3, <2>1, <2>2
<1>5. ASSUME NEW c \in Nat PROVE c < nm <=> c * t < SortCells
  <2>1. CASE c < nm
    <3>1. t * (c + 1) <= t * nm /\ t * (c + 1) = c * t + t
      BY ONLY <2>1, <1>2, <1>3, c \in Nat
    <3>2. c * t \in Int /\ t * nm \in Int
      BY ONLY <1>2, <1>3, c \in Nat
    <3> QED BY ONLY <1>1, <1>2, <1>3, <2>1, <3>1, <3>2
  <2>2. CASE nm <= c
    <3>1. t * nm <= c * t
      BY ONLY <2>2, <1>2, <1>3, c \in Nat
    <3>2. c * t \in Int /\ t * nm \in Int
      BY ONLY <1>2, <1>3, c \in Nat
    <3> QED BY ONLY <1>1, <1>2, <1>3, <2>2, <3>1, <3>2, c \in Nat
  <2> QED BY ONLY <1>3, <2>1, <2>2, c \in Nat
<1>6. ASSUME SortCells \div SortSections <= s PROVE nm <= SortSections
  <2> DEFINE q == SortCells \div SortSections
  <2>1. q \in Nat /\ 1 <= q /\ q <= s /\ SortCells < (q + 1) * SortSections
    BY <1>6, SectionLength
  <2> HIDE DEF q
  <2>2. (q + 1) * SortSections <= t * SortSections
    <3>1. q + 1 <= t /\ q + 1 \in Nat
      BY <2>1 DEF t
    <3> QED BY ONLY <1>1, <1>2, <3>1
  <2>3. ~(SortSections < nm)
    <3>1. SortSections * t = t * SortSections /\ (q + 1) * SortSections \in Int /\ t * SortSections \in Int
      BY ONLY <1>1, <1>2, <2>1
    <3> QED BY <1>1, <1>5, <2>1, <2>2, <3>1
  <2> QED BY ONLY <1>1, <1>3, <2>3
<1> QED BY <1>3, <1>4, <1>5, <1>6 DEF t

(* The sections of a round and the calls within a section.                  *)
LEMMA RoundNumbers ==
  ASSUME S!TypeOK, RoundInv
  PROVE  /\ size \in Nat /\ 1 <= size /\ i \in Nat
         /\ Count \in Nat /\ 1 <= Count /\ Count <= SortSections
         /\ Sorting => Count = SortSections
         /\ Merging => /\ Count = S!num_merges
                       /\ \A c \in Nat : c < Count <=> c * (2 * size) < SortCells
<1>1. size \in Nat /\ 1 <= size /\ i \in Nat
  BY SortConstants DEF S!TypeOK, S!Kids
<1>2. SortCells \div SortSections <= size
  BY DEF RoundInv
<1>3. /\ S!num_merges \in Nat /\ 1 <= S!num_merges /\ S!num_merges <= SortSections
      /\ \A c \in Nat : c < S!num_merges <=> c * (2 * size) < SortCells
  BY <1>1, <1>2, MergeCount DEF S!num_merges
<1>4. ~(Sorting /\ Merging)
  BY DEF Sorting, Merging
<1> QED BY <1>1, <1>3, <1>4, SortConstants DEF Count

LEMMA SectionBounds ==
  ASSUME S!TypeOK, RoundInv, NEW c \in S!Kids
  PROVE  /\ c \in Nat /\ First(c) \in Nat /\ Last(c) \in Int /\ Last(c) <= SortCells - 1
         /\ c < Count /\ main # "done" => First(c) <= Last(c)
         /\ \A d \in S!Kids : c < d => Last(c) < First(d)
<1>1. /\ size \in Nat /\ 1 <= size /\ SortCells \in Nat /\ SortSections \in Nat /\ 1 <= SortSections
      /\ c \in Nat /\ c <= SortSections - 1
  BY RoundNumbers, SortConstants DEF S!Kids
<1>2. CASE Sorting
  <2>1. size * SortSections <= SortCells
    BY <1>2, SectionLength, <1>1 DEF RoundInv
  <2>2. c * size \in Nat /\ (c + 1) * size = c * size + size /\ (c + 1) * size <= SortSections * size
    BY <1>1, MultiplesGrow
  <2>3. size * SortSections = SortSections * size
    BY <1>1
  <2>4. ASSUME NEW d \in S!Kids, c < d PROVE c * size + size <= d * size
    BY <1>1, <2>2, <2>4, MultiplesGrow, SortConstants DEF S!Kids
  <2>5. ASSUME NEW d \in S!Kids, c < d PROVE c # SortSections - 1 /\ d * size \in Nat
    BY <1>1, <2>5, MultiplesGrow, SortConstants DEF S!Kids
  <2> QED BY <1>1, <1>2, <2>1, <2>2, <2>3, <2>4, <2>5 DEF First, Last
<1>3. CASE ~Sorting
  <2> DEFINE t == 2 * size
  <2>1. t \in Nat /\ 2 <= t /\ t = 2 * size
    BY <1>1
  <2> HIDE DEF t
  <2>2. c * t \in Nat /\ (c + 1) * t = c * t + t
    BY <1>1, <2>1, MultiplesGrow
  <2>3. ASSUME NEW d \in S!Kids, c < d PROVE c * t + t <= d * t /\ d * t \in Nat
    BY <1>1, <2>1, <2>2, <2>3, MultiplesGrow, SortConstants DEF S!Kids
  <2>4. c < Count /\ main # "done" => c * t < SortCells
    BY <1>1, <1>3, <2>1, RoundNumbers DEF S!TypeOK, Sorting, Merging
  <2>5. First(c) = c * t /\ Last(c) = (IF c * t + t - 1 < SortCells - 1 THEN c * t + t - 1 ELSE SortCells - 1)
        /\ \A d : First(d) = d * t
    BY <1>3, <2>1 DEF First, Last
  <2> QED BY <1>1, <2>1, <2>2, <2>3, <2>4, <2>5
<1> QED BY <1>2, <1>3

LEMMA SectionNames ==
  ASSUME S!TypeOK, RoundInv
  PROVE  /\ Sorting => S!SectionStart(i) = First(i) /\ S!SectionEnd(i) = Last(i)
         /\ Merging => /\ S!Left = First(i) /\ S!Mid = First(i) + size - 1 /\ S!Right = Last(i)
                       /\ First(i) \in S!Cells
                       /\ HasPair(i) <=> S!Mid < S!Right
                       /\ HasPair(i) <=> S!Left + size - 1 < SortCells - 1
<1>1. /\ size \in Nat /\ 1 <= size /\ SortCells \in Nat /\ SortSections \in Nat /\ 1 <= SortSections
      /\ i \in Nat /\ i <= SortSections - 1 /\ i \in S!Kids
  BY RoundNumbers, SortConstants DEF S!Kids, S!TypeOK
<1>2. i * 2 * size = i * (2 * size) /\ (i + 1) * size = i * size + size /\ i * (2 * size) \in Nat /\ i * size \in Nat
  BY ONLY <1>1
<1>3. CASE Sorting
  BY <1>1, <1>2, <1>3 DEF First, Last, S!SectionStart, S!SectionEnd, Sorting, Merging
<1>4. CASE Merging
  <2>0. ~Sorting /\ i < Count
    BY <1>4, <1>1 DEF Sorting, Merging, RoundInv
  <2>1. i * (2 * size) < SortCells
    BY <1>1, <1>4, <2>0, RoundNumbers
  <2>2. First(i) = i * (2 * size) /\ S!Left = i * (2 * size)
    BY <1>2, <2>0 DEF First, S!Left
  <2> DEFINE f == i * (2 * size)
  <2>3. S!Mid = f + size - 1
    BY <2>2 DEF S!Mid
  <2>4. S!Right = (IF f + 2 * size - 1 < SortCells - 1 THEN f + 2 * size - 1 ELSE SortCells - 1)
    BY <2>2 DEF S!Right
  <2>5. Last(i) = (IF f + 2 * size - 1 < SortCells - 1 THEN f + 2 * size - 1 ELSE SortCells - 1)
    BY <2>0 DEF Last
  <2>6. f \in Nat /\ f < SortCells
    BY <1>2, <2>1
  <2> HIDE DEF f
  <2>7. First(i) = f /\ S!Left = f
    BY <2>2 DEF f
  <2> QED BY <1>1, <2>0, <2>3, <2>4, <2>5, <2>6, <2>7 DEF HasPair, S!Cells
<1> QED BY <1>3, <1>4

(* One pass of a loop of the parent. *)
LEMMA Pass ==
  ASSUME NEW from, NEW count \in Nat, NEW to, i \in Nat, i < count, S!LoopPass(from, count, to)
  PROVE  /\ main = from
         /\ i + 1 = count => i' = 0 /\ main' = to
         /\ i + 1 # count => i' = i + 1 /\ main' = from
<1>1. (i + 1) % count = IF i + 1 = count THEN 0 ELSE i + 1
  <2>1. CASE i + 1 = count
    BY <2>1
  <2>2. CASE i + 1 < count
    BY <2>2
  <2> QED BY <2>1, <2>2
<1> QED BY <1>1 DEF S!LoopPass

-----------------------------------------------------------------------------
(***************************************************************************)
(* The calls of a section are nested.                                      *)
(***************************************************************************)
(* The calls of mergeSort on l .. r: they stay within, a call contains an    *)
(* earlier one in one of its halves or is apart from it, and what a call     *)
(* merges, and l .. r itself, is a single cell or what an earlier call made. *)
Made(cs, k, x, y) == x >= y \/ \E j \in 1 .. k - 1 : cs[j].l = x /\ cs[j].r = y

CallsRight(cs, l, r) ==
  /\ cs \in Seq(S!Calls)
  /\ \A k \in DOMAIN cs : l <= cs[k].l /\ cs[k].l <= cs[k].m /\ cs[k].m < cs[k].r /\ cs[k].r <= r
  /\ Nested(cs)
  /\ \A k \in DOMAIN cs : Made(cs, k, cs[k].l, cs[k].m) /\ Made(cs, k, cs[k].m + 1, cs[k].r)
  /\ Made(cs, Len(cs) + 1, l, r)

LEMMA CallNumbers ==
  S!Cells \subseteq Int /\ \A x \in S!Calls : x.l \in Int /\ x.m \in Int /\ x.r \in Int
  BY SortConstants DEF S!Cells, S!Calls

LEMMA Joined ==
  ASSUME NEW T, NEW s1 \in Seq(T), NEW s2 \in Seq(T), NEW x \in T, NEW cs, cs = s1 \o s2 \o <<x>>
  PROVE  /\ cs \in Seq(T) /\ Len(cs) = Len(s1) + Len(s2) + 1 /\ DOMAIN cs = 1 .. Len(s1) + Len(s2) + 1
         /\ Len(s1) \in Nat /\ Len(s2) \in Nat
         /\ DOMAIN s1 = 1 .. Len(s1) /\ DOMAIN s2 = 1 .. Len(s2)
         /\ \A k \in 1 .. Len(s1) : cs[k] = s1[k]
         /\ \A k \in 1 .. Len(s2) : cs[k + Len(s1)] = s2[k]
         /\ cs[Len(s1) + Len(s2) + 1] = x
  OBVIOUS

LEMMA JoinedCalls ==
  ASSUME NEW l \in Int, NEW m \in Int, NEW r \in Int, l <= m, m < r,
         NEW s1, CallsRight(s1, l, m), NEW s2, CallsRight(s2, m + 1, r),
         [l |-> l, m |-> m, r |-> r] \in S!Calls,
         NEW cs, cs = s1 \o s2 \o <<[l |-> l, m |-> m, r |-> r]>>
  PROVE  CallsRight(cs, l, r)
<1> DEFINE x == [l |-> l, m |-> m, r |-> r]
           a == Len(s1)
           b == Len(s2)
<1>0. x.l = l /\ x.m = m /\ x.r = r
  OBVIOUS
<1>1. s1 \in Seq(S!Calls) /\ s2 \in Seq(S!Calls) /\ x \in S!Calls /\ cs = s1 \o s2 \o <<x>>
  BY DEF CallsRight
<1> HIDE DEF x
<1>2. /\ cs \in Seq(S!Calls) /\ Len(cs) = a + b + 1 /\ DOMAIN cs = 1 .. a + b + 1
      /\ a \in Nat /\ b \in Nat /\ DOMAIN s1 = 1 .. a /\ DOMAIN s2 = 1 .. b
      /\ \A k \in 1 .. a : cs[k] = s1[k]
      /\ \A k \in 1 .. b : cs[k + a] = s2[k]
      /\ cs[a + b + 1] = x
  BY <1>1, Joined
<1> HIDE DEF a, b
<1>3. ASSUME NEW k \in 1 .. a + b + 1
      PROVE  \/ k \in 1 .. a
             \/ k - a \in 1 .. b /\ cs[k] = s2[k - a] /\ a < k
             \/ k = a + b + 1
  <2>1. CASE a < k /\ k <= a + b
    <3>1. k - a \in 1 .. b /\ (k - a) + a = k
      BY <1>2, <2>1
    <3> QED BY <1>2, <2>1, <3>1
  <2> QED BY <1>2, <2>1
<1>4. \A k \in 1 .. a : /\ s1[k] \in S!Calls /\ s1[k].l \in Int /\ s1[k].m \in Int /\ s1[k].r \in Int
                        /\ l <= s1[k].l /\ s1[k].l <= s1[k].m /\ s1[k].m < s1[k].r /\ s1[k].r <= m
  <2>1. \A k \in 1 .. a : s1[k] \in S!Calls
    BY <1>1, <1>2
  <2>2. \A k \in 1 .. a : l <= s1[k].l /\ s1[k].l <= s1[k].m /\ s1[k].m < s1[k].r /\ s1[k].r <= m
    BY <1>2 DEF CallsRight
  <2> QED BY <2>1, <2>2, CallNumbers
<1>5. \A k \in 1 .. b : /\ s2[k] \in S!Calls /\ s2[k].l \in Int /\ s2[k].m \in Int /\ s2[k].r \in Int
                        /\ m + 1 <= s2[k].l /\ s2[k].l <= s2[k].m /\ s2[k].m < s2[k].r /\ s2[k].r <= r
  <2>1. \A k \in 1 .. b : s2[k] \in S!Calls
    BY <1>1, <1>2
  <2>2. \A k \in 1 .. b : m + 1 <= s2[k].l /\ s2[k].l <= s2[k].m /\ s2[k].m < s2[k].r /\ s2[k].r <= r
    BY <1>2 DEF CallsRight
  <2> QED BY <2>1, <2>2, CallNumbers
<1>6. ASSUME NEW k \in DOMAIN cs
      PROVE l <= cs[k].l /\ cs[k].l <= cs[k].m /\ cs[k].m < cs[k].r /\ cs[k].r <= r
  <2>1. CASE k \in 1 .. a
    <3>1. cs[k] = s1[k]
      BY <1>2, <2>1
    <3>2. /\ cs[k].l \in Int /\ cs[k].m \in Int /\ cs[k].r \in Int
          /\ l <= cs[k].l /\ cs[k].l <= cs[k].m /\ cs[k].m < cs[k].r /\ cs[k].r <= m
      BY ONLY <1>4, <2>1, <3>1
    <3> QED BY ONLY <3>2, l \in Int, m \in Int, r \in Int, m < r
  <2>2. CASE k - a \in 1 .. b /\ cs[k] = s2[k - a]
    <3>1. /\ cs[k].l \in Int /\ cs[k].m \in Int /\ cs[k].r \in Int
          /\ m + 1 <= cs[k].l /\ cs[k].l <= cs[k].m /\ cs[k].m < cs[k].r /\ cs[k].r <= r
      BY ONLY <1>5, <2>2
    <3> QED BY ONLY <3>1, l \in Int, m \in Int, r \in Int, l <= m
  <2>3. CASE k = a + b + 1
    BY <1>2, <1>0, <2>3
  <2> QED BY <1>2, <1>3, <2>1, <2>2, <2>3
<1>7. ASSUME NEW k \in DOMAIN cs, NEW j \in 1 .. k - 1
      PROVE  \/ cs[j].r < cs[k].l \/ cs[k].r < cs[j].l
             \/ cs[k].l <= cs[j].l /\ cs[j].r <= cs[k].m
             \/ cs[k].m + 1 <= cs[j].l /\ cs[j].r <= cs[k].r
  <2>0. j \in 1 .. a + b + 1 /\ j < k /\ k \in 1 .. a + b + 1
    <3>1. k \in 1 .. a + b + 1
      BY <1>2
    <3>2. k \in Int /\ j \in Int /\ 1 <= j /\ j <= k - 1 /\ a + b + 1 \in Int /\ k <= a + b + 1
      BY <1>2, <3>1
    <3> QED BY ONLY <3>1, <3>2
  <2>1. CASE k \in 1 .. a
    <3>1. j \in 1 .. k - 1 /\ j \in 1 .. a
      BY <2>0, <2>1, <1>2
    <3> QED BY <1>2, <2>1, <3>1 DEF CallsRight, Nested
  <2>2. CASE k - a \in 1 .. b /\ cs[k] = s2[k - a]
    <3>1. CASE j \in 1 .. a
      <4>1. cs[k].l \in Int /\ m + 1 <= cs[k].l
        BY ONLY <1>5, <2>2
      <4>2. cs[j].r \in Int /\ cs[j].r <= m
        BY ONLY <1>2, <1>4, <3>1
      <4>3. cs[j].r < cs[k].l
        BY ONLY <4>1, <4>2, m \in Int
      <4> QED BY ONLY <4>3
    <3>2. CASE j - a \in 1 .. b /\ cs[j] = s2[j - a]
      <4>1. j - a \in 1 .. (k - a) - 1
        BY <1>2, <2>0, <2>2, <3>2
      <4> QED BY <1>2, <2>2, <3>2, <4>1 DEF CallsRight, Nested
    <3>3. j # a + b + 1
      BY <1>2, <2>0
    <3> QED BY <1>3, <2>0, <3>1, <3>2, <3>3
  <2>3. CASE k = a + b + 1
    <3>1. CASE j \in 1 .. a
      BY <1>2, <1>0, <1>4, <2>3, <3>1
    <3>2. CASE j - a \in 1 .. b /\ cs[j] = s2[j - a]
      BY <1>2, <1>0, <1>5, <2>3, <3>2
    <3>3. j # a + b + 1
      BY <1>2, <2>0
    <3> QED BY <1>3, <2>0, <3>1, <3>2, <3>3
  <2> QED BY <1>3, <2>0, <2>1, <2>2, <2>3
<1>8. ASSUME NEW k \in 0 .. a, NEW y, NEW z, Made(s1, k + 1, y, z) PROVE Made(cs, k + 1, y, z)
  <2>1. \A j \in 1 .. (k + 1) - 1 : cs[j] = s1[j]
    BY <1>2
  <2> QED BY <1>8, <2>1 DEF Made
<1>9. ASSUME NEW k \in 0 .. b, NEW y, NEW z, Made(s2, k + 1, y, z) PROVE Made(cs, k + a + 1, y, z)
  <2>1. ASSUME NEW j \in 1 .. (k + 1) - 1 PROVE cs[j + a] = s2[j] /\ j + a \in 1 .. (k + a + 1) - 1
    BY <1>2
  <2> QED BY <1>9, <2>1 DEF Made
<1>10. ASSUME NEW k \in DOMAIN cs
       PROVE  Made(cs, k, cs[k].l, cs[k].m) /\ Made(cs, k, cs[k].m + 1, cs[k].r)
  <2>1. CASE k \in 1 .. a
    <3>1. Made(s1, k, s1[k].l, s1[k].m) /\ Made(s1, k, s1[k].m + 1, s1[k].r)
      BY <1>2, <2>1 DEF CallsRight
    <3>2. k - 1 \in 0 .. a /\ (k - 1) + 1 = k
      <4>1. a \in Nat
        BY <1>2
      <4> QED BY ONLY <2>1, <4>1
    <3> QED BY <1>2, <1>8, <2>1, <3>1, <3>2
  <2>2. CASE k - a \in 1 .. b /\ cs[k] = s2[k - a]
    <3>1. Made(s2, k - a, cs[k].l, cs[k].m) /\ Made(s2, k - a, cs[k].m + 1, cs[k].r)
      BY <1>2, <2>2 DEF CallsRight
    <3>2. k - a - 1 \in 0 .. b /\ (k - a - 1) + 1 = k - a /\ (k - a - 1) + a + 1 = k
      <4>1. a \in Nat /\ b \in Nat /\ k \in Int
        BY <1>2
      <4> QED BY ONLY <2>2, <4>1
    <3> QED BY <1>9, <3>1, <3>2
  <2>3. CASE k = a + b + 1
    <3>1. Made(s1, a + 1, l, m) /\ Made(s2, b + 1, m + 1, r)
      BY DEF CallsRight, a, b
    <3>2. Made(cs, a + 1, l, m) /\ Made(cs, b + a + 1, m + 1, r)
      <4>1. a \in 0 .. a /\ b \in 0 .. b
        BY <1>2
      <4> QED BY <1>8, <1>9, <3>1, <4>1
    <3>0. a \in Nat /\ b \in Nat
      BY <1>2
    <3>3. Made(cs, k, l, m)
      <4>1. \A j \in 1 .. (a + 1) - 1 : j \in 1 .. k - 1
        BY ONLY <2>3, <3>0
      <4> QED BY <3>2, <4>1 DEF Made
    <3>4. b + a + 1 = k
      BY <3>0, <2>3
    <3> QED BY <1>0, <1>2, <2>3, <3>2, <3>3, <3>4
  <2> QED BY <1>2, <1>3, <2>1, <2>2, <2>3
<1>11. Made(cs, Len(cs) + 1, l, r)
  <2>1. a + b + 1 \in 1 .. (Len(cs) + 1) - 1
    BY <1>2
  <2> QED BY <1>0, <1>2, <2>1 DEF Made
<1> QED BY <1>2, <1>6, <1>7, <1>10, <1>11 DEF CallsRight, Nested

LEMMA NoCalls == ASSUME NEW l \in Int, NEW r \in Int, l >= r PROVE CallsRight(<<>>, l, r)
  BY DEF CallsRight, Nested, Made

LEMMA OneCall ==
  ASSUME NEW x \in S!Calls, x.l <= x.m, x.m < x.r
  PROVE  /\ <<x>> \in Seq(S!Calls) /\ Nested(<<x>>) /\ Len(<<x>>) = 1 /\ <<x>>[1] = x /\ DOMAIN <<x>> = {1}
  BY DEF Nested

LEMMA SortCallsRight ==
  ASSUME NEW l \in S!Cells, NEW r \in S!Cells
  PROVE  CallsRight(S!mergeSort[<<l, r>>], l, r)
<1> DEFINE Right(x, y) == CallsRight(S!mergeSort[<<x, y>>], x, y)
           bad == {s \in Nat : \E x \in S!Cells, y \in S!Cells : s = y - x /\ ~Right(x, y)}
<1>0. \A x \in S!Cells, y \in S!Cells : S!mergeSort[<<x, y>>] = CallsOf(S!mergeSort, <<x, y>>)
  <2> DEFINE Fun == [z \in S!Cells \X S!Cells |-> CallsOf(S!mergeSort, z)]
  <2>1. S!mergeSort = Fun
    BY SortCallsEquation
  <2>2. \A x \in S!Cells, y \in S!Cells : Fun[<<x, y>>] = CallsOf(S!mergeSort, <<x, y>>)
    OBVIOUS
  <2> HIDE DEF Fun
  <2> QED BY <2>1, <2>2
<1>1. ASSUME NEW x \in S!Cells, NEW y \in S!Cells, x >= y PROVE Right(x, y)
  <2>1. x \in Int /\ y \in Int
    BY CallNumbers
  <2>2. S!mergeSort[<<x, y>>] = <<>>
    <3>1. ~(x < y)
      BY <1>1, <2>1
    <3>2. CallsOf(S!mergeSort, <<x, y>>) = <<>>
      BY <3>1 DEF CallsOf
    <3> QED BY <1>0, <3>2
  <2> QED BY <1>1, <2>1, <2>2, NoCalls
<1>2. bad = {}
  <2>1. SUFFICES ASSUME bad # {} PROVE FALSE
    OBVIOUS
  <2>2. PICK s \in bad : \A t \in bad : s <= t
    <3>1. bad \subseteq Nat
      OBVIOUS
    <3> HIDE DEF bad
    <3> QED BY <2>1, <3>1, SmallestOf
  <2>3. PICK x \in S!Cells, y \in S!Cells : s = y - x /\ ~Right(x, y)
    BY <2>2
  <2>4. x \in Int /\ y \in Int /\ x < y /\ s \in Nat
    <3>1. x \in Int /\ y \in Int /\ s \in Nat
      BY <2>2, CallNumbers
    <3> HIDE DEF bad
    <3> QED BY <1>1, <2>3, <3>1
  <2> DEFINE m == Middle(x, y)
  <2>5. /\ m \in S!Cells /\ m + 1 \in S!Cells /\ m \in Int /\ x <= m /\ m < y
    BY <2>4, Halves, CallNumbers
  <2> HIDE DEF m
  <2>6. ASSUME NEW x1 \in S!Cells, NEW y1 \in S!Cells, y1 - x1 < s PROVE Right(x1, y1)
    <3>1. x1 \in Int /\ y1 \in Int
      BY CallNumbers
    <3>2. CASE y1 - x1 < 0
      BY <1>1, <3>1, <3>2
    <3>3. CASE y1 - x1 >= 0
      <4>1. y1 - x1 \in Nat /\ ~(s <= y1 - x1)
        BY <2>4, <2>6, <3>1, <3>3
      <4>2. y1 - x1 \notin bad
        BY <2>2, <4>1
      <4> QED BY <4>1, <4>2
    <3> QED BY <3>1, <3>2, <3>3
  <2> HIDE DEF bad
  <2>7. Right(x, m) /\ Right(m + 1, y)
    <3>1. m - x < s /\ y - (m + 1) < s
      BY <2>3, <2>4, <2>5
    <3> HIDE DEF Right
    <3> QED BY <2>5, <2>6, <3>1
  <2>8. S!mergeSort[<<x, y>>] = S!mergeSort[<<x, m>>] \o S!mergeSort[<<m + 1, y>>] \o <<[l |-> x, m |-> m, r |-> y]>>
    <3>1. S!mergeSort[<<x, y>>] = CallsOf(S!mergeSort, <<x, y>>)
      BY <1>0
    <3> QED BY <2>4, <3>1 DEF CallsOf, m
  <2>9. [l |-> x, m |-> m, r |-> y] \in S!Calls
    BY <2>5 DEF S!Calls
  <2>10. Right(x, y)
    BY <2>4, <2>5, <2>7, <2>8, <2>9, JoinedCalls
  <2> HIDE DEF Right
  <2> QED BY <2>3, <2>10
<1>3. CASE l < r
  <2>1. l \in Int /\ r \in Int
    BY CallNumbers
  <2>2. r - l \in Nat
    BY <1>3, <2>1
  <2>3. r - l \notin bad
    BY <1>2
  <2> QED BY <2>2, <2>3
<1>4. CASE ~(l < r)
  BY <1>1, <1>4, CallNumbers
<1> QED BY <1>3, <1>4

-----------------------------------------------------------------------------
(***************************************************************************)
(* SortBase: the parent's loops and the children's calls.                  *)
(***************************************************************************)
SortBase == S!TypeOK /\ RoundInv /\ Shapes

(* The same phase, the same sections. *)
LEMMA SamePhase ==
  ASSUME Sorting' <=> Sorting, Merging' <=> Merging, size' = size
  PROVE  /\ Count' = Count
         /\ \A c : First(c)' = First(c) /\ Last(c)' = Last(c) /\ (HasPair(c)' <=> HasPair(c))
<1>1. S!num_merges' = S!num_merges
  BY DEF S!num_merges
<1>2. \A c : First(c)' = First(c)
  BY DEF First
<1>3. \A c : Last(c)' = Last(c)
  BY DEF Last
<1> QED BY <1>1, <1>2, <1>3 DEF Count, HasPair

(* A child that exists has a section, and its calls are inside.             *)
LEMMA CallBounds ==
  ASSUME SortBase, NEW c \in S!Kids, todo[c] # <<>>
  PROVE  /\ todo[c] \in Seq(S!Calls) /\ Len(todo[c]) \in Nat /\ Len(todo[c]) >= 1
         /\ 1 \in DOMAIN todo[c]
         /\ Head(todo[c]) = todo[c][1] /\ todo[c][1] \in S!Calls
         /\ todo[c][1].l \in S!Cells /\ todo[c][1].m \in S!Cells /\ todo[c][1].r \in S!Cells
         /\ todo[c][1].l <= todo[c][1].m /\ todo[c][1].m < todo[c][1].r
<1>1. todo[c] \in Seq(S!Calls)
  BY DEF SortBase, S!TypeOK
<1>2. Len(todo[c]) \in Nat /\ Len(todo[c]) >= 1 /\ 1 \in DOMAIN todo[c] /\ Head(todo[c]) = todo[c][1]
      /\ todo[c][1] \in S!Calls
  BY <1>1
<1> QED BY <1>1, <1>2 DEF SortBase, Shapes, Shape, S!Calls

(* A store takes one value from the copies, and ends the call with the last. *)
TakesOne(lt, rt, lt2, rt2) ==
  \/ lt # <<>> /\ lt2 = Tail(lt) /\ rt2 = rt
  \/ rt # <<>> /\ lt2 = lt /\ rt2 = Tail(rt)

Remaining(cs, lt, rt) == IF Output(cs, lt, rt) = cs[1].r THEN Tail(cs) ELSE cs

LEMMA StoreShape ==
  ASSUME NEW cs \in Seq(S!Calls), NEW lt \in Seq(SortValues), NEW rt \in Seq(SortValues), NEW lo, NEW hi,
         Shape(cs, lt, rt, lo, hi), lt # <<>> \/ rt # <<>>,
         NEW lt2, NEW rt2, TakesOne(lt, rt, lt2, rt2), NEW cs2, cs2 = Remaining(cs, lt, rt)
  PROVE  /\ cs # <<>> /\ lt2 \in Seq(SortValues) /\ rt2 \in Seq(SortValues) /\ cs2 \in Seq(S!Calls)
         /\ Output(cs, lt, rt) \in Int /\ cs[1].l <= Output(cs, lt, rt) /\ Output(cs, lt, rt) <= cs[1].r
         /\ Len(lt2) + Len(rt2) = Len(lt) + Len(rt) - 1
         /\ Output(cs, lt, rt) = cs[1].r <=> (lt2 = <<>> /\ rt2 = <<>>)
         /\ Output(cs, lt2, rt2) = Output(cs, lt, rt) + 1
         /\ Shape(cs2, lt2, rt2, lo, hi)
<1> DEFINE x == cs[1]
<1>0. cs2 = IF Output(cs, lt, rt) = cs[1].r THEN Tail(cs) ELSE cs
  BY DEF Remaining
<1>t. \/ lt # <<>> /\ lt2 = Tail(lt) /\ rt2 = rt
      \/ rt # <<>> /\ lt2 = lt /\ rt2 = Tail(rt)
  BY DEF TakesOne
<1>1. cs # <<>> /\ Len(lt) <= x.m - x.l + 1 /\ Len(rt) <= x.r - x.m
  BY DEF Shape
<1>2. Len(cs) \in Nat /\ 1 <= Len(cs) /\ 1 \in DOMAIN cs /\ x \in S!Calls
  BY <1>1
<1>3. x.l \in Int /\ x.m \in Int /\ x.r \in Int /\ x.l <= x.m /\ x.m < x.r
  BY <1>2, CallNumbers DEF Shape
<1>4. lt2 \in Seq(SortValues) /\ rt2 \in Seq(SortValues) /\ cs2 \in Seq(S!Calls)
  <2>1. lt2 \in Seq(SortValues) /\ rt2 \in Seq(SortValues)
    <3>1. CASE lt # <<>> /\ lt2 = Tail(lt) /\ rt2 = rt
      BY <3>1
    <3>2. CASE rt # <<>> /\ lt2 = lt /\ rt2 = Tail(rt)
      BY <3>2
    <3> QED BY <1>t, <3>1, <3>2
  <2>2. Tail(cs) \in Seq(S!Calls)
    BY <1>1
  <2> QED BY <1>0, <2>1, <2>2
<1>5. /\ Len(lt) \in Nat /\ Len(rt) \in Nat /\ Len(lt2) \in Nat /\ Len(rt2) \in Nat
      /\ \/ Len(lt2) = Len(lt) - 1 /\ Len(rt2) = Len(rt)
         \/ Len(lt2) = Len(lt) /\ Len(rt2) = Len(rt) - 1
      /\ lt2 = <<>> <=> Len(lt2) = 0
      /\ rt2 = <<>> <=> Len(rt2) = 0
  BY <1>4, <1>t
<1> DEFINE o == Output(cs, lt, rt)
<1>6. o = x.r + 1 - Len(lt) - Len(rt) /\ Output(cs, lt2, rt2) = x.r + 1 - Len(lt2) - Len(rt2)
  BY DEF Output
<1> HIDE DEF o, x
<1>7. /\ o \in Int /\ x.l <= o /\ o <= x.r
      /\ Len(lt2) + Len(rt2) = Len(lt) + Len(rt) - 1
      /\ o = x.r <=> (lt2 = <<>> /\ rt2 = <<>>)
      /\ Output(cs, lt2, rt2) = o + 1
      /\ Len(lt2) <= x.m - x.l + 1 /\ Len(rt2) <= x.r - x.m
  <2>1. x.r \in Int /\ x.l \in Int /\ x.m \in Int
    BY <1>3
  <2>2. 1 <= Len(lt) + Len(rt) /\ Len(lt) + Len(rt) <= x.r - x.l + 1
    BY ONLY <1>1, <1>3, <1>5
  <2> DEFINE a == Len(lt)
             b == Len(rt)
             a2 == Len(lt2)
             b2 == Len(rt2)
             o2 == Output(cs, lt2, rt2)
  <2>3. /\ a \in Nat /\ b \in Nat /\ a2 \in Nat /\ b2 \in Nat
        /\ (a2 = a - 1 /\ b2 = b) \/ (a2 = a /\ b2 = b - 1)
        /\ 1 <= a + b /\ a + b <= x.r - x.l + 1 /\ a <= x.m - x.l + 1 /\ b <= x.r - x.m
        /\ o = x.r + 1 - a - b /\ o2 = x.r + 1 - a2 - b2
    BY <1>1, <1>5, <1>6, <2>2
  <2> HIDE DEF a, b, a2, b2, o2
  <2>4. /\ o \in Int /\ x.l <= o /\ o <= x.r
        /\ a2 + b2 = a + b - 1
        /\ o = x.r <=> (a2 = 0 /\ b2 = 0)
        /\ o2 = o + 1
        /\ a2 <= x.m - x.l + 1 /\ b2 <= x.r - x.m
    <3> DEFINE xl == x.l
               xm == x.m
               xr == x.r
    <3>1. /\ a \in Nat /\ b \in Nat /\ a2 \in Nat /\ b2 \in Nat /\ xl \in Int /\ xm \in Int /\ xr \in Int
          /\ (a2 = a - 1 /\ b2 = b) \/ (a2 = a /\ b2 = b - 1)
          /\ 1 <= a + b /\ a + b <= xr - xl + 1 /\ a <= xm - xl + 1 /\ b <= xr - xm
          /\ o = xr + 1 - a - b /\ o2 = xr + 1 - a2 - b2
      BY ONLY <2>1, <2>3
    <3> HIDE DEF xl, xm, xr
    <3>2. /\ o \in Int /\ xl <= o /\ o <= xr
          /\ a2 + b2 = a + b - 1
          /\ o2 = o + 1
          /\ a2 <= xm - xl + 1 /\ b2 <= xr - xm
      BY ONLY <3>1
    <3>3. o = xr <=> (a2 = 0 /\ b2 = 0)
      BY ONLY <3>1
    <3> QED BY ONLY <3>2, <3>3 DEF xl, xm, xr
  <2> QED BY <2>4, <1>5 DEF a, b, a2, b2, o2
<1>8. Shape(cs2, lt2, rt2, lo, hi)
  <2>1. CASE o = x.r
    <3>1. cs2 = Tail(cs)
      BY <1>0, <2>1 DEF o, x
    <3>2. ASSUME NEW k \in DOMAIN cs2 PROVE k + 1 \in DOMAIN cs /\ cs2[k] = cs[k + 1]
      BY <3>1, <1>1
    <3> QED BY <1>7, <2>1, <3>2 DEF Shape
  <2>2. CASE o # x.r
    <3>1. cs2 = cs
      BY <1>0, <2>2 DEF o, x
    <3> QED BY <1>1, <1>7, <3>1 DEF Shape, x
  <2> QED BY <2>1, <2>2
<1> QED BY <1>1, <1>4, <1>7, <1>8 DEF o, x

LEMMA CopyShape ==
  ASSUME SortBase, NEW c \in S!Kids, todo[c] # <<>>,
         NEW lt, NEW rt, NEW x, x = todo[c][1],
         lt = [k \in 1 .. x.m - x.l + 1 |-> arr[x.l + k - 1]], rt = [k \in 1 .. x.r - x.m |-> arr[x.m + k]]
  PROVE  /\ lt \in Seq(SortValues) /\ rt \in Seq(SortValues)
         /\ Len(lt) = x.m - x.l + 1 /\ Len(rt) = x.r - x.m
         /\ Shape(todo[c], lt, rt, First(c), Last(c))
<1>1. /\ x.l \in Int /\ x.m \in Int /\ x.r \in Int /\ x.l <= x.m /\ x.m < x.r
      /\ 0 <= x.l /\ x.r <= SortCells - 1 /\ SortCells \in Nat
  BY CallBounds, SortConstants DEF S!Cells
<1>2. \A k \in 1 .. x.m - x.l + 1 : x.l + k - 1 \in S!Cells
  BY ONLY <1>1 DEF S!Cells
<1>3. \A k \in 1 .. x.r - x.m : x.m + k \in S!Cells
  BY ONLY <1>1 DEF S!Cells
<1>4. x.m - x.l + 1 \in Nat /\ x.r - x.m \in Nat
  BY ONLY <1>1
<1>5. \A k \in S!Cells : arr[k] \in SortValues
  BY DEF SortBase, S!TypeOK
<1>6. lt \in Seq(SortValues) /\ Len(lt) = x.m - x.l + 1
  <2> DEFINE n == x.m - x.l + 1
  <2>1. lt \in [1 .. n -> SortValues] /\ n \in Nat
    BY <1>2, <1>4, <1>5
  <2> HIDE DEF n
  <2>2. lt \in Seq(SortValues) /\ Len(lt) = n
    BY ONLY <2>1
  <2> QED BY <2>2 DEF n
<1>7. rt \in Seq(SortValues) /\ Len(rt) = x.r - x.m
  <2> DEFINE n == x.r - x.m
  <2>1. rt \in [1 .. n -> SortValues] /\ n \in Nat
    BY <1>3, <1>4, <1>5
  <2> HIDE DEF n
  <2>2. rt \in Seq(SortValues) /\ Len(rt) = n
    BY ONLY <2>1
  <2> QED BY <2>2 DEF n
<1>8. Shape(todo[c], lt, rt, First(c), Last(c))
  <2>1. Len(lt) \in Int /\ Len(rt) \in Int /\ Len(lt) <= x.m - x.l + 1 /\ Len(rt) <= x.r - x.m
    BY ONLY <1>1, <1>6, <1>7
  <2> QED BY <2>1 DEF SortBase, Shapes, Shape
<1> QED BY <1>6, <1>7, <1>8

(* What a step of a child changes. *)
LEMMA ChildEffect ==
  ASSUME SortBase, NEW c \in S!Kids, S!CopyHalves(c) \/ S!Store(c)
  PROVE  /\ size' = size /\ main' = main /\ i' = i /\ input' = input
         /\ failed' = failed /\ unwaited' = unwaited /\ incomplete' = incomplete
         /\ todo[c] # <<>>
         /\ arr' \in [S!Cells -> SortValues]
         /\ todo' \in [S!Kids -> Seq(S!Calls)] /\ L' \in [S!Kids -> Seq(SortValues)] /\ R' \in [S!Kids -> Seq(SortValues)]
         /\ \A d \in S!Kids : d # c => todo'[d] = todo[d] /\ L'[d] = L[d] /\ R'[d] = R[d]
         /\ Shape(todo'[c], L'[c], R'[c], First(c), Last(c))
<1> DEFINE x == todo[c][1]
<1>0. /\ todo \in [S!Kids -> Seq(S!Calls)] /\ L \in [S!Kids -> Seq(SortValues)] /\ R \in [S!Kids -> Seq(SortValues)]
      /\ arr \in [S!Cells -> SortValues]
  BY DEF SortBase, S!TypeOK
<1>s. Shape(todo[c], L[c], R[c], First(c), Last(c))
  BY DEF SortBase, Shapes
<1>1. CASE S!CopyHalves(c)
  <2>1. /\ size' = size /\ main' = main /\ i' = i /\ input' = input /\ arr' = arr
        /\ failed' = failed /\ unwaited' = unwaited /\ incomplete' = incomplete /\ todo' = todo
        /\ todo[c] # <<>> /\ Head(todo[c]) = x
        /\ L' = [L EXCEPT ![c] = [k \in 1 .. Head(todo[c]).m - Head(todo[c]).l + 1 |-> arr[Head(todo[c]).l + k - 1]]]
        /\ R' = [R EXCEPT ![c] = [k \in 1 .. Head(todo[c]).r - Head(todo[c]).m |-> arr[Head(todo[c]).m + k]]]
    BY <1>1, CallBounds DEF S!CopyHalves, S!pids
  <2> HIDE DEF x
  <2>2. /\ L'[c] = [k \in 1 .. x.m - x.l + 1 |-> arr[x.l + k - 1]]
        /\ R'[c] = [k \in 1 .. x.r - x.m |-> arr[x.m + k]]
    BY <1>0, <2>1
  <2>3. L'[c] \in Seq(SortValues) /\ R'[c] \in Seq(SortValues) /\ Shape(todo[c], L'[c], R'[c], First(c), Last(c))
    BY <2>1, <2>2, CopyShape DEF x
  <2>4. \A d \in S!Kids : d # c => L'[d] = L[d] /\ R'[d] = R[d]
    BY <1>0, <2>1
  <2>5. L' \in [S!Kids -> Seq(SortValues)] /\ R' \in [S!Kids -> Seq(SortValues)]
    <3>1. L' = [d \in S!Kids |-> L'[d]] /\ R' = [d \in S!Kids |-> R'[d]]
      BY <1>0, <2>1
    <3>2. \A d \in S!Kids : L'[d] \in Seq(SortValues) /\ R'[d] \in Seq(SortValues)
      BY <1>0, <2>3, <2>4
    <3> QED BY <3>1, <3>2
  <2> QED BY <1>0, <2>1, <2>3, <2>4, <2>5
<1>2. CASE S!Store(c)
  <2>0. L[c] # <<>> \/ R[c] # <<>>
    BY <1>2 DEF S!Store
  <2>1. todo[c] # <<>>
    BY <1>s, <2>0 DEF Shape
  <2> DEFINE o == Output(todo[c], L[c], R[c])
  <2>2. Head(todo[c]) = x /\ S!NextCell(c) = o
    BY <2>1, CallBounds DEF S!NextCell, Output
  <2>3. /\ size' = size /\ main' = main /\ i' = i /\ input' = input
        /\ failed' = failed /\ unwaited' = unwaited /\ incomplete' = incomplete
        /\ todo' = IF o = x.r THEN [todo EXCEPT ![c] = Tail(@)] ELSE todo
        /\ \/ L[c] # <<>> /\ arr' = [arr EXCEPT ![o] = Head(L[c])] /\ L' = [L EXCEPT ![c] = Tail(@)] /\ R' = R
           \/ L[c] = <<>> /\ arr' = [arr EXCEPT ![o] = Head(R[c])] /\ R' = [R EXCEPT ![c] = Tail(@)] /\ L' = L
           \/ R[c] # <<>> /\ arr' = [arr EXCEPT ![o] = Head(R[c])] /\ R' = [R EXCEPT ![c] = Tail(@)] /\ L' = L
    BY <1>2, <2>2 DEF S!Store, S!LeftIsNext, S!pids
  <2>4. /\ todo'[c] = IF o = x.r THEN Tail(todo[c]) ELSE todo[c]
        /\ \/ L[c] # <<>> /\ L'[c] = Tail(L[c]) /\ R'[c] = R[c]
           \/ R[c] # <<>> /\ L'[c] = L[c] /\ R'[c] = Tail(R[c])
    BY <1>0, <2>0, <2>3
  <2>5. \A d \in S!Kids : d # c => todo'[d] = todo[d] /\ L'[d] = L[d] /\ R'[d] = R[d]
    BY <1>0, <2>3
  <2>6. /\ L'[c] \in Seq(SortValues) /\ R'[c] \in Seq(SortValues) /\ todo'[c] \in Seq(S!Calls)
        /\ Shape(todo'[c], L'[c], R'[c], First(c), Last(c))
        /\ o \in Int /\ x.l <= o /\ o <= x.r
    <3> DEFINE cs == todo[c]
               lt == L[c]
               rt == R[c]
               lt2 == L'[c]
               rt2 == R'[c]
               cs2 == todo'[c]
               lo == First(c)
               hi == Last(c)
    <3>1. cs \in Seq(S!Calls) /\ lt \in Seq(SortValues) /\ rt \in Seq(SortValues)
      BY <1>0
    <3>2. cs2 = Remaining(cs, lt, rt)
      BY <2>4 DEF Remaining
    <3>3. TakesOne(lt, rt, lt2, rt2)
      BY <2>4 DEF TakesOne
    <3>4. Shape(cs, lt, rt, lo, hi) /\ (lt # <<>> \/ rt # <<>>)
      BY <1>s, <2>0
    <3> HIDE DEF cs, lt, rt, cs2, lt2, rt2, lo, hi
    <3>5. Shape(cs2, lt2, rt2, lo, hi)
      BY ONLY <3>1, <3>2, <3>3, <3>4, StoreShape
    <3>6. lt2 \in Seq(SortValues) /\ rt2 \in Seq(SortValues) /\ cs2 \in Seq(S!Calls)
      BY ONLY <3>1, <3>2, <3>3, <3>4, StoreShape
    <3>7. Output(cs, lt, rt) \in Int /\ cs[1].l <= Output(cs, lt, rt) /\ Output(cs, lt, rt) <= cs[1].r
      BY ONLY <3>1, <3>2, <3>3, <3>4, StoreShape
    <3> QED BY <3>5, <3>6, <3>7 DEF cs, lt, rt, cs2, lt2, rt2, lo, hi
  <2>7. /\ todo' = [d \in S!Kids |-> todo'[d]] /\ L' = [d \in S!Kids |-> L'[d]] /\ R' = [d \in S!Kids |-> R'[d]]
    BY <1>0, <2>3
  <2>8. \A d \in S!Kids : todo'[d] \in Seq(S!Calls) /\ L'[d] \in Seq(SortValues) /\ R'[d] \in Seq(SortValues)
    BY <1>0, <2>5, <2>6
  <2>9. /\ todo' \in [S!Kids -> Seq(S!Calls)] /\ L' \in [S!Kids -> Seq(SortValues)] /\ R' \in [S!Kids -> Seq(SortValues)]
    BY <2>7, <2>8
  <2>10. arr' \in [S!Cells -> SortValues]
    <3>1. Head(L[c]) \in SortValues \/ L[c] = <<>>
      BY <1>0
    <3>2. Head(R[c]) \in SortValues \/ R[c] = <<>>
      BY <1>0
    <3> QED BY <1>0, <2>0, <2>3, <3>1, <3>2
  <2> QED BY <2>1, <2>3, <2>5, <2>6, <2>9, <2>10
<1> QED BY <1>1, <1>2

LEMMA ChildBase ==
  ASSUME SortBase, NEW c \in S!Kids, S!CopyHalves(c) \/ S!Store(c)
  PROVE  SortBase'
<1>1. S!TypeOK'
  BY ChildEffect DEF SortBase, S!TypeOK
<1>2. /\ Count' = Count /\ \A d : First(d)' = First(d) /\ Last(d)' = Last(d) /\ (HasPair(d)' <=> HasPair(d))
      /\ (Sorting' <=> Sorting) /\ (Merging' <=> Merging)
  BY ChildEffect, SamePhase DEF Sorting, Merging
<1>3. Shapes'
  BY ChildEffect, <1>2 DEF SortBase, Shapes
<1>4. \A d \in S!Kids : Idling(d) => Idling(d)'
  BY ChildEffect DEF Idling
<1>5. \A d \in S!Kids : todo[d] = <<>> => todo'[d] = <<>>
  BY ChildEffect
<1>6. RoundInv'
  BY ChildEffect, <1>2, <1>4, <1>5 DEF SortBase, RoundInv
<1> QED BY <1>1, <1>3, <1>6 DEF SortBase

LEMMA SortBaseInit == S!Init => SortBase
<1> SUFFICES ASSUME S!Init PROVE SortBase
  OBVIOUS
<1>1. S!TypeOK
  <2>1. size \in 1 .. 2 * SortCells
    <3> DEFINE q == SortCells \div SortSections
    <3>1. q \in Nat /\ 1 <= q /\ SortSections * q <= SortCells
      BY SectionLength
    <3> HIDE DEF q
    <3>2. q <= SortSections * q
      BY ONLY <3>1, SortConstants
    <3>3. size = q
      BY DEF S!Init, q
    <3>4. SortSections * q \in Int
      BY ONLY <3>1, SortConstants
    <3> QED BY ONLY <3>1, <3>2, <3>3, <3>4, SortConstants
  <2>2. /\ todo \in [S!Kids -> Seq(S!Calls)] /\ L \in [S!Kids -> Seq(SortValues)]
        /\ R \in [S!Kids -> Seq(SortValues)]
    <3>1. <<>> \in Seq(S!Calls) /\ <<>> \in Seq(SortValues)
      OBVIOUS
    <3> QED BY <3>1 DEF S!Init
  <2>3. i \in S!Kids
    BY SortConstants DEF S!Init, S!Kids
  <2> QED BY <2>1, <2>2, <2>3 DEF S!Init, S!TypeOK
<1>2. RoundInv
  BY SortConstants DEF S!Init, RoundInv, Sorting, Merging, Count, Idling, S!Kids
<1>3. Shapes
  BY DEF S!Init, Shapes, Shape
<1> QED BY <1>1, <1>2, <1>3 DEF SortBase

(* What fork does: there is a child with these calls, or one that failed.    *)
LEMMA ForkEffect ==
  ASSUME SortBase, NEW c \in S!Kids, NEW calls \in Seq(S!Calls), S!Fork(c, calls), Idling(c)
  PROVE  /\ todo' \in [S!Kids -> Seq(S!Calls)] /\ L' = L /\ R' = R
         /\ failed' \subseteq S!Kids /\ unwaited' \subseteq S!Kids /\ failed' \intersect unwaited' = {}
         /\ incomplete' \in BOOLEAN
         /\ \A d \in S!Kids : d # c => /\ todo'[d] = todo[d]
                                       /\ d \in failed' <=> d \in failed
                                       /\ d \in unwaited' <=> d \in unwaited
         /\ \/ /\ todo'[c] = calls /\ c \in unwaited' /\ c \notin failed' /\ failed' = failed
               /\ incomplete' = incomplete
            \/ todo'[c] = <<>> /\ c \in failed' /\ c \notin unwaited' /\ incomplete' = TRUE
<1>0. /\ todo \in [S!Kids -> Seq(S!Calls)] /\ failed \subseteq S!Kids /\ unwaited \subseteq S!Kids
      /\ failed \intersect unwaited = {} /\ incomplete \in BOOLEAN
      /\ todo[c] = <<>> /\ c \notin failed /\ c \notin unwaited
  BY DEF SortBase, S!TypeOK, Idling
<1>1. CASE /\ todo' = [todo EXCEPT ![c] = calls]
           /\ unwaited' = unwaited \union {c}
           /\ UNCHANGED <<L, R, failed, incomplete>>
  BY <1>0, <1>1
<1>2. CASE /\ failed' = failed \union {c} /\ incomplete' = TRUE
           /\ UNCHANGED <<S!kids, unwaited>>
  BY <1>0, <1>2 DEF S!kids
<1> QED BY <1>1, <1>2 DEF S!Fork

(* A round whose next child is forked. *)
LEMMA ForkRound ==
  ASSUME SortBase, main \in {"fork_sort", "fork_merge"},
         NEW to, to = (IF main = "fork_sort" THEN "wait_sort" ELSE "wait_merge"),
         S!LoopPass(main, Count, to),
         NEW calls \in Seq(S!Calls), S!Fork(i, calls), Merging => HasPair(i),
         \A k \in DOMAIN calls : /\ First(i) <= calls[k].l /\ calls[k].l <= calls[k].m
                                 /\ calls[k].m < calls[k].r /\ calls[k].r <= Last(i),
         UNCHANGED <<arr, size, input>>
  PROVE  SortBase'
<1>0. S!TypeOK /\ RoundInv /\ Shapes
  BY DEF SortBase
<1>1. i \in S!Kids /\ i \in Nat /\ i < Count /\ Count \in Nat /\ Count <= SortSections /\ Idling(i)
  <2>1. i \in S!Kids /\ i < Count
    BY <1>0 DEF RoundInv, S!TypeOK
  <2> QED BY <1>0, <2>1, RoundNumbers DEF RoundInv
<1>2. /\ i + 1 = Count => i' = 0 /\ main' = to
      /\ i + 1 # Count => i' = i + 1 /\ main' = main
  BY <1>1, Pass
<1>3. (Sorting' <=> Sorting) /\ (Merging' <=> Merging) /\ size' = size
  BY <1>2 DEF Sorting, Merging
<1>4. /\ Count' = Count
      /\ \A c : First(c)' = First(c) /\ Last(c)' = Last(c) /\ (HasPair(c)' <=> HasPair(c))
  BY <1>3, SamePhase
<1>5. /\ todo' \in [S!Kids -> Seq(S!Calls)] /\ L' = L /\ R' = R
      /\ failed' \subseteq S!Kids /\ unwaited' \subseteq S!Kids /\ failed' \intersect unwaited' = {}
      /\ incomplete' \in BOOLEAN
      /\ \A d \in S!Kids : d # i => /\ todo'[d] = todo[d]
                                    /\ d \in failed' <=> d \in failed
                                    /\ d \in unwaited' <=> d \in unwaited
      /\ \/ /\ todo'[i] = calls /\ i \in unwaited' /\ i \notin failed' /\ failed' = failed
            /\ incomplete' = incomplete
         \/ todo'[i] = <<>> /\ i \in failed' /\ i \notin unwaited' /\ incomplete' = TRUE
  BY <1>1, ForkEffect
<1>6. S!TypeOK'
  <2>1. i' \in S!Kids
    BY <1>1, <1>2, SortConstants DEF S!Kids
  <2>2. main' \in {"fork_sort", "wait_sort", "fork_merge", "wait_merge", "done"}
    BY <1>2
  <2> QED BY <1>0, <1>5, <2>1, <2>2 DEF S!TypeOK
<1>7. Shapes'
  <2>1. Shape(todo[i], L[i], R[i], First(i), Last(i)) /\ todo[i] = <<>>
    BY <1>0, <1>1 DEF Shapes, Idling
  <2>2. L[i] = <<>> /\ R[i] = <<>>
    BY <2>1 DEF Shape
  <2>3. Shape(todo'[i], L[i], R[i], First(i), Last(i))
    BY <1>5, <2>1, <2>2 DEF Shape
  <2> QED BY <1>0, <1>4, <1>5, <2>3 DEF Shapes
<1>8. RoundInv'
  <2>1. /\ SortCells \div SortSections <= size
        /\ Sorting => size = SortCells \div SortSections
        /\ Merging => size < SortCells
    BY <1>0 DEF RoundInv
  <2>2. main' # "done" /\ i' < Count
    BY <1>1, <1>2
  <2>3. ASSUME NEW c \in S!Kids
        PROVE  /\ main' \in {"fork_sort", "fork_merge"} /\ i' <= c => Idling(c)'
               /\ main' \in {"wait_sort", "wait_merge"} /\ c < i' => todo'[c] = <<>> /\ c \notin unwaited'
               /\ Count <= c \/ (Merging /\ ~HasPair(c)) => Idling(c)'
               /\ c \in failed' => todo'[c] = <<>>
    <3>0. c \in Nat
      BY SortConstants DEF S!Kids
    <3>1. c # i /\ Idling(c) => Idling(c)'
      BY <1>5 DEF Idling
    <3>2. c \in failed' => todo'[c] = <<>>
      BY <1>0, <1>5 DEF RoundInv
    <3>3. main' \in {"fork_sort", "fork_merge"} /\ i' <= c => c # i /\ Idling(c)
      BY <1>0, <1>1, <1>2, <3>0 DEF RoundInv
    <3>4. ~(main' \in {"wait_sort", "wait_merge"} /\ c < i')
      BY <1>1, <1>2, <3>0
    <3>5. Count <= c \/ (Merging /\ ~HasPair(c)) => c # i /\ Idling(c)
      BY <1>0, <1>1, <3>0 DEF RoundInv
    <3> QED BY <3>1, <3>2, <3>3, <3>4, <3>5
  <2>4. ~incomplete' => failed' = {}
    BY <1>0, <1>5 DEF RoundInv
  <2> QED BY <1>3, <1>4, <2>1, <2>2, <2>3, <2>4 DEF RoundInv
<1> QED BY <1>6, <1>7, <1>8 DEF SortBase

LEMMA ForkSortBase == ASSUME SortBase, S!ForkSort PROVE SortBase'
<1>0. S!TypeOK /\ RoundInv
  BY DEF SortBase
<1>1. main = "fork_sort" /\ Sorting /\ ~Merging
  BY DEF S!ForkSort, S!LoopPass, Sorting, Merging
<1>2. Count = SortSections
  BY <1>1 DEF Count
<1>3. i \in S!Kids /\ First(i) \in S!Cells /\ Last(i) \in S!Cells
  <2>1. i \in S!Kids /\ i < Count
    BY <1>0, <1>1 DEF RoundInv, S!TypeOK
  <2>2. First(i) \in Nat /\ Last(i) \in Int /\ First(i) <= Last(i) /\ Last(i) <= SortCells - 1
    BY <1>0, <1>1, <2>1, SectionBounds
  <2> QED BY <2>1, <2>2, SortConstants DEF S!Cells
<1>4. S!Fork(i, S!mergeSort[<<First(i), Last(i)>>])
  BY <1>0, <1>1, SectionNames DEF S!ForkSort
<1>5. CallsRight(S!mergeSort[<<First(i), Last(i)>>], First(i), Last(i))
  BY <1>3, SortCallsRight
<1> QED BY <1>1, <1>2, <1>4, <1>5, ForkRound DEF S!ForkSort, CallsRight

LEMMA ForkMergeBase == ASSUME SortBase, S!ForkMerge PROVE SortBase'
<1>0. S!TypeOK /\ RoundInv /\ Shapes
  BY DEF SortBase
<1>1. main = "fork_merge" /\ ~Sorting /\ Merging
  BY DEF S!ForkMerge, S!LoopPass, Sorting, Merging
<1>2. Count = S!num_merges
  BY <1>1 DEF Count
<1>3. i \in S!Kids /\ i < Count /\ size \in Nat /\ 1 <= size /\ First(i) \in Nat /\ Last(i) \in Int
      /\ Last(i) <= SortCells - 1 /\ SortCells \in Nat
  <2>1. i \in S!Kids /\ i < Count
    BY <1>0, <1>1 DEF RoundInv, S!TypeOK
  <2> QED BY <1>0, <2>1, SectionBounds, RoundNumbers, SortConstants
<1>4. HasPair(i) <=> S!Mid < S!Right
  BY <1>0, <1>1, SectionNames
<1>5. CASE S!Mid < S!Right
  <2> DEFINE x == [l |-> S!Left, m |-> S!Mid, r |-> S!Right]
  <2>1. S!Left = First(i) /\ S!Mid = First(i) + size - 1 /\ S!Right = Last(i)
    BY <1>0, <1>1, SectionNames
  <2>2. x.l = First(i) /\ x.m = First(i) + size - 1 /\ x.r = Last(i) /\ x.l <= x.m /\ x.m < x.r
    BY <1>3, <1>5, <2>1
  <2>3. x \in S!Calls
    BY <1>3, <1>5, <2>1 DEF S!Calls, S!Cells
  <2>4. S!Fork(i, <<x>>)
    BY <1>5 DEF S!ForkMerge
  <2> HIDE DEF x
  <2>5. <<x>> \in Seq(S!Calls) /\ DOMAIN <<x>> = {1} /\ <<x>>[1] = x
    BY <2>3
  <2>6. \A k \in DOMAIN <<x>> : /\ First(i) <= <<x>>[k].l /\ <<x>>[k].l <= <<x>>[k].m
                                /\ <<x>>[k].m < <<x>>[k].r /\ <<x>>[k].r <= Last(i)
    BY <1>3, <2>2, <2>5
  <2>7. S!LoopPass(main, Count, "wait_merge") /\ UNCHANGED <<arr, size, input>>
    BY <1>1, <1>2 DEF S!ForkMerge
  <2> DEFINE cs == <<x>>
  <2> HIDE DEF cs
  <2> QED BY <1>1, <1>4, <1>5, <2>4, <2>5, <2>6, <2>7, ForkRound DEF cs
<1>6. CASE ~(S!Mid < S!Right)
  <2>1. /\ todo' = todo /\ L' = L /\ R' = R /\ failed' = failed /\ unwaited' = unwaited
        /\ incomplete' = incomplete /\ size' = size /\ arr' = arr /\ input' = input
        /\ S!LoopPass("fork_merge", Count, "wait_merge")
    BY <1>2, <1>6 DEF S!ForkMerge, S!kids, S!pids
  <2>2. /\ i + 1 = Count => i' = 0 /\ main' = "wait_merge"
        /\ i + 1 # Count => i' = i + 1 /\ main' = "fork_merge"
    BY <1>0, <1>3, <2>1, Pass, RoundNumbers
  <2>3. (Sorting' <=> Sorting) /\ (Merging' <=> Merging) /\ size' = size
    BY <1>1, <2>1, <2>2 DEF Sorting, Merging
  <2>4. /\ Count' = Count
        /\ \A c : First(c)' = First(c) /\ Last(c)' = Last(c) /\ (HasPair(c)' <=> HasPair(c))
    BY <2>3, SamePhase
  <2>5. i \in Nat /\ Count \in Nat /\ Count <= SortSections /\ \A c \in S!Kids : c \in Nat
    BY <1>0, <1>1, RoundNumbers, SortConstants DEF S!Kids
  <2>6. S!TypeOK'
    <3>1. i' \in S!Kids
      BY <1>3, <2>2, <2>5, SortConstants DEF S!Kids
    <3> QED BY <1>0, <2>1, <2>2, <3>1 DEF S!TypeOK
  <2>7. Shapes'
    BY <1>0, <2>1, <2>4 DEF Shapes
  <2>8. RoundInv'
    <3>1. ASSUME NEW c \in S!Kids
          PROVE  /\ main' \in {"fork_sort", "fork_merge"} /\ i' <= c => Idling(c)'
                 /\ main' \in {"wait_sort", "wait_merge"} /\ c < i' => todo'[c] = <<>> /\ c \notin unwaited'
                 /\ Count <= c \/ (Merging /\ ~HasPair(c)) => Idling(c)'
                 /\ c \in failed' => todo'[c] = <<>>
      <4>1. Idling(c)' <=> Idling(c)
        BY <2>1 DEF Idling
      <4>2. main' \in {"fork_sort", "fork_merge"} /\ i' <= c => i <= c
        BY <2>2, <2>5
      <4>3. ~(main' \in {"wait_sort", "wait_merge"} /\ c < i')
        BY <2>2, <2>5, <1>1
      <4> QED BY <1>0, <1>1, <2>1, <4>1, <4>2, <4>3 DEF RoundInv
    <3>2. main' # "done" /\ i' < Count
      BY <1>3, <2>2, <2>5
    <3> QED BY <1>0, <1>1, <2>1, <2>3, <2>4, <3>1, <3>2 DEF RoundInv
  <2> QED BY <2>6, <2>7, <2>8 DEF SortBase
<1> QED BY <1>5, <1>6

(* What waitpid does: the child waited for has ended. *)
LEMMA WaitEffect ==
  ASSUME SortBase, NEW c \in S!Kids, S!Waitpid(c)
  PROVE  /\ unwaited' \subseteq unwaited /\ incomplete' = incomplete
         /\ todo[c] = <<>> /\ c \notin unwaited'
<1>1. c \in failed => todo[c] = <<>> /\ c \notin unwaited
  BY DEF SortBase, RoundInv, S!TypeOK
<1> QED BY <1>1 DEF S!Waitpid

(* A round whose next child has been waited for, or need not be. *)
LEMMA WaitRound ==
  ASSUME SortBase, main \in {"wait_sort", "wait_merge"},
         NEW next, next \in Nat, next = (IF i + 1 = Count /\ Merging THEN 2 * size ELSE size),
         S!LoopPass(main, Count, S!NextRound(IF Merging THEN 2 * size ELSE size)),
         unwaited' \subseteq unwaited, incomplete' = incomplete,
         todo[i] = <<>>, i \notin unwaited',
         S!ForgetFailed(Count), size' = next, UNCHANGED <<arr, S!kids, input>>
  PROVE  SortBase'
<1>0. S!TypeOK /\ RoundInv /\ Shapes
  BY DEF SortBase
<1>1. /\ i \in S!Kids /\ i \in Nat /\ i < Count /\ Count \in Nat /\ Count <= SortSections
      /\ size \in Nat /\ 1 <= size /\ SortCells \in Nat /\ \A c \in S!Kids : c \in Nat
  <2>1. i \in S!Kids /\ i < Count
    BY <1>0 DEF RoundInv, S!TypeOK
  <2> QED BY <1>0, <2>1, RoundNumbers, SortConstants DEF RoundInv, S!Kids
<1>2. /\ i + 1 = Count => i' = 0 /\ main' = S!NextRound(IF Merging THEN 2 * size ELSE size)
      /\ i + 1 # Count => i' = i + 1 /\ main' = main
  BY <1>1, Pass
<1>3. todo' = todo /\ L' = L /\ R' = R /\ arr' = arr /\ input' = input
      /\ failed' = IF i + 1 = Count THEN {} ELSE failed
  BY DEF S!kids, S!ForgetFailed
<1>4. CASE i + 1 # Count
  <2>1. i' = i + 1 /\ main' = main /\ size' = size /\ failed' = failed
    BY <1>2, <1>3, <1>4
  <2>2. (Sorting' <=> Sorting) /\ (Merging' <=> Merging)
    BY <2>1 DEF Sorting, Merging
  <2>3. /\ Count' = Count
        /\ \A c : First(c)' = First(c) /\ Last(c)' = Last(c) /\ (HasPair(c)' <=> HasPair(c))
    BY <2>1, <2>2, SamePhase
  <2>4. S!TypeOK'
    <3>1. i' \in S!Kids
      BY <1>1, <1>4, <2>1, SortConstants DEF S!Kids
    <3> QED BY <1>0, <1>3, <2>1, <3>1 DEF S!TypeOK
  <2>5. Shapes'
    BY <1>0, <1>3, <2>3 DEF Shapes
  <2>6. ASSUME NEW c \in S!Kids
        PROVE  /\ main' \in {"fork_sort", "fork_merge"} /\ i' <= c => Idling(c)'
               /\ main' \in {"wait_sort", "wait_merge"} /\ c < i' => todo'[c] = <<>> /\ c \notin unwaited'
               /\ Count <= c \/ (Merging /\ ~HasPair(c)) => Idling(c)'
               /\ c \in failed' => todo'[c] = <<>>
    <3>1. Idling(c) => Idling(c)'
      BY <1>3, <2>1 DEF Idling
    <3>2. c < i' => c < i \/ c = i
      <4>1. c \in Nat /\ i \in Nat
        BY <1>1
      <4> QED BY <2>1, <4>1
    <3>3. c < i => todo[c] = <<>> /\ c \notin unwaited
      BY <1>0 DEF RoundInv
    <3>4. Count <= c \/ (Merging /\ ~HasPair(c)) => Idling(c)
      BY <1>0 DEF RoundInv
    <3>5. c \in failed => todo[c] = <<>>
      BY <1>0 DEF RoundInv
    <3> QED BY <1>3, <2>1, <3>1, <3>2, <3>3, <3>4, <3>5
  <2>7. main' # "done" /\ i' < Count
    BY <1>1, <1>4, <2>1
  <2>8. RoundInv'
    BY <1>0, <2>1, <2>2, <2>3, <2>6, <2>7 DEF RoundInv
  <2> QED BY <2>4, <2>5, <2>8 DEF SortBase
<1>5. CASE i + 1 = Count
  <2> DEFINE s == IF Merging THEN 2 * size ELSE size
  <2>1. i' = 0 /\ main' = S!NextRound(s) /\ size' = s /\ failed' = {}
    BY <1>2, <1>3, <1>5
  <2>2. s \in Nat /\ 1 <= s /\ SortCells \div SortSections <= s /\ s <= 2 * SortCells
    <3>1. SortCells \div SortSections <= size /\ size <= 2 * SortCells /\ (Merging => size < SortCells)
      BY <1>0 DEF RoundInv, S!TypeOK
    <3>2. SortCells \div SortSections \in Nat
      BY SectionLength
    <3> DEFINE q == SortCells \div SortSections
    <3> HIDE DEF q
    <3>3. q \in Nat /\ q <= size /\ size <= 2 * SortCells /\ (Merging => size < SortCells)
      BY <3>1, <3>2 DEF q
    <3>4. s \in Nat /\ 1 <= s /\ q <= s /\ s <= 2 * SortCells
      BY ONLY <1>1, <3>3
    <3> QED BY <3>4 DEF q
  <2>3. ASSUME NEW c \in S!Kids PROVE Idling(c)'
    <3>1. todo[c] = <<>> /\ c \notin unwaited'
      <4>1. CASE c < i
        BY <1>0, <4>1 DEF RoundInv
      <4>2. CASE c = i
        BY <4>2
      <4>3. CASE Count <= c
        BY <1>0, <4>3 DEF RoundInv, Idling
      <4> QED BY <1>1, <1>5, <4>1, <4>2, <4>3
    <3> QED BY <1>3, <2>1, <3>1 DEF Idling
  <2> HIDE DEF s
  <2>4. /\ main' = (IF s < SortCells THEN "fork_merge" ELSE "done") /\ ~Sorting'
        /\ Merging' <=> s < SortCells
    BY <2>1 DEF S!NextRound, Sorting, Merging
  <2>5. S!TypeOK'
    <3>1. i' \in S!Kids /\ size' \in 1 .. 2 * SortCells
      BY <1>1, <2>1, <2>2, SortConstants DEF S!Kids
    <3>2. unwaited' \subseteq S!Kids /\ incomplete' \in BOOLEAN
      BY <1>0 DEF S!TypeOK
    <3>3. main' \in {"fork_sort", "wait_sort", "fork_merge", "wait_merge", "done"}
      BY <2>4
    <3> QED BY <1>0, <1>3, <2>1, <3>1, <3>2, <3>3 DEF S!TypeOK
  <2>6. ASSUME NEW c \in S!Kids PROVE todo'[c] = <<>> /\ L'[c] = <<>> /\ R'[c] = <<>>
    <3>1. todo[c] = <<>>
      BY <1>3, <2>3 DEF Idling
    <3>2. Shape(todo[c], L[c], R[c], First(c), Last(c))
      BY <1>0 DEF Shapes
    <3> QED BY <1>3, <3>1, <3>2 DEF Shape
  <2>7. Shapes'
    <3>1. ASSUME NEW c \in S!Kids, NEW lo, NEW hi PROVE Shape(todo'[c], L'[c], R'[c], lo, hi)
      BY <2>6 DEF Shape
    <3> QED BY <3>1 DEF Shapes
  <2>8. main' # "done" => i' < Count'
    <3>1. SUFFICES ASSUME s < SortCells PROVE 0 < Count'
      BY <2>1, <2>4
    <3>2. Count' = (SortCells + 2 * s - 1) \div (2 * s)
      BY <2>1, <2>4, <3>1 DEF Count, S!num_merges
    <3> QED BY <2>2, <3>2, MergeCount
  <2>9. main' = "done" => SortCells <= s
    BY <1>1, <2>2, <2>4
  <2>10. RoundInv'
    <3>1. \A c \in S!Kids : todo'[c] = <<>> /\ c \notin unwaited' /\ c \notin failed'
      BY <2>3 DEF Idling
    <3> QED BY <2>1, <2>2, <2>3, <2>4, <2>8, <2>9, <3>1 DEF RoundInv
  <2> QED BY <2>5, <2>7, <2>10 DEF SortBase
<1> QED BY <1>4, <1>5

LEMMA WaitSortBase == ASSUME SortBase, S!WaitSort PROVE SortBase'
<1>1. main = "wait_sort" /\ Sorting /\ ~Merging /\ i \in S!Kids /\ size \in Nat
  BY SortConstants DEF S!WaitSort, S!LoopPass, Sorting, Merging, SortBase, S!TypeOK
<1>2. Count = SortSections
  BY <1>1 DEF Count
<1>3. todo[i] = <<>> /\ i \notin unwaited' /\ unwaited' \subseteq unwaited /\ incomplete' = incomplete
  BY <1>1, WaitEffect DEF S!WaitSort
<1>4. S!LoopPass(main, Count, S!NextRound(IF Merging THEN 2 * size ELSE size)) /\ S!ForgetFailed(Count)
      /\ size' = size /\ UNCHANGED <<arr, S!kids, input>>
  BY <1>1, <1>2 DEF S!WaitSort
<1>5. size = IF i + 1 = Count /\ Merging THEN 2 * size ELSE size
  BY <1>1
<1> QED BY <1>1, <1>3, <1>4, <1>5, WaitRound

LEMMA WaitMergeBase == ASSUME SortBase, S!WaitMerge PROVE SortBase'
<1>0. S!TypeOK /\ RoundInv
  BY DEF SortBase
<1>1. main = "wait_merge" /\ ~Sorting /\ Merging /\ i \in S!Kids /\ size \in Nat
  BY SortConstants DEF S!WaitMerge, S!LoopPass, Sorting, Merging, SortBase, S!TypeOK
<1>2. Count = S!num_merges
  BY <1>1 DEF Count
<1>3. todo[i] = <<>> /\ i \notin unwaited' /\ unwaited' \subseteq unwaited /\ incomplete' = incomplete
  <2>1. CASE S!Left + size - 1 < SortCells - 1
    BY <1>1, <2>1, WaitEffect DEF S!WaitMerge
  <2>2. CASE ~(S!Left + size - 1 < SortCells - 1)
    <3>1. ~HasPair(i)
      BY <1>0, <1>1, <2>2, SectionNames
    <3>2. Idling(i)
      BY <1>0, <1>1, <3>1 DEF RoundInv
    <3> QED BY <2>2, <3>2 DEF S!WaitMerge, Idling
  <2> QED BY <2>1, <2>2
<1>4. S!LoopPass(main, Count, S!NextRound(IF Merging THEN 2 * size ELSE size)) /\ S!ForgetFailed(Count)
      /\ size' = (IF i + 1 = Count THEN 2 * size ELSE size) /\ UNCHANGED <<arr, S!kids, input>>
  BY <1>1, <1>2 DEF S!WaitMerge
<1> DEFINE next == IF i + 1 = Count /\ Merging THEN 2 * size ELSE size
<1>5. next \in Nat /\ size' = next
  BY <1>1, <1>4
<1> HIDE DEF next
<1>6. next = IF i + 1 = Count /\ Merging THEN 2 * size ELSE size
  BY DEF next
<1> QED BY <1>1, <1>3, <1>4, <1>5, <1>6, WaitRound

LEMMA SortBaseStep == ASSUME SortBase, S!Next PROVE SortBase'
  BY ForkSortBase, ForkMergeBase, WaitSortBase, WaitMergeBase, ChildBase DEF S!Next, S!parent, S!child

(* The sections, and the pairs of blocks, of two children have no cell in   *)
(* common.                                                                  *)
LEMMA SortChildrenApart == SortBase => S!ChildrenApart
<1> SUFFICES ASSUME SortBase, NEW c \in S!Kids, NEW d \in S!Kids, c # d, NEW k \in S!Territory(c) \intersect S!Territory(d)
             PROVE  FALSE
  BY DEF S!ChildrenApart
<1>1. ASSUME NEW e \in S!Kids, k \in S!Territory(e)
      PROVE  k \in Int /\ First(e) <= k /\ k <= Last(e)
  <2>1. PICK j \in DOMAIN todo[e] : k \in todo[e][j].l .. todo[e][j].r
    BY <1>1 DEF S!Territory
  <2>2. todo[e][j] \in S!Calls
    BY DEF SortBase, S!TypeOK
  <2>3. First(e) <= todo[e][j].l /\ todo[e][j].r <= Last(e)
    BY DEF SortBase, Shapes, Shape
  <2>4. First(e) \in Int /\ Last(e) \in Int
    BY SectionBounds DEF SortBase
  <2> QED BY <2>1, <2>2, <2>3, <2>4, CallNumbers
<1>2. ASSUME NEW e \in S!Kids, NEW f \in S!Kids, e < f, k \in S!Territory(e), k \in S!Territory(f) PROVE FALSE
  <2>1. Last(e) < First(f) /\ Last(e) \in Int /\ First(f) \in Int
    BY <1>2, SectionBounds DEF SortBase
  <2>2. k \in Int /\ k <= Last(e) /\ First(f) <= k
    BY <1>1, <1>2
  <2> QED BY <2>1, <2>2
<1>3. c < d \/ d < c
  BY SortConstants DEF S!Kids
<1> QED BY <1>2, <1>3

-----------------------------------------------------------------------------
(***************************************************************************)
(* Counting values.                                                        *)
(***************************************************************************)
LEMMA SortCardinality == ASSUME NEW T PROVE S!Cardinality(T) = Cardinality(T)
  BY DEF S!Cardinality, Cardinality

(* How often v is in a sequence, and in the cells a .. b.                    *)
Occurs(s, v) == Cardinality({k \in DOMAIN s : s[k] = v})
Between(a, x, y, v) == Cardinality({k \in x .. y : a[k] = v})

LEMMA FiniteRange ==
  ASSUME NEW x \in Int, NEW y \in Int, NEW V, V \subseteq x .. y
  PROVE  IsFiniteSet(V) /\ Cardinality(V) \in Nat
<1>1. IsFiniteSet(x .. y)
  BY FS_Interval
<1> QED BY <1>1, FS_Subset, FS_CardinalityType

LEMMA OccursNumber ==
  ASSUME NEW T, NEW s \in Seq(T), NEW v
  PROVE  Occurs(s, v) \in Nat /\ (s = <<>> => Occurs(s, v) = 0)
<1>1. DOMAIN s = 1 .. Len(s) /\ Len(s) \in Nat
  OBVIOUS
<1>2. Occurs(s, v) \in Nat
  <2> DEFINE V == {k \in DOMAIN s : s[k] = v}
  <2>1. V \subseteq 1 .. Len(s)
    BY <1>1
  <2>2. 1 \in Int /\ Len(s) \in Int
    BY <1>1
  <2> HIDE DEF V
  <2>3. Cardinality(V) \in Nat
    BY <2>1, <2>2, FiniteRange
  <2> QED BY <2>3 DEF Occurs, V
<1>3. s = <<>> => {k \in DOMAIN s : s[k] = v} = {}
  BY <1>1
<1> QED BY <1>2, <1>3, FS_EmptySet DEF Occurs

(* The same number of elements, one shifted. *)
LEMMA Shifted ==
  ASSUME NEW V, NEW Q, NEW d \in Int, V \subseteq Int, Q \subseteq Int, IsFiniteSet(V),
         \A k \in Int : k \in V <=> k + d \in Q
  PROVE  IsFiniteSet(Q) /\ Cardinality(Q) = Cardinality(V)
<1> DEFINE f == [k \in V |-> k + d]
<1>1. f \in Bijection(V, Q)
  <2>1. \A k \in V : f[k] \in Q
    OBVIOUS
  <2>2. \A x \in V, y \in V : f[x] = f[y] => x = y
    <3>1. \A x \in Int, y \in Int : x + d = y + d => x = y
      OBVIOUS
    <3> QED BY <3>1
  <2>3. \A y \in Q : \E x \in V : f[x] = y
    <3>1. SUFFICES ASSUME NEW y \in Q PROVE \E x \in V : f[x] = y
      OBVIOUS
    <3>2. y - d \in Int /\ (y - d) + d = y
      OBVIOUS
    <3>3. y - d \in V
      BY <3>2
    <3> QED BY <3>2, <3>3
  <2>4. f \in [V -> Q]
    BY <2>1
  <2> HIDE DEF f
  <2> QED BY <2>2, <2>3, <2>4 DEF Bijection, Injection, Surjection, IsInjective
<1>2. ExistsBijection(V, Q)
  BY <1>1 DEF ExistsBijection
<1> QED BY <1>2, FS_Bijection

LEMMA OccursTail ==
  ASSUME NEW T, NEW s \in Seq(T), s # <<>>, NEW v
  PROVE  Occurs(s, v) = Occurs(Tail(s), v) + (IF Head(s) = v THEN 1 ELSE 0)
<1> DEFINE V == {k \in DOMAIN Tail(s) : Tail(s)[k] = v}
           Q == {k \in DOMAIN s : k > 1 /\ s[k] = v}
           U == {k \in DOMAIN s : s[k] = v}
<1>1. /\ Len(s) \in Nat /\ 1 <= Len(s) /\ DOMAIN s = 1 .. Len(s) /\ Head(s) = s[1]
      /\ DOMAIN Tail(s) = 1 .. Len(s) - 1
      /\ \A k \in 1 .. Len(s) - 1 : Tail(s)[k] = s[k + 1]
  OBVIOUS
<1>2. IsFiniteSet(V) /\ IsFiniteSet(Q) /\ Cardinality(V) = Cardinality(Q)
  <2>1. V \subseteq 1 .. Len(s) - 1 /\ Q \subseteq 1 .. Len(s)
    BY <1>1
  <2>2. IsFiniteSet(V)
    <3>1. Len(s) - 1 \in Int /\ 1 \in Int
      BY <1>1
    <3> HIDE DEF V
    <3> QED BY <2>1, <3>1, FiniteRange
  <2>3. \A k \in Int : k \in V <=> k + 1 \in Q
    BY <1>1
  <2>4. V \subseteq Int /\ Q \subseteq Int /\ 1 \in Int
    BY <2>1
  <2> HIDE DEF V, Q
  <2> QED BY <2>2, <2>3, <2>4, Shifted
<1>3. CASE s[1] = v
  <2>1. U = Q \union {1} /\ 1 \notin Q
    BY <1>1, <1>3
  <2> HIDE DEF V, Q, U
  <2>2. Cardinality(U) = Cardinality(Q) + 1
    BY <1>2, <2>1, OneMore
  <2>3. Occurs(s, v) = Cardinality(U) /\ Occurs(Tail(s), v) = Cardinality(V)
    BY DEF Occurs, U, V
  <2> QED BY <1>1, <1>2, <1>3, <2>2, <2>3
<1>4. CASE s[1] # v
  <2>1. U = Q
    BY <1>1, <1>4
  <2>2. Cardinality(V) \in Nat
    BY <1>2, FS_CardinalityType
  <2>3. Occurs(s, v) = Cardinality(U) /\ Occurs(Tail(s), v) = Cardinality(V)
    BY DEF Occurs
  <2> HIDE DEF V, Q, U
  <2> QED BY <1>1, <1>2, <1>4, <2>1, <2>2, <2>3
<1> QED BY <1>3, <1>4

(* A copy of the cells b + 1 .. b + n has each value as often as they.       *)
LEMMA OccursCopy ==
  ASSUME NEW b \in Int, NEW n \in Nat, NEW a, NEW v
  PROVE  Occurs([k \in 1 .. n |-> a[b + k]], v) = Between(a, b + 1, b + n, v)
<1> DEFINE s == [k \in 1 .. n |-> a[b + k]]
           V == {k \in DOMAIN s : s[k] = v}
           Q == {k \in b + 1 .. b + n : a[k] = v}
<1>1. V = {k \in 1 .. n : a[b + k] = v}
  OBVIOUS
<1>2. IsFiniteSet(V)
  <2>1. V \subseteq 1 .. n /\ 1 \in Int /\ n \in Int
    OBVIOUS
  <2> HIDE DEF V
  <2> QED BY <2>1, FiniteRange
<1>3. V \subseteq Int /\ Q \subseteq Int
  OBVIOUS
<1>4. ASSUME NEW k \in Int PROVE k \in V <=> k + b \in Q
  <2>1. k + b = b + k /\ (k \in 1 .. n <=> k + b \in b + 1 .. b + n)
    OBVIOUS
  <2> QED BY <1>1, <2>1
<1> HIDE DEF V, Q, s
<1>5. Cardinality(Q) = Cardinality(V)
  BY <1>2, <1>3, <1>4, Shifted
<1> QED BY <1>5 DEF V, Q, s, Occurs, Between

(* The copies of one child and those of the others. *)
WaitSet(K, v) ==
  {ck \in S!Kids \X (1 .. SortCells) : ck[2] \in DOMAIN K[ck[1]] /\ K[ck[1]][ck[2]] = v}
OthersSet(K, c, v) == {ck \in WaitSet(K, v) : ck[1] # c}
Others(K, c, v) == Cardinality(OthersSet(K, c, v))

LEMMA DisjointSum ==
  ASSUME NEW V, NEW Q, NEW U, IsFiniteSet(V), IsFiniteSet(Q), V \intersect Q = {}, U = V \union Q
  PROVE  /\ IsFiniteSet(U) /\ Cardinality(U) = Cardinality(V) + Cardinality(Q)
         /\ Cardinality(V) \in Nat /\ Cardinality(Q) \in Nat
<1>1. Cardinality(V) \in Nat /\ Cardinality(Q) \in Nat
  BY FS_CardinalityType
<1>2. IsFiniteSet(V \union Q) /\ Cardinality(V \union Q) = Cardinality(V) + Cardinality(Q) - Cardinality({})
  BY FS_Union
<1>3. Cardinality({}) = 0
  BY FS_EmptySet
<1> QED BY <1>1, <1>2, <1>3

LEMMA WaitingSplit ==
  ASSUME NEW T, NEW K \in [S!Kids -> Seq(T)], NEW c \in S!Kids, Len(K[c]) <= SortCells, NEW v
  PROVE  S!Waiting(K, v) = Others(K, c, v) + Occurs(K[c], v) /\ Others(K, c, v) \in Nat
<1> DEFINE W == WaitSet(K, v)
           V == OthersSet(K, c, v)
           Q == {ck \in W : ck[1] = c}
           J == {k \in DOMAIN K[c] : K[c][k] = v}
<1>0. SortCells \in Nat /\ SortSections \in Nat
  BY SortConstants
<1>1. IsFiniteSet(W)
  <2>1. IsFiniteSet(S!Kids) /\ IsFiniteSet(1 .. SortCells)
    <3>1. 0 \in Int /\ SortSections - 1 \in Int /\ 1 \in Int /\ SortCells \in Int
      BY <1>0
    <3> QED BY <3>1, FS_Interval DEF S!Kids
  <2>2. IsFiniteSet(S!Kids \X (1 .. SortCells))
    BY <2>1, FS_Product
  <2>3. W \subseteq S!Kids \X (1 .. SortCells)
    BY DEF WaitSet
  <2> HIDE DEF W
  <2> QED BY <2>2, <2>3, FS_Subset
<1>2. IsFiniteSet(V) /\ IsFiniteSet(Q) /\ V \intersect Q = {} /\ W = V \union Q
  <2>1. V \subseteq W /\ Q \subseteq W /\ V \intersect Q = {} /\ W = V \union Q
    BY DEF OthersSet
  <2> HIDE DEF W, V, Q
  <2> QED BY <1>1, <2>1, FS_Subset
<1>3. Cardinality(W) = Cardinality(V) + Cardinality(Q) /\ Cardinality(V) \in Nat
  <2> HIDE DEF W, V, Q
  <2> QED BY <1>2, DisjointSum
<1>4. /\ DOMAIN K[c] = 1 .. Len(K[c]) /\ Len(K[c]) \in Nat
      /\ J \subseteq 1 .. SortCells
  BY <1>0
<1>5. Cardinality(Q) = Cardinality(J)
  <2> DEFINE f == [k \in J |-> <<c, k>>]
  <2>1. \A k \in J : <<c, k>> \in Q
    BY <1>4 DEF WaitSet
  <2>2. f \in [J -> Q]
    BY <2>1
  <2>3. \A x \in J, y \in J : f[x] = f[y] => x = y
    OBVIOUS
  <2>4. \A y \in Q : \E x \in J : f[x] = y
    <3>1. SUFFICES ASSUME NEW y \in Q PROVE \E x \in J : f[x] = y
      OBVIOUS
    <3>2. y = <<c, y[2]>> /\ y[2] \in J
      BY DEF WaitSet
    <3> QED BY <3>2
  <2>5. IsFiniteSet(J)
    <3>1. J \subseteq 1 .. SortCells /\ 1 \in Int /\ SortCells \in Int
      BY <1>0, <1>4
    <3> HIDE DEF J
    <3> QED BY ONLY <3>1, FiniteRange
  <2> HIDE DEF f, J, Q
  <2>6. f \in Bijection(J, Q)
    BY <2>2, <2>3, <2>4 DEF Bijection, Injection, Surjection, IsInjective
  <2>7. ExistsBijection(J, Q)
    BY <2>6 DEF ExistsBijection
  <2> QED BY <2>5, <2>7, FS_Bijection
<1>6. S!Waiting(K, v) = Cardinality(W)
  BY SortCardinality DEF S!Waiting, WaitSet
<1>7. Others(K, c, v) = Cardinality(V) /\ Occurs(K[c], v) = Cardinality(J)
  BY DEF Others, Occurs
<1> HIDE DEF W, V, Q, J
<1> QED BY <1>3, <1>5, <1>6, <1>7

LEMMA SameOthers ==
  ASSUME NEW K, NEW G, NEW c, NEW v,
         \A d \in S!Kids : d # c => G[d] = K[d]
  PROVE  Others(G, c, v) = Others(K, c, v)
<1>1. OthersSet(G, c, v) = OthersSet(K, c, v)
  BY DEF OthersSet, WaitSet
<1> QED BY <1>1 DEF Others

(* The cells whose value is in the copies of a child. *)
Busy(cs, lt, rt) == IF lt = <<>> /\ rt = <<>> THEN {} ELSE Output(cs, lt, rt) .. cs[1].r
OthersBusy(c) == UNION {Busy(todo[d], L[d], R[d]) : d \in S!Kids \ {c}}

LEMMA BusySuperseded ==
  ASSUME SortBase, NEW c \in S!Kids
  PROVE  S!Superseded = OthersBusy(c) \union Busy(todo[c], L[c], R[c])
<1>1. ASSUME NEW d \in S!Kids
      PROVE  (IF L[d] = <<>> /\ R[d] = <<>> THEN {} ELSE S!NextCell(d) .. Head(todo[d]).r) = Busy(todo[d], L[d], R[d])
  <2>1. Shape(todo[d], L[d], R[d], First(d), Last(d))
    BY DEF SortBase, Shapes
  <2>2. CASE L[d] = <<>> /\ R[d] = <<>>
    BY <2>2 DEF Busy
  <2>3. CASE ~(L[d] = <<>> /\ R[d] = <<>>)
    <3>1. todo[d] # <<>>
      BY <2>1, <2>3 DEF Shape
    <3>2. Head(todo[d]) = todo[d][1]
      BY <3>1, CallBounds
    <3> QED BY <2>3, <3>2 DEF Busy, S!NextCell, Output
  <2> QED BY <2>2, <2>3
<1>2. S!Superseded = UNION {Busy(todo[d], L[d], R[d]) : d \in S!Kids}
  BY <1>1 DEF S!Superseded
<1> QED BY <1>2 DEF OthersBusy

(* The others keep off the cells of a call. *)
LEMMA OthersElsewhere ==
  ASSUME SortBase, NEW c \in S!Kids, todo[c] # <<>>, NEW k \in todo[c][1].l .. todo[c][1].r
  PROVE  k \notin OthersBusy(c)
<1> SUFFICES ASSUME k \in OthersBusy(c) PROVE FALSE
  OBVIOUS
<1>1. PICK d \in S!Kids \ {c} : k \in Busy(todo[d], L[d], R[d])
  BY DEF OthersBusy
<1>2. ~(L[d] = <<>> /\ R[d] = <<>>) /\ Shape(todo[d], L[d], R[d], First(d), Last(d))
  BY <1>1 DEF Busy, SortBase, Shapes
<1>3. todo[d] # <<>> /\ Len(L[d]) <= todo[d][1].m - todo[d][1].l + 1 /\ Len(R[d]) <= todo[d][1].r - todo[d][1].m
  BY <1>2 DEF Shape
<1>4. /\ 1 \in DOMAIN todo[d] /\ todo[d][1].l \in Int /\ todo[d][1].m \in Int /\ todo[d][1].r \in Int
      /\ 1 \in DOMAIN todo[c]
  <2>1. 1 \in DOMAIN todo[c]
    BY CallBounds
  <2>2. 1 \in DOMAIN todo[d] /\ todo[d][1] \in S!Calls
    BY <1>1, <1>3, CallBounds
  <2> QED BY <2>1, <2>2, CallNumbers
<1>5. Len(L[d]) \in Nat /\ Len(R[d]) \in Nat
  BY <1>1 DEF SortBase, S!TypeOK
<1>6. k \in Output(todo[d], L[d], R[d]) .. todo[d][1].r
  BY <1>1, <1>2 DEF Busy
<1>7. k \in todo[d][1].l .. todo[d][1].r
  <2>1. Output(todo[d], L[d], R[d]) \in Int /\ todo[d][1].l <= Output(todo[d], L[d], R[d])
    <3> DEFINE a == Len(L[d])
               b == Len(R[d])
               xl == todo[d][1].l
               xm == todo[d][1].m
               xr == todo[d][1].r
    <3>1. /\ a \in Nat /\ b \in Nat /\ xl \in Int /\ xm \in Int /\ xr \in Int
          /\ a <= xm - xl + 1 /\ b <= xr - xm
      BY <1>3, <1>4, <1>5
    <3>2. Output(todo[d], L[d], R[d]) = xr + 1 - a - b
      BY DEF Output
    <3> HIDE DEF a, b, xl, xm, xr
    <3>3. xr + 1 - a - b \in Int /\ xl <= xr + 1 - a - b
      BY ONLY <3>1
    <3> QED BY <3>2, <3>3 DEF xl
  <2> QED BY <1>4, <1>6, <2>1
<1>8. k \in S!Territory(c) /\ k \in S!Territory(d)
  BY <1>4, <1>7 DEF S!Territory
<1> QED BY <1>1, <1>8, SortChildrenApart DEF S!ChildrenApart

CellSet(a, T, v) == {k \in S!Cells \ T : a[k] = v}
CellCount(a, T, v) == Cardinality(CellSet(a, T, v))

LEMMA CellsFinite == ASSUME NEW a, NEW T, NEW v PROVE IsFiniteSet(CellSet(a, T, v)) /\ CellCount(a, T, v) \in Nat
<1> DEFINE V == CellSet(a, T, v)
<1>1. V \subseteq 0 .. SortCells - 1 /\ 0 \in Int /\ SortCells - 1 \in Int
  BY SortConstants DEF CellSet, S!Cells
<1> HIDE DEF V
<1>2. IsFiniteSet(V) /\ Cardinality(V) \in Nat
  BY ONLY <1>1, FiniteRange
<1> QED BY <1>2 DEF V, CellCount

(* The cells of a call are copied. *)
LEMMA CopyCounts ==
  ASSUME NEW a, NEW O, NEW v, NEW l \in S!Cells, NEW m \in S!Cells, NEW r \in S!Cells, l <= m, m < r,
         \A k \in l .. r : k \notin O,
         NEW lt, lt = [k \in 1 .. m - l + 1 |-> a[l + k - 1]],
         NEW rt, rt = [k \in 1 .. r - m |-> a[m + k]]
  PROVE  CellCount(a, O, v) = CellCount(a, O \union (l .. r), v) + Occurs(lt, v) + Occurs(rt, v)
<1>1. l \in Int /\ m \in Int /\ r \in Int /\ l .. r \subseteq S!Cells
  BY SortConstants DEF S!Cells
<1> DEFINE V == CellSet(a, O \union (l .. r), v)
           Q == {k \in l .. r : a[k] = v}
           Q1 == {k \in l .. m : a[k] = v}
           Q2 == {k \in m + 1 .. r : a[k] = v}
           U == CellSet(a, O, v)
<1>2. IsFiniteSet(Q) /\ IsFiniteSet(Q1) /\ IsFiniteSet(Q2)
  <2>1. Q \subseteq l .. r /\ Q1 \subseteq l .. m /\ Q2 \subseteq m + 1 .. r /\ m + 1 \in Int
    BY <1>1
  <2> HIDE DEF Q, Q1, Q2
  <2> QED BY ONLY <1>1, <2>1, FiniteRange
<1>3. Q = Q1 \union Q2 /\ Q1 \intersect Q2 = {}
  <2>1. l .. r = (l .. m) \union (m + 1 .. r) /\ (l .. m) \intersect (m + 1 .. r) = {}
    BY <1>1
  <2> QED BY <2>1
<1>4. U = V \union Q /\ V \intersect Q = {}
  BY <1>1 DEF CellSet
<1>5. IsFiniteSet(V)
  BY CellsFinite
<1>6. Q1 = {k \in (l - 1) + 1 .. (l - 1) + (m - l + 1) : a[k] = v}
  <2>1. (l - 1) + 1 = l /\ (l - 1) + (m - l + 1) = m
    BY ONLY <1>1
  <2> QED BY <2>1
<1>7. Q2 = {k \in m + 1 .. m + (r - m) : a[k] = v}
  <2>1. m + (r - m) = r
    BY ONLY <1>1
  <2> QED BY <2>1
<1>8. Occurs(lt, v) = Cardinality(Q1)
  <2> DEFINE b == l - 1
             n == m - l + 1
             s == [k \in 1 .. n |-> a[b + k]]
  <2>1. b \in Int /\ n \in Nat
    BY <1>1
  <2>2. \A k \in 1 .. n : b + k = l + k - 1
    BY <1>1
  <2>3. lt = s
    BY <2>2
  <2>4. Q1 = {k \in b + 1 .. b + n : a[k] = v}
    BY <1>6
  <2> HIDE DEF b, n, Q1
  <2>5. Occurs(s, v) = Between(a, b + 1, b + n, v)
    BY <2>1, OccursCopy
  <2> QED BY <2>3, <2>4, <2>5 DEF Between
<1>9. Occurs(rt, v) = Cardinality(Q2)
  <2> DEFINE n == r - m
  <2>1. n \in Nat /\ m \in Int
    BY <1>1
  <2>2. rt = [k \in 1 .. n |-> a[m + k]]
    OBVIOUS
  <2>3. Q2 = {k \in m + 1 .. m + n : a[k] = v}
    BY <1>7
  <2> HIDE DEF n, Q2
  <2>4. Occurs([k \in 1 .. n |-> a[m + k]], v) = Between(a, m + 1, m + n, v)
    BY <2>1, OccursCopy
  <2> QED BY <2>2, <2>3, <2>4 DEF Between
<1>10. CellCount(a, O, v) = Cardinality(U) /\ CellCount(a, O \union (l .. r), v) = Cardinality(V)
  BY DEF CellCount
<1> HIDE DEF V, Q, Q1, Q2, U
<1>11. Cardinality(U) = Cardinality(V) + Cardinality(Q) /\ Cardinality(V) \in Nat
  BY <1>2, <1>4, <1>5, DisjointSum
<1>12. Cardinality(Q) = Cardinality(Q1) + Cardinality(Q2) /\ Cardinality(Q1) \in Nat /\ Cardinality(Q2) \in Nat
  BY <1>2, <1>3, DisjointSum
<1> QED BY <1>8, <1>9, <1>10, <1>11, <1>12

(* A value is stored in the first of the busy cells. *)
Put(a, o, w) == [a EXCEPT ![o] = w]

LEMMA StoreCounts ==
  ASSUME NEW a \in [S!Cells -> SortValues], NEW O, NEW v, NEW o \in S!Cells, NEW r \in S!Cells, o <= r, o \notin O,
         NEW w, NEW a2, a2 = Put(a, o, w)
  PROVE  CellCount(a2, O \union (o + 1 .. r), v)
           = CellCount(a, O \union (o .. r), v) + (IF w = v THEN 1 ELSE 0)
<1> DEFINE V == CellSet(a, O \union (o .. r), v)
           Q == CellSet(a2, O \union (o + 1 .. r), v)
<1>1. o \in Int /\ r \in Int /\ o \notin o + 1 .. r /\ o .. r = {o} \union (o + 1 .. r)
  BY SortConstants DEF S!Cells
<1>2. o \notin V /\ \A k : k # o => (k \in V <=> k \in Q)
  BY <1>1 DEF CellSet, Put
<1>3. o \in Q <=> w = v
  BY <1>1 DEF CellSet, Put
<1>4. IsFiniteSet(V) /\ Cardinality(V) \in Nat
  BY CellsFinite DEF CellCount
<1>5. CellCount(a2, O \union (o + 1 .. r), v) = Cardinality(Q) /\ CellCount(a, O \union (o .. r), v) = Cardinality(V)
  BY DEF CellCount
<1> HIDE DEF V, Q
<1>6. CASE w = v
  <2>1. Q = V \union {o}
    BY <1>2, <1>3, <1>6
  <2>2. Cardinality(Q) = Cardinality(V) + 1
    BY <1>2, <1>4, <2>1, OneMore
  <2> QED BY <1>5, <1>6, <2>2
<1>7. CASE w # v
  <2>1. Q = V
    BY <1>2, <1>3, <1>7
  <2> QED BY <1>4, <1>5, <1>7, <2>1
<1> QED BY <1>6, <1>7

(* What a child has changes hands. *)
Share(a, O, cs, lt, rt, v) == CellCount(a, O \union Busy(cs, lt, rt), v) + Occurs(lt, v) + Occurs(rt, v)

LEMMA CopyShare ==
  ASSUME SortBase, NEW c \in S!Kids, S!CopyHalves(c), NEW v
  PROVE  Share(arr', OthersBusy(c), todo'[c], L'[c], R'[c], v) = Share(arr, OthersBusy(c), todo[c], L[c], R[c], v)
<1> DEFINE x == todo[c][1]
           O == OthersBusy(c)
<1>0. L \in [S!Kids -> Seq(SortValues)] /\ R \in [S!Kids -> Seq(SortValues)] /\ arr \in [S!Cells -> SortValues]
  BY DEF SortBase, S!TypeOK
<1>1. /\ arr' = arr /\ todo' = todo /\ todo[c] # <<>> /\ L[c] = <<>> /\ R[c] = <<>>
      /\ L'[c] = [k \in 1 .. x.m - x.l + 1 |-> arr[x.l + k - 1]]
      /\ R'[c] = [k \in 1 .. x.r - x.m |-> arr[x.m + k]]
  BY <1>0, CallBounds DEF S!CopyHalves
<1>2. x.l \in S!Cells /\ x.m \in S!Cells /\ x.r \in S!Cells /\ x.l <= x.m /\ x.m < x.r
  BY <1>1, CallBounds
<1>3. \A k \in x.l .. x.r : k \notin O
  BY <1>1, OthersElsewhere
<1>4. L'[c] \in Seq(SortValues) /\ R'[c] \in Seq(SortValues) /\ Len(L'[c]) = x.m - x.l + 1 /\ Len(R'[c]) = x.r - x.m
  <2> DEFINE lt == L'[c]
             rt == R'[c]
  <2> DEFINE n1 == x.m - x.l + 1
             n2 == x.r - x.m
  <2>1. lt = [k \in 1 .. n1 |-> arr[x.l + k - 1]] /\ rt = [k \in 1 .. n2 |-> arr[x.m + k]]
    BY <1>1
  <2>2. n1 \in Nat /\ n2 \in Nat /\ x.l \in Int /\ x.m \in Int /\ x.r \in Int
    <3>1. x.l \in Int /\ x.m \in Int /\ x.r \in Int
      BY <1>2, CallNumbers
    <3> HIDE DEF x
    <3>2. n1 \in Nat /\ n2 \in Nat
      BY ONLY <1>2, <3>1 DEF n1, n2
    <3> QED BY <3>1, <3>2
  <2>3. \A k \in 1 .. n1 : arr[x.l + k - 1] \in SortValues
    <3> SUFFICES ASSUME NEW k \in 1 .. n1 PROVE x.l + k - 1 \in S!Cells
      BY <1>0
    <3> QED BY <1>2, <2>2, SortConstants DEF S!Cells
  <2>4. \A k \in 1 .. n2 : arr[x.m + k] \in SortValues
    <3> SUFFICES ASSUME NEW k \in 1 .. n2 PROVE x.m + k \in S!Cells
      BY <1>0
    <3> QED BY <1>2, <2>2, SortConstants DEF S!Cells
  <2> HIDE DEF lt, rt, x, n1, n2
  <2>5. lt \in [1 .. n1 -> SortValues] /\ rt \in [1 .. n2 -> SortValues]
    BY ONLY <2>1, <2>3, <2>4
  <2>6. lt \in Seq(SortValues) /\ rt \in Seq(SortValues) /\ Len(lt) = n1 /\ Len(rt) = n2
    BY ONLY <2>2, <2>5
  <2>7. lt \in Seq(SortValues) /\ rt \in Seq(SortValues) /\ Len(lt) = x.m - x.l + 1 /\ Len(rt) = x.r - x.m
    BY <2>6 DEF n1, n2
  <2> QED BY <2>7 DEF lt, rt
<1>5. Busy(todo[c], L[c], R[c]) = {} /\ Busy(todo'[c], L'[c], R'[c]) = x.l .. x.r
  <2>1. x.l \in Int /\ x.m \in Int /\ x.r \in Int
    BY <1>2, CallNumbers
  <2>2. Output(todo[c], L'[c], R'[c]) = x.r + 1 - (x.m - x.l + 1) - (x.r - x.m)
    BY <1>4 DEF Output
  <2> HIDE DEF x
  <2>3. x.r + 1 - (x.m - x.l + 1) - (x.r - x.m) = x.l /\ x.m - x.l + 1 # 0
    BY ONLY <1>2, <2>1
  <2>4. L'[c] # <<>>
    BY <1>4, <2>3
  <2> QED BY <1>1, <2>2, <2>3, <2>4 DEF Busy, x
<1>6. Occurs(L[c], v) = 0 /\ Occurs(R[c], v) = 0
  <2>1. L[c] \in Seq(SortValues) /\ R[c] \in Seq(SortValues) /\ L[c] = <<>> /\ R[c] = <<>>
    BY <1>0, <1>1
  <2> QED BY <2>1, OccursNumber
<1>7. Occurs(L'[c], v) \in Nat /\ Occurs(R'[c], v) \in Nat /\ CellCount(arr, O, v) \in Nat
      /\ CellCount(arr, O \union (x.l .. x.r), v) \in Nat
  BY <1>4, OccursNumber, CellsFinite
<1>8. CellCount(arr, O, v) = CellCount(arr, O \union (x.l .. x.r), v) + Occurs(L'[c], v) + Occurs(R'[c], v)
  <2> DEFINE l == x.l
             m == x.m
             r == x.r
             lt == L'[c]
             rt == R'[c]
  <2>1. /\ l \in S!Cells /\ m \in S!Cells /\ r \in S!Cells /\ l <= m /\ m < r /\ \A k \in l .. r : k \notin O
        /\ lt = [k \in 1 .. m - l + 1 |-> arr[l + k - 1]] /\ rt = [k \in 1 .. r - m |-> arr[m + k]]
    BY <1>1, <1>2, <1>3
  <2> HIDE DEF l, m, r, O, lt, rt
  <2>2. CellCount(arr, O, v) = CellCount(arr, O \union (l .. r), v) + Occurs(lt, v) + Occurs(rt, v)
    BY ONLY <2>1, CopyCounts
  <2> QED BY <2>2 DEF l, m, r, lt, rt
<1>9. O \union {} = O
  OBVIOUS
<1>10. Share(arr', O, todo'[c], L'[c], R'[c], v)
         = CellCount(arr, O \union (x.l .. x.r), v) + Occurs(L'[c], v) + Occurs(R'[c], v)
  BY <1>1, <1>5 DEF Share
<1>11. Share(arr, O, todo[c], L[c], R[c], v) = CellCount(arr, O, v)
  BY <1>5, <1>6, <1>7, <1>9 DEF Share
<1> QED BY <1>8, <1>10, <1>11

LEMMA StoreShare ==
  ASSUME SortBase, NEW c \in S!Kids, S!Store(c), NEW v
  PROVE  Share(arr', OthersBusy(c), todo'[c], L'[c], R'[c], v) = Share(arr, OthersBusy(c), todo[c], L[c], R[c], v)
<1> DEFINE x == todo[c][1]
           O == OthersBusy(c)
           o == Output(todo[c], L[c], R[c])
<1>0. /\ L \in [S!Kids -> Seq(SortValues)] /\ R \in [S!Kids -> Seq(SortValues)] /\ arr \in [S!Cells -> SortValues]
      /\ todo \in [S!Kids -> Seq(S!Calls)]
      /\ Shape(todo[c], L[c], R[c], First(c), Last(c))
  BY DEF SortBase, S!TypeOK, Shapes
<1>1. L[c] # <<>> \/ R[c] # <<>>
  BY DEF S!Store
<1>2. todo[c] # <<>>
  BY <1>0, <1>1 DEF Shape
<1>3. Head(todo[c]) = x /\ S!NextCell(c) = o /\ x.l \in S!Cells /\ x.r \in S!Cells
  BY <1>2, CallBounds DEF S!NextCell, Output
<1>4. /\ todo'[c] = Remaining(todo[c], L[c], R[c])
      /\ \/ L[c] # <<>> /\ arr' = [arr EXCEPT ![o] = Head(L[c])] /\ L'[c] = Tail(L[c]) /\ R'[c] = R[c]
         \/ R[c] # <<>> /\ arr' = [arr EXCEPT ![o] = Head(R[c])] /\ R'[c] = Tail(R[c]) /\ L'[c] = L[c]
  BY <1>0, <1>1, <1>3 DEF S!Store, S!LeftIsNext, Remaining
<1>5. TakesOne(L[c], R[c], L'[c], R'[c])
  BY <1>4 DEF TakesOne
<1> DEFINE cs == todo[c]
           lt == L[c]
           rt == R[c]
           lt2 == L'[c]
           rt2 == R'[c]
           cs2 == todo'[c]
           lo == First(c)
           hi == Last(c)
           ol == x.l
           or == x.r
           ar2 == arr'
<1>6. /\ cs \in Seq(S!Calls) /\ lt \in Seq(SortValues) /\ rt \in Seq(SortValues)
      /\ Shape(cs, lt, rt, lo, hi) /\ (lt # <<>> \/ rt # <<>>)
      /\ TakesOne(lt, rt, lt2, rt2) /\ cs2 = Remaining(cs, lt, rt)
      /\ o = Output(cs, lt, rt) /\ or = cs[1].r /\ ol = cs[1].l
      /\ \/ lt # <<>> /\ ar2 = Put(arr, o, Head(lt)) /\ lt2 = Tail(lt) /\ rt2 = rt
         \/ rt # <<>> /\ ar2 = Put(arr, o, Head(rt)) /\ rt2 = Tail(rt) /\ lt2 = lt
      /\ \A k \in ol .. or : k \notin O
      /\ ol \in S!Cells /\ or \in S!Cells
  BY <1>0, <1>1, <1>2, <1>3, <1>4, <1>5, OthersElsewhere DEF Put
<1> HIDE DEF cs, lt, rt, lt2, rt2, cs2, lo, hi, o, x, O, ol, or, ar2
<1>7. /\ o \in Int /\ ol <= o /\ o <= or /\ (o = or <=> (lt2 = <<>> /\ rt2 = <<>>))
      /\ Output(cs, lt2, rt2) = o + 1
      /\ lt2 \in Seq(SortValues) /\ rt2 \in Seq(SortValues)
  <2>0. /\ cs \in Seq(S!Calls) /\ lt \in Seq(SortValues) /\ rt \in Seq(SortValues)
        /\ Shape(cs, lt, rt, lo, hi) /\ (lt # <<>> \/ rt # <<>>)
        /\ TakesOne(lt, rt, lt2, rt2) /\ cs2 = Remaining(cs, lt, rt)
    BY ONLY <1>6
  <2>1. Output(cs, lt, rt) \in Int /\ cs[1].l <= Output(cs, lt, rt) /\ Output(cs, lt, rt) <= cs[1].r
    BY ONLY <2>0, StoreShape
  <2>2. Output(cs, lt, rt) = cs[1].r <=> (lt2 = <<>> /\ rt2 = <<>>)
    BY ONLY <2>0, StoreShape
  <2>3. Output(cs, lt2, rt2) = Output(cs, lt, rt) + 1
    BY ONLY <2>0, StoreShape
  <2>4. lt2 \in Seq(SortValues) /\ rt2 \in Seq(SortValues)
    BY ONLY <2>0, StoreShape
  <2> QED BY ONLY <1>6, <2>1, <2>2, <2>3, <2>4
<1>8. Busy(cs, lt, rt) = o .. or
  BY <1>6 DEF Busy
<1>9. Busy(cs2, lt2, rt2) = o + 1 .. or
  <2>1. CASE o = or
    <3>1. o + 1 .. or = {}
      BY <1>7, <2>1
    <3> QED BY <1>7, <2>1, <3>1 DEF Busy
  <2>2. CASE o # or
    <3>1. cs2 = cs
      BY <1>6, <2>2 DEF Remaining
    <3> QED BY <1>6, <1>7, <2>2, <3>1 DEF Busy
  <2> QED BY <2>1, <2>2
<1>10. o \in S!Cells /\ o \notin O
  <2>1. o \in ol .. or /\ ol \in Int /\ or \in Int
    BY <1>6, <1>7, CallNumbers
  <2>2. o \in S!Cells
    BY <1>6, <2>1, SortConstants DEF S!Cells
  <2> QED BY <1>6, <2>1, <2>2
<1>11. ASSUME NEW w, ar2 = Put(arr, o, w)
       PROVE  CellCount(ar2, O \union (o + 1 .. or), v) = CellCount(arr, O \union (o .. or), v) + (IF w = v THEN 1 ELSE 0)
  <2>1. arr \in [S!Cells -> SortValues] /\ o \in S!Cells /\ or \in S!Cells /\ o <= or /\ o \notin O
    BY <1>0, <1>6, <1>7, <1>10
  <2> QED BY ONLY <2>1, <1>11, StoreCounts
<1>12. /\ Occurs(lt, v) \in Nat /\ Occurs(rt, v) \in Nat /\ Occurs(lt2, v) \in Nat /\ Occurs(rt2, v) \in Nat
       /\ CellCount(arr, O \union (o .. or), v) \in Nat /\ CellCount(ar2, O \union (o + 1 .. or), v) \in Nat
  BY <1>6, <1>7, OccursNumber, CellsFinite
<1>13. CASE lt # <<>> /\ ar2 = Put(arr, o, Head(lt)) /\ lt2 = Tail(lt) /\ rt2 = rt
  <2>1. Occurs(lt, v) = Occurs(lt2, v) + (IF Head(lt) = v THEN 1 ELSE 0)
    BY <1>6, <1>13, OccursTail
  <2>2. CellCount(ar2, O \union (o + 1 .. or), v) = CellCount(arr, O \union (o .. or), v) + (IF Head(lt) = v THEN 1 ELSE 0)
    BY <1>11, <1>13
  <2>3. Occurs(rt2, v) = Occurs(rt, v)
    BY <1>13
  <2>4. Share(ar2, O, cs2, lt2, rt2, v) = Share(arr, O, cs, lt, rt, v)
    BY <1>8, <1>9, <1>12, <2>1, <2>2, <2>3 DEF Share
  <2> QED BY <2>4 DEF cs, lt, rt, lt2, rt2, cs2, O, ar2
<1>14. CASE rt # <<>> /\ ar2 = Put(arr, o, Head(rt)) /\ rt2 = Tail(rt) /\ lt2 = lt
  <2>1. Occurs(rt, v) = Occurs(rt2, v) + (IF Head(rt) = v THEN 1 ELSE 0)
    BY <1>6, <1>14, OccursTail
  <2>2. CellCount(ar2, O \union (o + 1 .. or), v) = CellCount(arr, O \union (o .. or), v) + (IF Head(rt) = v THEN 1 ELSE 0)
    BY <1>11, <1>14
  <2>3. Occurs(lt2, v) = Occurs(lt, v)
    BY <1>14
  <2>4. Share(ar2, O, cs2, lt2, rt2, v) = Share(arr, O, cs, lt, rt, v)
    BY <1>8, <1>9, <1>12, <2>1, <2>2, <2>3 DEF Share
  <2> QED BY <2>4 DEF cs, lt, rt, lt2, rt2, cs2, O, ar2
<1> QED BY <1>6, <1>13, <1>14

-----------------------------------------------------------------------------
(***************************************************************************)
(* No value is lost.                                                       *)
(***************************************************************************)
(* No copy is longer than the array. *)
LEMMA CopiesFit ==
  ASSUME NEW cs \in Seq(S!Calls), NEW lt \in Seq(SortValues), NEW rt \in Seq(SortValues), NEW lo, NEW hi,
         Shape(cs, lt, rt, lo, hi)
  PROVE  /\ Len(lt) <= SortCells /\ Len(rt) <= SortCells
         /\ (IF lt = <<>> /\ rt = <<>> THEN {} ELSE Head(cs).r + 1 - Len(lt) - Len(rt) .. Head(cs).r)
              = Busy(cs, lt, rt)
<1>0. SortCells \in Nat
  BY SortConstants
<1>1. CASE lt = <<>> /\ rt = <<>>
  <2>1. Len(lt) = 0 /\ Len(rt) = 0
    BY <1>1
  <2> QED BY <1>0, <1>1, <2>1 DEF Busy
<1>2. CASE ~(lt = <<>> /\ rt = <<>>)
  <2>1. cs # <<>> /\ Len(lt) <= cs[1].m - cs[1].l + 1 /\ Len(rt) <= cs[1].r - cs[1].m
    BY <1>2 DEF Shape
  <2>2. cs[1] = Head(cs) /\ cs[1] \in S!Calls
    BY <2>1
  <2> DEFINE xl == cs[1].l
             xm == cs[1].m
             xr == cs[1].r
             a == Len(lt)
             b == Len(rt)
  <2>3. xl \in S!Cells /\ xm \in S!Cells /\ xr \in S!Cells
    BY <2>2 DEF S!Calls
  <2>4. a \in Nat /\ b \in Nat /\ a <= xm - xl + 1 /\ b <= xr - xm
    BY <2>1
  <2>5. a <= SortCells /\ b <= SortCells
    <3> HIDE DEF xl, xm, xr, a, b
    <3> QED BY ONLY <1>0, <2>3, <2>4 DEF S!Cells
  <2> QED BY <1>2, <2>2, <2>5 DEF Busy, Output
<1> QED BY <1>1, <1>2

(* What NothingLost says of one value. *)
Kept(v) ==
  CellCount(input, {}, v) = CellCount(arr, S!Superseded, v) + S!Waiting(L, v) + S!Waiting(R, v)

LEMMA NothingLostIsKept == S!NothingLost <=> \A v \in SortValues : Kept(v)
<1>1. ASSUME NEW v
      PROVE  /\ CellCount(input, {}, v) = S!Cardinality({k \in S!Cells : input[k] = v})
             /\ CellCount(arr, S!Superseded, v) = S!Cardinality({k \in S!Cells \ S!Superseded : arr[k] = v})
  <2>1. CellSet(input, {}, v) = {k \in S!Cells : input[k] = v}
    BY DEF CellSet
  <2>2. CellSet(arr, S!Superseded, v) = {k \in S!Cells \ S!Superseded : arr[k] = v}
    BY DEF CellSet
  <2> QED BY <2>1, <2>2, SortCardinality DEF CellCount
<1> QED BY <1>1 DEF Kept, S!NothingLost

LEMMA KeptByChild ==
  ASSUME SortBase, NEW c \in S!Kids, S!CopyHalves(c) \/ S!Store(c), NEW v, Kept(v)
  PROVE  Kept(v)'
<1>0. /\ L \in [S!Kids -> Seq(SortValues)] /\ R \in [S!Kids -> Seq(SortValues)]
      /\ todo \in [S!Kids -> Seq(S!Calls)]
      /\ \A d \in S!Kids : Shape(todo[d], L[d], R[d], First(d), Last(d))
  BY DEF SortBase, S!TypeOK, Shapes
<1>1. /\ L' \in [S!Kids -> Seq(SortValues)] /\ R' \in [S!Kids -> Seq(SortValues)]
      /\ todo' \in [S!Kids -> Seq(S!Calls)] /\ input' = input
      /\ \A d \in S!Kids : d # c => todo'[d] = todo[d] /\ L'[d] = L[d] /\ R'[d] = R[d]
      /\ Shape(todo'[c], L'[c], R'[c], First(c), Last(c))
  BY ChildEffect
<1> DEFINE O == OthersBusy(c)
           B0 == Busy(todo[c], L[c], R[c])
           B1 == Busy(todo'[c], L'[c], R'[c])
<1>2. S!Superseded = O \union B0
  BY BusySuperseded
<1>3. (S!Superseded)' = O \union B1
  <2>2. ASSUME NEW d \in S!Kids
        PROVE  (IF L'[d] = <<>> /\ R'[d] = <<>> THEN {}
                ELSE Head(todo'[d]).r + 1 - Len(L'[d]) - Len(R'[d]) .. Head(todo'[d]).r) = Busy(todo'[d], L'[d], R'[d])
    <3> DEFINE lo == First(d)
               hi == Last(d)
               lt == L'[d]
               rt == R'[d]
               cs == todo'[d]
    <3>1. lt \in Seq(SortValues) /\ rt \in Seq(SortValues) /\ cs \in Seq(S!Calls) /\ Shape(cs, lt, rt, lo, hi)
      BY <1>0, <1>1
    <3> HIDE DEF lo, hi, lt, rt, cs
    <3>2. (IF lt = <<>> /\ rt = <<>> THEN {} ELSE Head(cs).r + 1 - Len(lt) - Len(rt) .. Head(cs).r)
            = Busy(cs, lt, rt)
      BY ONLY <3>1, CopiesFit
    <3> QED BY <3>2 DEF lt, rt, cs
  <2>3. (S!Superseded)' = UNION {Busy(todo'[d], L'[d], R'[d]) : d \in S!Kids}
    BY <2>2 DEF S!Superseded, S!NextCell
  <2>4. UNION {Busy(todo'[d], L'[d], R'[d]) : d \in S!Kids \ {c}} = O
    <3>1. \A d \in S!Kids \ {c} : Busy(todo'[d], L'[d], R'[d]) = Busy(todo[d], L[d], R[d])
      BY <1>1
    <3> QED BY <3>1 DEF OthersBusy
  <2> QED BY <2>3, <2>4
<1>4. Len(L[c]) <= SortCells /\ Len(R[c]) <= SortCells /\ Len(L'[c]) <= SortCells /\ Len(R'[c]) <= SortCells
  <2> DEFINE lo == First(c)
             hi == Last(c)
             cs == todo[c]
             lt == L[c]
             rt == R[c]
             cs2 == todo'[c]
             lt2 == L'[c]
             rt2 == R'[c]
  <2>1. /\ cs \in Seq(S!Calls) /\ lt \in Seq(SortValues) /\ rt \in Seq(SortValues) /\ Shape(cs, lt, rt, lo, hi)
        /\ cs2 \in Seq(S!Calls) /\ lt2 \in Seq(SortValues) /\ rt2 \in Seq(SortValues) /\ Shape(cs2, lt2, rt2, lo, hi)
    BY <1>0, <1>1
  <2> HIDE DEF lo, hi, cs, lt, rt, cs2, lt2, rt2
  <2>2. Len(lt) <= SortCells /\ Len(rt) <= SortCells
    BY ONLY <2>1, CopiesFit
  <2>3. Len(lt2) <= SortCells /\ Len(rt2) <= SortCells
    BY ONLY <2>1, CopiesFit
  <2> QED BY <2>2, <2>3 DEF lt, rt, lt2, rt2
<1>5. Share(arr', O, todo'[c], L'[c], R'[c], v) = Share(arr, O, todo[c], L[c], R[c], v)
  BY CopyShare, StoreShare
<1>6. Others(L', c, v) = Others(L, c, v) /\ Others(R', c, v) = Others(R, c, v)
  <2> DEFINE K == L'
             G == R'
  <2>1. /\ K \in [S!Kids -> Seq(SortValues)] /\ G \in [S!Kids -> Seq(SortValues)]
        /\ \A d \in S!Kids : d # c => K[d] = L[d]
        /\ \A d \in S!Kids : d # c => G[d] = R[d]
    BY <1>1
  <2> HIDE DEF K, G
  <2>2. Others(K, c, v) = Others(L, c, v)
    BY ONLY <1>0, <2>1, c \in S!Kids, SameOthers
  <2>3. Others(G, c, v) = Others(R, c, v)
    BY ONLY <1>0, <2>1, c \in S!Kids, SameOthers
  <2> QED BY <2>2, <2>3 DEF K, G
<1>7. ASSUME NEW K \in {L, R, L', R'}
      PROVE  /\ S!Waiting(K, v) = Others(K, c, v) + Occurs(K[c], v)
             /\ Others(K, c, v) \in Nat /\ Occurs(K[c], v) \in Nat
  <2>1. K \in [S!Kids -> Seq(SortValues)] /\ Len(K[c]) <= SortCells
    BY <1>0, <1>1, <1>4
  <2>2. K[c] \in Seq(SortValues)
    BY <2>1
  <2>3. Occurs(K[c], v) \in Nat
    BY ONLY <2>2, OccursNumber
  <2>4. S!Waiting(K, v) = Others(K, c, v) + Occurs(K[c], v) /\ Others(K, c, v) \in Nat
    BY ONLY <2>1, c \in S!Kids, WaitingSplit
  <2> QED BY <2>3, <2>4
<1>8. CellCount(arr, S!Superseded, v) \in Nat /\ CellCount(arr', (S!Superseded)', v) \in Nat
  BY CellsFinite
<1>9. CellCount(input, {}, v) = CellCount(arr', (S!Superseded)', v) + S!Waiting(L', v) + S!Waiting(R', v)
  <2> DEFINE n0 == CellCount(arr, S!Superseded, v)
             n1 == CellCount(arr', (S!Superseded)', v)
             l0 == Occurs(L[c], v)
             r0 == Occurs(R[c], v)
             l1 == Occurs(L'[c], v)
             r1 == Occurs(R'[c], v)
             ol == Others(L, c, v)
             oR == Others(R, c, v)
  <2>1. n0 + l0 + r0 = n1 + l1 + r1
    BY <1>2, <1>3, <1>5 DEF Share
  <2>2. n0 \in Nat /\ n1 \in Nat /\ l0 \in Nat /\ r0 \in Nat /\ l1 \in Nat /\ r1 \in Nat /\ ol \in Nat /\ oR \in Nat
    BY <1>7, <1>8
  <2>3. S!Waiting(L, v) = ol + l0 /\ S!Waiting(R, v) = oR + r0
    BY <1>7
  <2>4. S!Waiting(L', v) = ol + l1 /\ S!Waiting(R', v) = oR + r1
    BY <1>6, <1>7
  <2>5. CellCount(input, {}, v) = n0 + S!Waiting(L, v) + S!Waiting(R, v)
    BY DEF Kept
  <2> HIDE DEF n0, n1, l0, r0, l1, r1, ol, oR
  <2>6. CellCount(input, {}, v) = n1 + S!Waiting(L', v) + S!Waiting(R', v)
    BY ONLY <2>1, <2>2, <2>3, <2>4, <2>5
  <2> QED BY <2>6 DEF n1
<1> QED BY <1>1, <1>9 DEF Kept

LEMMA KeptByParent ==
  ASSUME SortBase, S!parent, NEW v, Kept(v)
  PROVE  Kept(v)'
<1>1. arr' = arr /\ L' = L /\ R' = R /\ input' = input
  BY DEF S!parent, S!ForkSort, S!WaitSort, S!ForkMerge, S!WaitMerge, S!Fork, S!kids, S!pids
<1>2. ASSUME NEW d \in S!Kids, ~(L[d] = <<>> /\ R[d] = <<>>) PROVE todo'[d] = todo[d]
  <2>1. todo[d] # <<>>
    BY <1>2 DEF SortBase, Shapes, Shape
  <2>2. main \in {"fork_sort", "fork_merge"} => d # i
    BY <2>1 DEF SortBase, S!TypeOK, RoundInv, Idling, S!Kids
  <2>3. \/ todo' = todo
        \/ main \in {"fork_sort", "fork_merge"} /\ \E calls : todo' = [todo EXCEPT ![i] = calls]
    BY DEF S!parent, S!ForkSort, S!WaitSort, S!ForkMerge, S!WaitMerge, S!Fork, S!kids, S!pids, S!LoopPass
  <2> QED BY <2>2, <2>3 DEF SortBase, S!TypeOK
<1>3. (S!Superseded)' = S!Superseded
  BY <1>1, <1>2 DEF S!Superseded, S!NextCell
<1> QED BY <1>1, <1>3 DEF Kept

LEMMA KeptAtFirst == ASSUME S!Init, NEW v PROVE Kept(v)
<1>1. S!Superseded = {}
  BY DEF S!Init, S!Superseded
<1>2. S!Waiting(L, v) = 0 /\ S!Waiting(R, v) = 0
  <2>1. {ck \in S!Kids \X (1 .. SortCells) : ck[2] \in DOMAIN L[ck[1]] /\ L[ck[1]][ck[2]] = v} = {}
    BY DEF S!Init
  <2>2. {ck \in S!Kids \X (1 .. SortCells) : ck[2] \in DOMAIN R[ck[1]] /\ R[ck[1]][ck[2]] = v} = {}
    BY DEF S!Init
  <2> QED BY <2>1, <2>2, SortCardinality, FS_EmptySet DEF S!Waiting
<1>3. CellCount(input, {}, v) \in Nat /\ arr = input
  BY CellsFinite DEF S!Init
<1> QED BY <1>1, <1>2, <1>3 DEF Kept

(* No value is lost or doubled: an inductive invariant with SortBase. *)
LEMMA NothingLostStep == ASSUME SortBase, S!NothingLost, S!Next PROVE (S!NothingLost)'
<1>1. ASSUME NEW v \in SortValues PROVE Kept(v)'
  <2>1. Kept(v)
    BY NothingLostIsKept
  <2> QED BY <2>1, KeptByChild, KeptByParent DEF S!Next, S!child
<1>2. (S!NothingLost)' <=> \A v \in SortValues : Kept(v)'
  <2>1. ASSUME NEW v
        PROVE  /\ CellCount(input', {}, v) = S!Cardinality({k \in S!Cells : input'[k] = v})
               /\ CellCount(arr', (S!Superseded)', v) = S!Cardinality({k \in S!Cells \ (S!Superseded)' : arr'[k] = v})
    <3>1. CellSet(input', {}, v) = {k \in S!Cells : input'[k] = v}
      BY DEF CellSet
    <3>2. CellSet(arr', (S!Superseded)', v) = {k \in S!Cells \ (S!Superseded)' : arr'[k] = v}
      BY DEF CellSet
    <3> QED BY <3>1, <3>2, SortCardinality DEF CellCount
  <2> QED BY <2>1 DEF Kept, S!NothingLost
<1> QED BY <1>1, <1>2

LEMMA NothingLostInit == ASSUME S!Init PROVE S!NothingLost
  BY KeptAtFirst, NothingLostIsKept

-----------------------------------------------------------------------------
(***************************************************************************)
(* Blocks get sorted.                                                      *)
(***************************************************************************)
(* In a part that is in order, later values are not smaller. *)
LEMMA InOrderFar ==
  ASSUME NEW a, NEW x \in Int, NEW y \in Int, InOrder(a, x, y), \A k \in x .. y : a[k] \in Int,
         NEW j \in x .. y, NEW k \in x .. y, j <= k
  PROVE  a[j] <= a[k]
<1> DEFINE bad == {d \in Nat : j + d <= y /\ ~(a[j] <= a[j + d])}
<1>1. bad = {}
  <2>1. SUFFICES ASSUME bad # {} PROVE FALSE
    OBVIOUS
  <2>2. bad \subseteq Nat
    OBVIOUS
  <2>3. PICK d \in bad : \A e \in bad : d <= e
    <3> HIDE DEF bad
    <3> QED BY <2>1, <2>2, SmallestOf
  <2>4. d \in Nat /\ j + d <= y /\ ~(a[j] <= a[j + d])
    OBVIOUS
  <2>5. d # 0
    BY <2>4
  <2>6. d - 1 \in Nat /\ j + (d - 1) <= y /\ d - 1 \notin bad
    BY <2>3, <2>4, <2>5
  <2>7. a[j] <= a[j + (d - 1)]
    BY <2>6
  <2>8. j + (d - 1) \in x .. y - 1 /\ (j + (d - 1)) + 1 = j + d
    BY <2>4, <2>5
  <2>9. a[j + (d - 1)] <= a[j + d]
    BY <2>8 DEF InOrder
  <2>10. j + (d - 1) \in x .. y /\ j + d \in x .. y
    BY <2>4, <2>5
  <2> QED BY <2>4, <2>7, <2>9, <2>10
<1>2. \A d \in Nat : j + d <= y => a[j] <= a[j + d]
  BY <1>1
<1>3. k - j \in Nat /\ j + (k - j) = k /\ k <= y
  OBVIOUS
<1> QED BY ONLY <1>2, <1>3

(* Cells that keep their values stay in order. *)
LEMMA OrderKept ==
  ASSUME NEW a, NEW a2, NEW x \in Int, NEW y \in Int, \A k \in x .. y : a2[k] = a[k], InOrder(a, x, y)
  PROVE  InOrder(a2, x, y)
<1>1. ASSUME NEW k \in x .. y - 1 PROVE a2[k] <= a2[k + 1]
  <2>1. k \in x .. y /\ k + 1 \in x .. y
    OBVIOUS
  <2> QED BY <2>1 DEF InOrder
<1> QED BY <1>1 DEF InOrder

LEMMA PartInOrder ==
  ASSUME NEW a, NEW x \in Int, NEW y \in Int, InOrder(a, x, y), NEW x2 \in Int, NEW y2 \in Int, x <= x2, y2 <= y
  PROVE  InOrder(a, x2, y2)
  BY DEF InOrder

LEMMA WillStay ==
  ASSUME NEW a, NEW a2, NEW cs, NEW k, NEW x \in Int, NEW y \in Int, \A n \in x .. y : a2[n] = a[n],
         WillBeInOrder(a, cs, k, x, y)
  PROVE  WillBeInOrder(a2, cs, k, x, y)
<1>1. InOrder(a, x, y) => InOrder(a2, x, y)
  BY OrderKept
<1> QED BY <1>1 DEF WillBeInOrder

(* The bounds of the calls, as numbers. *)
LEMMA ShapeNumbers ==
  ASSUME NEW cs \in Seq(S!Calls), NEW lt, NEW rt, NEW lo, NEW hi, Shape(cs, lt, rt, lo, hi)
  PROVE  \A k \in DOMAIN cs : /\ cs[k].l \in Int /\ cs[k].m \in Int /\ cs[k].r \in Int
                              /\ lo <= cs[k].l /\ cs[k].l <= cs[k].m /\ cs[k].m < cs[k].r /\ cs[k].r <= hi
<1>1. \A k \in DOMAIN cs : cs[k] \in S!Calls
  OBVIOUS
<1> QED BY <1>1, CallNumbers DEF Shape

(* Another child's stores do not matter to a child. *)
LEMMA SortsFrame ==
  ASSUME NEW cs \in Seq(S!Calls), NEW lt \in Seq(SortValues), NEW rt \in Seq(SortValues),
         NEW lo \in Int, NEW hi \in Int, Shape(cs, lt, rt, lo, hi),
         NEW a, NEW a2, \A n \in lo .. hi : a2[n] = a[n], Sorts(a, cs, lt, rt, lo, hi)
  PROVE  Sorts(a2, cs, lt, rt, lo, hi)
<1>1. \A k \in DOMAIN cs : /\ cs[k].l \in Int /\ cs[k].m \in Int /\ cs[k].r \in Int
                           /\ lo <= cs[k].l /\ cs[k].l <= cs[k].m /\ cs[k].m < cs[k].r /\ cs[k].r <= hi
  BY ShapeNumbers
<1>2. ASSUME NEW k \in DOMAIN cs, k > 1 \/ (lt = <<>> /\ rt = <<>>)
      PROVE  WillBeInOrder(a2, cs, k, cs[k].l, cs[k].m) /\ WillBeInOrder(a2, cs, k, cs[k].m + 1, cs[k].r)
  <2> DEFINE xl == cs[k].l
             xm == cs[k].m
             xr == cs[k].r
  <2>1. xl \in Int /\ xm \in Int /\ xm + 1 \in Int /\ xr \in Int /\ lo <= xl /\ xl <= xm /\ xm < xr /\ xr <= hi
    BY <1>1
  <2>2. WillBeInOrder(a, cs, k, xl, xm) /\ WillBeInOrder(a, cs, k, xm + 1, xr)
    BY <1>2 DEF Sorts
  <2> HIDE DEF xl, xm, xr
  <2>3. (\A n \in xl .. xm : a2[n] = a[n]) /\ (\A n \in xm + 1 .. xr : a2[n] = a[n])
    <3>1. \A n \in xl .. xm : n \in lo .. hi
      BY ONLY <2>1, lo \in Int, hi \in Int
    <3>2. \A n \in xm + 1 .. xr : n \in lo .. hi
      BY ONLY <2>1, lo \in Int, hi \in Int
    <3> QED BY <3>1, <3>2
  <2>4. WillBeInOrder(a2, cs, k, xl, xm)
    BY ONLY <2>1, <2>2, <2>3, WillStay
  <2>5. WillBeInOrder(a2, cs, k, xm + 1, xr)
    BY ONLY <2>1, <2>2, <2>3, WillStay
  <2> QED BY <2>4, <2>5 DEF xl, xm, xr
<1>3. WillBeInOrder(a2, cs, Len(cs) + 1, lo, hi)
  <2> DEFINE k == Len(cs) + 1
  <2>1. WillBeInOrder(a, cs, k, lo, hi)
    BY DEF Sorts
  <2> HIDE DEF k
  <2>2. WillBeInOrder(a2, cs, k, lo, hi)
    BY ONLY <2>1, lo \in Int, hi \in Int, \A n \in lo .. hi : a2[n] = a[n], WillStay
  <2> QED BY <2>2 DEF k
<1>4. Merges(a2, cs, lt, rt)
  <2>1. CASE lt = <<>> /\ rt = <<>>
    BY <2>1 DEF Sorts, Merges
  <2>2. CASE ~(lt = <<>> /\ rt = <<>>)
    <3>1. cs # <<>> /\ 1 \in DOMAIN cs
      BY <2>2 DEF Shape
    <3> DEFINE xl == cs[1].l
               o == Output(cs, lt, rt) - 1
    <3>2. xl \in Int /\ o \in Int /\ lo <= xl /\ o <= hi
      <4>1. Len(lt) \in Nat /\ Len(rt) \in Nat /\ cs[1].r \in Int /\ cs[1].r <= hi
        BY <1>1, <3>1
      <4>2. Output(cs, lt, rt) = cs[1].r + 1 - Len(lt) - Len(rt)
        BY DEF Output
      <4> QED BY <1>1, <3>1, <4>1, <4>2
    <3>3. InOrder(a, xl, o) /\ \A k \in xl .. o : /\ \A j \in DOMAIN lt : a[k] <= lt[j]
                                                  /\ \A j \in DOMAIN rt : a[k] <= rt[j]
      BY <2>2 DEF Sorts, Merges
    <3> HIDE DEF xl, o
    <3>4. \A n \in xl .. o : a2[n] = a[n]
      BY <3>2
    <3>5. InOrder(a2, xl, o)
      BY ONLY <3>2, <3>3, <3>4, OrderKept
    <3>6. \A k \in xl .. o : (\A j \in DOMAIN lt : a2[k] <= lt[j]) /\ (\A j \in DOMAIN rt : a2[k] <= rt[j])
      BY <3>3, <3>4
    <3> QED BY <3>5, <3>6 DEF Sorts, Merges, xl, o
  <2> QED BY <2>1, <2>2
<1>5. Nested(cs)
  BY DEF Sorts
<1> QED BY <1>2, <1>3, <1>4, <1>5 DEF Sorts

(* The first value of what is in order is its least. *)
LEMMA FirstIsLeast ==
  ASSUME NEW s \in Seq(SortValues), InOrder(s, 1, Len(s))
  PROVE  /\ \A j \in DOMAIN s : s[j] \in Int /\ s[1] <= s[j]
         /\ s # <<>> => /\ InOrder(Tail(s), 1, Len(Tail(s))) /\ Head(s) = s[1] /\ 1 \in DOMAIN s
                        /\ \A j \in DOMAIN Tail(s) : j + 1 \in DOMAIN s /\ Tail(s)[j] = s[j + 1]
<1>0. Len(s) \in Nat /\ DOMAIN s = 1 .. Len(s) /\ \A j \in DOMAIN s : s[j] \in Int
  <2>1. Len(s) \in Nat /\ DOMAIN s = 1 .. Len(s) /\ \A j \in DOMAIN s : s[j] \in SortValues
    OBVIOUS
  <2> QED BY <2>1, SortConstants
<1>1. ASSUME NEW j \in DOMAIN s PROVE s[1] <= s[j]
  <2> DEFINE n == Len(s)
  <2>1. n \in Int /\ 1 \in Int /\ InOrder(s, 1, n) /\ (\A k \in 1 .. n : s[k] \in Int) /\ 1 \in 1 .. n /\ j \in 1 .. n /\ 1 <= j
    BY <1>0
  <2> HIDE DEF n
  <2> QED BY ONLY <2>1, InOrderFar
<1>2. ASSUME s # <<>>
      PROVE  /\ InOrder(Tail(s), 1, Len(Tail(s))) /\ Head(s) = s[1] /\ 1 \in DOMAIN s
             /\ \A j \in DOMAIN Tail(s) : j + 1 \in DOMAIN s /\ Tail(s)[j] = s[j + 1]
  <2>1. /\ Head(s) = s[1] /\ 1 \in DOMAIN s /\ DOMAIN Tail(s) = 1 .. Len(s) - 1 /\ Len(Tail(s)) = Len(s) - 1
        /\ \A j \in 1 .. Len(s) - 1 : Tail(s)[j] = s[j + 1]
    BY <1>0, <1>2
  <2>2. \A j \in 1 .. Len(s) - 1 : j + 1 \in DOMAIN s
    BY <1>0
  <2>3. ASSUME NEW j \in 1 .. Len(Tail(s)) - 1 PROVE Tail(s)[j] <= Tail(s)[j + 1]
    <3>1. j \in 1 .. Len(s) - 1 /\ j + 1 \in 1 .. Len(s) - 1
      BY <1>0, <2>1
    <3>2. Tail(s)[j] = s[j + 1] /\ Tail(s)[j + 1] = s[(j + 1) + 1]
      BY <2>1, <3>1
    <3>3. s[j + 1] <= s[(j + 1) + 1]
      BY <3>1 DEF InOrder
    <3> QED BY <3>2, <3>3
  <2> QED BY <2>1, <2>2, <2>3 DEF InOrder
<1> QED BY <1>0, <1>1, <1>2

(* A pass of one of merge()'s loops takes the least of the values left. *)
TakesLeast(lt, rt, lt2, rt2, w) ==
  \/ lt # <<>> /\ (rt # <<>> => lt[1] <= rt[1]) /\ w = lt[1] /\ lt2 = Tail(lt) /\ rt2 = rt
  \/ rt # <<>> /\ (lt # <<>> => rt[1] <= lt[1]) /\ w = rt[1] /\ lt2 = lt /\ rt2 = Tail(rt)

LEMMA LeastTaken ==
  ASSUME NEW lt \in Seq(SortValues), NEW rt \in Seq(SortValues), NEW lt2, NEW rt2, NEW w,
         TakesLeast(lt, rt, lt2, rt2, w), InOrder(lt, 1, Len(lt)), InOrder(rt, 1, Len(rt))
  PROVE  /\ InOrder(lt2, 1, Len(lt2)) /\ InOrder(rt2, 1, Len(rt2))
         /\ \A j \in DOMAIN lt2 : \E n \in DOMAIN lt : lt2[j] = lt[n]
         /\ \A j \in DOMAIN rt2 : \E n \in DOMAIN rt : rt2[j] = rt[n]
         /\ w \in Int /\ \A j \in DOMAIN lt : w <= lt[j]
         /\ \A j \in DOMAIN rt : w <= rt[j]
         /\ (\E n \in DOMAIN lt : w = lt[n]) \/ (\E n \in DOMAIN rt : w = rt[n])
<1>1. /\ \A j \in DOMAIN lt : lt[j] \in Int /\ lt[1] <= lt[j]
      /\ lt # <<>> => /\ InOrder(Tail(lt), 1, Len(Tail(lt))) /\ 1 \in DOMAIN lt
                      /\ \A j \in DOMAIN Tail(lt) : j + 1 \in DOMAIN lt /\ Tail(lt)[j] = lt[j + 1]
  BY FirstIsLeast
<1>2. /\ \A j \in DOMAIN rt : rt[j] \in Int /\ rt[1] <= rt[j]
      /\ rt # <<>> => /\ InOrder(Tail(rt), 1, Len(Tail(rt))) /\ 1 \in DOMAIN rt
                      /\ \A j \in DOMAIN Tail(rt) : j + 1 \in DOMAIN rt /\ Tail(rt)[j] = rt[j + 1]
  BY FirstIsLeast
<1>3. (\A j \in DOMAIN lt : lt # <<>>) /\ (\A j \in DOMAIN rt : rt # <<>>)
  OBVIOUS
<1>4. CASE lt # <<>> /\ (rt # <<>> => lt[1] <= rt[1]) /\ w = lt[1] /\ lt2 = Tail(lt) /\ rt2 = rt
  <2>1. w \in Int /\ \A j \in DOMAIN lt : w <= lt[j]
    BY <1>1, <1>4
  <2>2. \A j \in DOMAIN rt : w <= rt[j]
    <3> SUFFICES ASSUME NEW j \in DOMAIN rt PROVE w <= rt[j]
      OBVIOUS
    <3>1. rt # <<>> /\ 1 \in DOMAIN rt /\ rt[1] <= rt[j] /\ rt[1] \in Int /\ rt[j] \in Int
      BY <1>2, <1>3
    <3>2. w <= rt[1]
      BY <1>4, <3>1
    <3> QED BY ONLY <2>1, <3>1, <3>2
  <2> QED BY <1>1, <1>4, <2>1, <2>2
<1>5. CASE rt # <<>> /\ (lt # <<>> => rt[1] <= lt[1]) /\ w = rt[1] /\ lt2 = lt /\ rt2 = Tail(rt)
  <2>1. w \in Int /\ \A j \in DOMAIN rt : w <= rt[j]
    BY <1>2, <1>5
  <2>2. \A j \in DOMAIN lt : w <= lt[j]
    <3> SUFFICES ASSUME NEW j \in DOMAIN lt PROVE w <= lt[j]
      OBVIOUS
    <3>1. lt # <<>> /\ 1 \in DOMAIN lt /\ lt[1] <= lt[j] /\ lt[1] \in Int /\ lt[j] \in Int
      BY <1>1, <1>3
    <3>2. w <= lt[1]
      BY <1>5, <3>1
    <3> QED BY ONLY <2>1, <3>1, <3>2
  <2> QED BY <1>2, <1>5, <2>1, <2>2
<1> QED BY <1>4, <1>5 DEF TakesLeast

(* It goes to the end of what is in order already. *)
LEMMA StoreInOrder ==
  ASSUME NEW a \in [S!Cells -> SortValues], NEW lt \in Seq(SortValues), NEW rt \in Seq(SortValues),
         InOrder(lt, 1, Len(lt)), InOrder(rt, 1, Len(rt)),
         NEW l \in S!Cells, NEW o \in S!Cells, l <= o, InOrder(a, l, o - 1),
         \A k \in l .. o - 1 : \A j \in DOMAIN lt : a[k] <= lt[j],
         \A k \in l .. o - 1 : \A j \in DOMAIN rt : a[k] <= rt[j],
         NEW lt2, NEW rt2, NEW w, TakesLeast(lt, rt, lt2, rt2, w), NEW a2, a2 = Put(a, o, w)
  PROVE  /\ InOrder(a2, l, o) /\ InOrder(lt2, 1, Len(lt2)) /\ InOrder(rt2, 1, Len(rt2))
         /\ \A k \in l .. o : \A j \in DOMAIN lt2 : a2[k] <= lt2[j]
         /\ \A k \in l .. o : \A j \in DOMAIN rt2 : a2[k] <= rt2[j]
<1>0. l \in Int /\ o \in Int
  BY SortConstants DEF S!Cells
<1>1. /\ InOrder(lt2, 1, Len(lt2)) /\ InOrder(rt2, 1, Len(rt2))
      /\ \A j \in DOMAIN lt2 : \E n \in DOMAIN lt : lt2[j] = lt[n]
      /\ \A j \in DOMAIN rt2 : \E n \in DOMAIN rt : rt2[j] = rt[n]
      /\ w \in Int /\ \A j \in DOMAIN lt : w <= lt[j]
      /\ \A j \in DOMAIN rt : w <= rt[j]
      /\ (\E n \in DOMAIN lt : w = lt[n]) \/ (\E n \in DOMAIN rt : w = rt[n])
  BY LeastTaken
<1>2. \A k \in l .. o - 1 : k \in l .. o /\ k # o /\ a2[k] = a[k] /\ a[k] <= w
  <2> SUFFICES ASSUME NEW k \in l .. o - 1 PROVE k \in l .. o /\ k # o /\ a2[k] = a[k] /\ a[k] <= w
    OBVIOUS
  <2>1. k \in S!Cells /\ k # o /\ k \in l .. o
    <3>1. 0 <= l /\ o <= SortCells - 1 /\ SortCells \in Int /\ k \in Int /\ l <= k /\ k <= o - 1
      BY SortConstants, <1>0 DEF S!Cells
    <3> QED BY ONLY <1>0, <3>1 DEF S!Cells
  <2>2. a2[k] = a[k]
    BY <2>1 DEF Put
  <2>3. a[k] <= w
    BY <1>1
  <2> QED BY <2>1, <2>2, <2>3
<1>3. a2[o] = w
  BY DEF Put
<1>4. \A k \in l .. o : k = o \/ k \in l .. o - 1
  BY <1>0
<1>5. InOrder(a2, l, o)
  <2> SUFFICES ASSUME NEW k \in l .. o - 1 PROVE a2[k] <= a2[k + 1]
    BY DEF InOrder
  <2>1. CASE k + 1 = o
    BY <1>2, <1>3, <2>1
  <2>2. CASE k + 1 # o
    <3>1. k \in l .. (o - 1) - 1 /\ k + 1 \in l .. o - 1
      BY <1>0, <2>2
    <3>2. a[k] <= a[k + 1]
      BY <3>1 DEF InOrder
    <3> QED BY <1>2, <3>1, <3>2
  <2> QED BY <2>1, <2>2
<1>6. \A k \in l .. o : \A j \in DOMAIN lt2 : a2[k] <= lt2[j]
  BY <1>1, <1>2, <1>3, <1>4
<1>7. \A k \in l .. o : \A j \in DOMAIN rt2 : a2[k] <= rt2[j]
  BY <1>1, <1>2, <1>3, <1>4
<1> QED BY <1>1, <1>5, <1>6, <1>7

(* A call that is done has made its part. *)
LEMMA CallDone ==
  ASSUME NEW cs \in Seq(S!Calls), cs # <<>>, NEW lo \in Int, NEW hi \in Int, NEW lt, NEW rt,
         Shape(cs, lt, rt, lo, hi), Nested(cs), NEW a, NEW a2, NEW o,
         o \in cs[1].l .. cs[1].r, InOrder(a2, cs[1].l, cs[1].r), \A k : k # o => a2[k] = a[k],
         NEW k \in Nat, 1 < k, k <= Len(cs) + 1, NEW x \in Int, NEW y \in Int,
         (x = lo /\ y = hi) \/ (k \in DOMAIN cs /\ x = cs[k].l /\ y = cs[k].m)
                            \/ (k \in DOMAIN cs /\ x = cs[k].m + 1 /\ y = cs[k].r),
         WillBeInOrder(a, cs, k, x, y)
  PROVE  WillBeInOrder(a2, Tail(cs), k - 1, x, y)
<1>0. /\ Len(cs) \in Nat /\ DOMAIN cs = 1 .. Len(cs) /\ DOMAIN Tail(cs) = 1 .. Len(cs) - 1 /\ 1 \in DOMAIN cs
      /\ \A j \in 1 .. Len(cs) - 1 : Tail(cs)[j] = cs[j + 1]
  OBVIOUS
<1>1. \A j \in DOMAIN cs : /\ cs[j].l \in Int /\ cs[j].m \in Int /\ cs[j].r \in Int
                           /\ lo <= cs[j].l /\ cs[j].l <= cs[j].m /\ cs[j].m < cs[j].r /\ cs[j].r <= hi
  BY ShapeNumbers
<1>2. \A j \in 1 .. (k - 1) - 1 : j + 1 \in 1 .. k - 1 /\ j + 1 \in DOMAIN cs /\ Tail(cs)[j] = cs[j + 1] /\ 1 \in 1 .. (j + 1) - 1
  BY <1>0
<1>3. CASE InOrder(a, x, y) /\ \A j \in 1 .. k - 1 : cs[j].r < x \/ y < cs[j].l
  <2>1. InOrder(a2, x, y)
    <3>1. cs[1].r < x \/ y < cs[1].l
      BY <1>3
    <3>2. \A n \in x .. y : n # o
      BY <1>0, <1>1, <3>1
    <3>3. \A n \in x .. y : a2[n] = a[n]
      BY <3>2
    <3>4. InOrder(a, x, y)
      BY <1>3
    <3> QED BY ONLY <3>3, <3>4, x \in Int, y \in Int, OrderKept
  <2>2. \A j \in 1 .. (k - 1) - 1 : Tail(cs)[j].r < x \/ y < Tail(cs)[j].l
    BY <1>2, <1>3
  <2> QED BY <2>1, <2>2 DEF WillBeInOrder
<1>4. CASE \E j \in 1 .. k - 1 : j # 1 /\ cs[j].l = x /\ cs[j].r = y
  <2>1. PICK j \in 1 .. k - 1 : j # 1 /\ cs[j].l = x /\ cs[j].r = y
    BY <1>4
  <2>2. j - 1 \in 1 .. (k - 1) - 1 /\ (j - 1) + 1 = j
    BY <2>1
  <2>3. Tail(cs)[j - 1].l = x /\ Tail(cs)[j - 1].r = y
    BY <1>2, <2>1, <2>2
  <2> QED BY <2>2, <2>3 DEF WillBeInOrder
<1>5. CASE cs[1].l = x /\ cs[1].r = y
  <2>1. InOrder(a2, x, y)
    BY <1>5
  <2>2. ASSUME NEW j \in 1 .. (k - 1) - 1 PROVE Tail(cs)[j].r < x \/ y < Tail(cs)[j].l
    <3> DEFINE n == j + 1
               nl == cs[n].l
               nm == cs[n].m
               nr == cs[n].r
    <3>1. n \in 1 .. k - 1 /\ n \in DOMAIN cs /\ Tail(cs)[j] = cs[n] /\ 1 \in 1 .. n - 1
      BY <1>2
    <3>2. nl \in Int /\ nm \in Int /\ nr \in Int /\ lo <= nl /\ nl <= nm /\ nm < nr /\ nr <= hi
      BY <1>1, <3>1
    <3>3. \/ y < nl \/ nr < x
          \/ nl <= x /\ y <= nm
          \/ nm + 1 <= x /\ y <= nr
      BY <1>5, <3>1 DEF Nested
    <3>4. ~(nl <= x /\ y <= nm) /\ ~(nm + 1 <= x /\ y <= nr)
      <4> SUFFICES ASSUME (nl <= x /\ y <= nm) \/ (nm + 1 <= x /\ y <= nr) PROVE FALSE
        OBVIOUS
      <4>1. x <= y
        BY <1>0, <1>1, <1>5
      <4>2. CASE x = lo /\ y = hi
        <5> HIDE DEF nl, nm, nr
        <5> QED BY ONLY <3>2, <4>1, <4>2, (nl <= x /\ y <= nm) \/ (nm + 1 <= x /\ y <= nr), x \in Int, y \in Int, lo \in Int, hi \in Int
      <4>3. CASE k \in DOMAIN cs /\ ((x = cs[k].l /\ y = cs[k].m) \/ (x = cs[k].m + 1 /\ y = cs[k].r))
        <5> DEFINE kl == cs[k].l
                   km == cs[k].m
                   kr == cs[k].r
        <5>1. \/ nr < kl \/ kr < nl
              \/ kl <= nl /\ nr <= km
              \/ km + 1 <= nl /\ nr <= kr
          BY <3>1, <4>3 DEF Nested
        <5>2. kl \in Int /\ km \in Int /\ kr \in Int /\ kl <= km /\ km < kr
          BY <1>1, <4>3
        <5>3. (x = kl /\ y = km) \/ (x = km + 1 /\ y = kr)
          BY <4>3
        <5> HIDE DEF nl, nm, nr, kl, km, kr
        <5> QED BY ONLY <3>2, <4>1, <5>1, <5>2, <5>3, (nl <= x /\ y <= nm) \/ (nm + 1 <= x /\ y <= nr), x \in Int, y \in Int
      <4> QED BY <4>2, <4>3
    <3> QED BY <3>1, <3>3, <3>4
  <2> QED BY <2>1, <2>2 DEF WillBeInOrder
<1> QED BY <1>3, <1>4, <1>5 DEF WillBeInOrder

(* A store keeps what a child relies on. *)
LEMMA StoreSorts ==
  ASSUME NEW a \in [S!Cells -> SortValues], NEW cs \in Seq(S!Calls),
         NEW lt \in Seq(SortValues), NEW rt \in Seq(SortValues), NEW lo \in Int, NEW hi \in Int,
         Shape(cs, lt, rt, lo, hi), Sorts(a, cs, lt, rt, lo, hi), lt # <<>> \/ rt # <<>>,
         NEW lt2, NEW rt2, NEW w, TakesLeast(lt, rt, lt2, rt2, w), TakesOne(lt, rt, lt2, rt2),
         NEW cs2, cs2 = Remaining(cs, lt, rt), NEW a2, a2 = Put(a, Output(cs, lt, rt), w)
  PROVE  Sorts(a2, cs2, lt2, rt2, lo, hi)
<1> DEFINE o == Output(cs, lt, rt)
           xl == cs[1].l
           xr == cs[1].r
<1>1. /\ cs # <<>> /\ lt2 \in Seq(SortValues) /\ rt2 \in Seq(SortValues) /\ cs2 \in Seq(S!Calls)
      /\ o \in Int /\ xl <= o /\ o <= xr
  <2>1. /\ cs # <<>> /\ lt2 \in Seq(SortValues) /\ rt2 \in Seq(SortValues) /\ cs2 \in Seq(S!Calls)
    BY StoreShape
  <2>2. Output(cs, lt, rt) \in Int /\ cs[1].l <= Output(cs, lt, rt) /\ Output(cs, lt, rt) <= cs[1].r
    BY StoreShape
  <2> QED BY <2>1, <2>2
<1>2. o = xr <=> (lt2 = <<>> /\ rt2 = <<>>)
  BY StoreShape
<1>3. Output(cs, lt2, rt2) = o + 1
  BY StoreShape
<1>4. /\ Len(cs) \in Nat /\ DOMAIN cs = 1 .. Len(cs) /\ 1 \in DOMAIN cs
      /\ cs[1] \in S!Calls
  BY <1>1
<1>5. \A k \in DOMAIN cs : /\ cs[k].l \in Int /\ cs[k].m \in Int /\ cs[k].r \in Int
                           /\ lo <= cs[k].l /\ cs[k].l <= cs[k].m /\ cs[k].m < cs[k].r /\ cs[k].r <= hi
  BY ShapeNumbers
<1>6. xl \in S!Cells /\ xr \in S!Cells /\ xl \in Int /\ xr \in Int /\ o \in S!Cells
  <2>1. xl \in S!Cells /\ xr \in S!Cells
    BY <1>4 DEF S!Calls
  <2> HIDE DEF xl, xr, o
  <2> QED BY <1>1, <2>1, SortConstants DEF S!Cells
<1>7. /\ InOrder(lt, 1, Len(lt)) /\ InOrder(rt, 1, Len(rt)) /\ InOrder(a, xl, o - 1)
      /\ \A k \in xl .. o - 1 : (\A j \in DOMAIN lt : a[k] <= lt[j]) /\ (\A j \in DOMAIN rt : a[k] <= rt[j])
  BY DEF Sorts, Merges
<1>8. Nested(cs)
  BY DEF Sorts
<1>a. /\ \A k \in DOMAIN cs : k > 1 =>
           WillBeInOrder(a, cs, k, cs[k].l, cs[k].m) /\ WillBeInOrder(a, cs, k, cs[k].m + 1, cs[k].r)
      /\ WillBeInOrder(a, cs, Len(cs) + 1, lo, hi)
  BY DEF Sorts
<1>b. a2 = Put(a, o, w) /\ cs2 = IF o = xr THEN Tail(cs) ELSE cs
  BY DEF Remaining
<1>h. HIDE DEF o, xl, xr
<1>9. /\ InOrder(a2, xl, o) /\ InOrder(lt2, 1, Len(lt2)) /\ InOrder(rt2, 1, Len(rt2))
      /\ \A k \in xl .. o : \A j \in DOMAIN lt2 : a2[k] <= lt2[j]
      /\ \A k \in xl .. o : \A j \in DOMAIN rt2 : a2[k] <= rt2[j]
  BY <1>1, <1>6, <1>7, <1>b, StoreInOrder
<1>10. \A k : k # o => a2[k] = a[k]
  BY <1>b DEF Put
<1>11. CASE o = xr
  <2> DEFINE n == Len(cs)
             ts == Tail(cs)
  <2>1. lt2 = <<>> /\ rt2 = <<>> /\ cs2 = ts
    BY <1>2, <1>b, <1>11
  <2>2. Merges(a2, ts, lt2, rt2)
    BY <1>9, <2>1 DEF Merges
  <2>3. n \in Nat /\ DOMAIN ts = 1 .. n - 1 /\ Len(ts) = n - 1 /\ \A j \in 1 .. n - 1 : ts[j] = cs[j + 1]
    BY <1>1
  <2>4. Nested(ts)
    <3> SUFFICES ASSUME NEW k \in 1 .. n - 1, NEW j \in 1 .. k - 1
                 PROVE  \/ ts[j].r < ts[k].l \/ ts[k].r < ts[j].l
                        \/ ts[k].l <= ts[j].l /\ ts[j].r <= ts[k].m
                        \/ ts[k].m + 1 <= ts[j].l /\ ts[j].r <= ts[k].r
      BY <2>3 DEF Nested
    <3>1. k + 1 \in DOMAIN cs /\ j + 1 \in 1 .. (k + 1) - 1 /\ j \in 1 .. n - 1
      BY <1>4, <2>3
    <3>2. ts[k] = cs[k + 1] /\ ts[j] = cs[j + 1]
      BY <2>3, <3>1
    <3> HIDE DEF ts, n
    <3>3. \/ cs[j + 1].r < cs[k + 1].l \/ cs[k + 1].r < cs[j + 1].l
          \/ cs[k + 1].l <= cs[j + 1].l /\ cs[j + 1].r <= cs[k + 1].m
          \/ cs[k + 1].m + 1 <= cs[j + 1].l /\ cs[j + 1].r <= cs[k + 1].r
      BY ONLY <1>8, <3>1 DEF Nested
    <3> QED BY <3>2, <3>3
  <2>5. ASSUME NEW k \in Nat, 1 < k, k <= n + 1, NEW x \in Int, NEW y \in Int,
               (x = lo /\ y = hi) \/ (k \in DOMAIN cs /\ x = cs[k].l /\ y = cs[k].m)
                                  \/ (k \in DOMAIN cs /\ x = cs[k].m + 1 /\ y = cs[k].r),
               WillBeInOrder(a, cs, k, x, y)
        PROVE  WillBeInOrder(a2, ts, k - 1, x, y)
    <3>1. o \in cs[1].l .. cs[1].r /\ InOrder(a2, cs[1].l, cs[1].r)
      BY <1>1, <1>6, <1>9, <1>11 DEF xl, xr
    <3> QED BY <1>1, <1>8, <1>10, <2>5, <3>1, CallDone
  <2>6. ASSUME NEW k \in DOMAIN ts
        PROVE  WillBeInOrder(a2, ts, k, ts[k].l, ts[k].m) /\ WillBeInOrder(a2, ts, k, ts[k].m + 1, ts[k].r)
    <3> DEFINE q == k + 1
    <3>1. q \in Nat /\ 1 < q /\ q <= n + 1 /\ q \in DOMAIN cs /\ q - 1 = k /\ ts[k] = cs[q]
      BY <1>4, <2>3
    <3> HIDE DEF ts, q
    <3>2. WillBeInOrder(a, cs, q, cs[q].l, cs[q].m) /\ WillBeInOrder(a, cs, q, cs[q].m + 1, cs[q].r)
      BY <1>a, <3>1
    <3>3. cs[q].l \in Int /\ cs[q].m \in Int /\ cs[q].m + 1 \in Int /\ cs[q].r \in Int
      BY <1>5, <3>1
    <3>4. WillBeInOrder(a2, ts, q - 1, cs[q].l, cs[q].m)
      BY <2>5, <3>1, <3>2, <3>3
    <3>5. WillBeInOrder(a2, ts, q - 1, cs[q].m + 1, cs[q].r)
      BY <2>5, <3>1, <3>2, <3>3
    <3> QED BY <3>1, <3>4, <3>5
  <2>7. WillBeInOrder(a2, ts, Len(ts) + 1, lo, hi)
    <3> DEFINE q == n + 1
    <3>1. q \in Nat /\ 1 < q /\ q <= n + 1 /\ q - 1 = Len(ts) + 1 /\ WillBeInOrder(a, cs, q, lo, hi)
      BY <1>4, <1>a, <2>3
    <3> HIDE DEF q, ts, n
    <3>2. WillBeInOrder(a2, ts, q - 1, lo, hi)
      BY <2>5, <3>1
    <3> QED BY <3>1, <3>2
  <2> QED BY <2>1, <2>2, <2>4, <2>6, <2>7 DEF Sorts
<1>12. CASE o # xr
  <2>1. ~(lt2 = <<>> /\ rt2 = <<>>) /\ cs2 = cs
    BY <1>2, <1>b, <1>12
  <2>2. Output(cs, lt2, rt2) - 1 = o
    BY <1>1, <1>3
  <2>3. Merges(a2, cs, lt2, rt2)
    <3>1. InOrder(a2, cs[1].l, Output(cs, lt2, rt2) - 1)
      BY <1>9, <2>2 DEF xl
    <3>2. \A k \in cs[1].l .. Output(cs, lt2, rt2) - 1 :
            (\A j \in DOMAIN lt2 : a2[k] <= lt2[j]) /\ (\A j \in DOMAIN rt2 : a2[k] <= rt2[j])
      BY <1>9, <2>2 DEF xl
    <3> QED BY <1>9, <3>1, <3>2 DEF Merges
  <2>4. ASSUME NEW k \in Nat, 1 < k, NEW x \in Int, NEW y \in Int, WillBeInOrder(a, cs, k, x, y)
        PROVE  WillBeInOrder(a2, cs, k, x, y)
    <3>1. CASE \E j \in 1 .. k - 1 : cs[j].l = x /\ cs[j].r = y
      BY <3>1 DEF WillBeInOrder
    <3>2. CASE InOrder(a, x, y) /\ \A j \in 1 .. k - 1 : cs[j].r < x \/ y < cs[j].l
      <4>1. xr < x \/ y < xl
        BY <2>4, <3>2 DEF xl, xr
      <4>2. \A c \in x .. y : c # o
        BY <1>1, <1>6, <4>1
      <4>3. \A c \in x .. y : a2[c] = a[c]
        BY <1>10, <4>2
      <4>4. InOrder(a2, x, y)
        BY <3>2, <4>3, OrderKept
      <4> QED BY <3>2, <4>4 DEF WillBeInOrder
    <3> QED BY <2>4, <3>1, <3>2 DEF WillBeInOrder
  <2>5. ASSUME NEW k \in DOMAIN cs, k > 1
        PROVE  WillBeInOrder(a2, cs, k, cs[k].l, cs[k].m) /\ WillBeInOrder(a2, cs, k, cs[k].m + 1, cs[k].r)
    <3>1. k \in Nat /\ 1 < k /\ cs[k].l \in Int /\ cs[k].m \in Int /\ cs[k].m + 1 \in Int /\ cs[k].r \in Int
      BY <1>4, <1>5, <2>5
    <3>2. WillBeInOrder(a, cs, k, cs[k].l, cs[k].m) /\ WillBeInOrder(a, cs, k, cs[k].m + 1, cs[k].r)
      BY <1>a, <2>5
    <3> QED BY <2>4, <3>1, <3>2
  <2>6. WillBeInOrder(a2, cs, Len(cs) + 1, lo, hi)
    <3>1. Len(cs) + 1 \in Nat /\ 1 < Len(cs) + 1
      BY <1>4
    <3> QED BY <1>a, <2>4, <3>1
  <2> QED BY <1>8, <2>1, <2>3, <2>5, <2>6 DEF Sorts
<1> QED BY <1>11, <1>12

(* So do the copies. *)
LEMMA CopySorts ==
  ASSUME NEW a \in [S!Cells -> SortValues], NEW cs \in Seq(S!Calls), cs # <<>>, NEW lo \in Int, NEW hi \in Int,
         NEW x, x = cs[1], NEW lt, lt = [k \in 1 .. x.m - x.l + 1 |-> a[x.l + k - 1]],
         NEW rt, rt = [k \in 1 .. x.r - x.m |-> a[x.m + k]],
         lt \in Seq(SortValues), rt \in Seq(SortValues), Len(lt) = x.m - x.l + 1, Len(rt) = x.r - x.m,
         Shape(cs, <<>>, <<>>, lo, hi), Sorts(a, cs, <<>>, <<>>, lo, hi)
  PROVE  Sorts(a, cs, lt, rt, lo, hi)
<1>1. 1 \in DOMAIN cs /\ x.l \in Int /\ x.m \in Int /\ x.r \in Int /\ x.l <= x.m /\ x.m < x.r
  BY ShapeNumbers
<1>2. InOrder(a, x.l, x.m) /\ InOrder(a, x.m + 1, x.r)
  BY <1>1 DEF Sorts, WillBeInOrder
<1>3. InOrder(lt, 1, Len(lt))
  <2> SUFFICES ASSUME NEW k \in 1 .. (x.m - x.l + 1) - 1 PROVE lt[k] <= lt[k + 1]
    BY DEF InOrder
  <2>1. k \in 1 .. x.m - x.l + 1 /\ k + 1 \in 1 .. x.m - x.l + 1 /\ x.l + k - 1 \in x.l .. x.m - 1
        /\ (x.l + k - 1) + 1 = x.l + (k + 1) - 1
    <3> DEFINE xl == x.l
               xm == x.m
    <3>1. xl \in Int /\ xm \in Int /\ k \in 1 .. (xm - xl + 1) - 1
      BY <1>1
    <3> HIDE DEF xl, xm
    <3>2. k \in 1 .. xm - xl + 1 /\ k + 1 \in 1 .. xm - xl + 1 /\ xl + k - 1 \in xl .. xm - 1
          /\ (xl + k - 1) + 1 = xl + (k + 1) - 1
      BY ONLY <3>1
    <3> QED BY <3>2 DEF xl, xm
  <2>2. lt[k] = a[x.l + k - 1] /\ lt[k + 1] = a[x.l + (k + 1) - 1]
    BY <2>1
  <2>3. a[x.l + k - 1] <= a[(x.l + k - 1) + 1]
    BY <1>2, <2>1 DEF InOrder
  <2> QED BY <2>1, <2>2, <2>3
<1>4. InOrder(rt, 1, Len(rt))
  <2> SUFFICES ASSUME NEW k \in 1 .. (x.r - x.m) - 1 PROVE rt[k] <= rt[k + 1]
    BY DEF InOrder
  <2>1. k \in 1 .. x.r - x.m /\ k + 1 \in 1 .. x.r - x.m /\ x.m + k \in x.m + 1 .. x.r - 1
        /\ (x.m + k) + 1 = x.m + (k + 1)
    <3> DEFINE xm == x.m
               xr == x.r
    <3>1. xm \in Int /\ xr \in Int /\ k \in 1 .. (xr - xm) - 1
      BY <1>1
    <3> HIDE DEF xm, xr
    <3>2. k \in 1 .. xr - xm /\ k + 1 \in 1 .. xr - xm /\ xm + k \in xm + 1 .. xr - 1
          /\ (xm + k) + 1 = xm + (k + 1)
      BY ONLY <3>1
    <3> QED BY <3>2 DEF xm, xr
  <2>2. rt[k] = a[x.m + k] /\ rt[k + 1] = a[x.m + (k + 1)]
    BY <2>1
  <2>3. a[x.m + k] <= a[(x.m + k) + 1]
    BY <1>2, <2>1 DEF InOrder
  <2> QED BY <2>1, <2>2, <2>3
<1>5. Output(cs, lt, rt) - 1 = x.l - 1
  <2> DEFINE xl == x.l
             xm == x.m
             xr == x.r
  <2>1. Output(cs, lt, rt) = xr + 1 - (xm - xl + 1) - (xr - xm)
    BY DEF Output
  <2>2. xl \in Int /\ xm \in Int /\ xr \in Int
    BY <1>1
  <2> HIDE DEF xl, xm, xr
  <2>3. (xr + 1 - (xm - xl + 1) - (xr - xm)) - 1 = xl - 1
    BY ONLY <2>2
  <2> QED BY <2>1, <2>3 DEF xl
<1>6. Merges(a, cs, lt, rt)
  <2>1. x.l .. x.l - 1 = {} /\ x.l .. (x.l - 1) - 1 = {}
    BY <1>1
  <2> QED BY <1>3, <1>4, <1>5, <2>1 DEF Merges, InOrder
<1> QED BY <1>6 DEF Sorts

(* What mergeSort() was asked to do is done when its calls are. *)
LEMMA CallsSort ==
  ASSUME NEW a, NEW cs, NEW l \in Int, NEW r \in Int, l <= r, CallsRight(cs, l, r)
  PROVE  Sorts(a, cs, <<>>, <<>>, l, r)
<1>1. /\ cs \in Seq(S!Calls) /\ Nested(cs) /\ Len(cs) \in Nat /\ DOMAIN cs = 1 .. Len(cs)
      /\ \A k \in DOMAIN cs : /\ cs[k].l \in Int /\ cs[k].m \in Int /\ cs[k].r \in Int
                              /\ l <= cs[k].l /\ cs[k].l <= cs[k].m /\ cs[k].m < cs[k].r /\ cs[k].r <= r
      /\ \A k \in DOMAIN cs : Made(cs, k, cs[k].l, cs[k].m) /\ Made(cs, k, cs[k].m + 1, cs[k].r)
      /\ Made(cs, Len(cs) + 1, l, r)
  <2>1. cs \in Seq(S!Calls)
    BY DEF CallsRight
  <2>2. \A k \in DOMAIN cs : cs[k] \in S!Calls
    BY <2>1
  <2> QED BY <2>1, <2>2, CallNumbers DEF CallsRight
<1>2. ASSUME NEW k \in Nat, NEW x \in Int, NEW y \in Int, x <= y, Made(cs, k, x, y),
             \A j \in 1 .. k - 1 : cs[j].r < x \/ y < cs[j].l \/ x # y
      PROVE  WillBeInOrder(a, cs, k, x, y)
  <2>1. CASE x >= y
    <3>1. x = y
      BY <1>2, <2>1
    <3> QED BY <1>2, <3>1 DEF WillBeInOrder, InOrder
  <2>2. CASE \E j \in 1 .. k - 1 : cs[j].l = x /\ cs[j].r = y
    BY <2>2 DEF WillBeInOrder
  <2> QED BY <1>2, <2>1, <2>2 DEF Made
<1>3. ASSUME NEW k \in DOMAIN cs
      PROVE  WillBeInOrder(a, cs, k, cs[k].l, cs[k].m) /\ WillBeInOrder(a, cs, k, cs[k].m + 1, cs[k].r)
  <2> DEFINE kl == cs[k].l
             km == cs[k].m
             kr == cs[k].r
  <2>1. k \in Nat /\ kl \in Int /\ km \in Int /\ kr \in Int /\ km + 1 \in Int /\ kl <= km /\ km < kr
        /\ Made(cs, k, kl, km) /\ Made(cs, k, km + 1, kr)
    BY <1>1
  <2>2. ASSUME NEW j \in 1 .. k - 1
        PROVE  (cs[j].r < kl \/ km < cs[j].l \/ kl # km) /\ (cs[j].r < km + 1 \/ kr < cs[j].l \/ km + 1 # kr)
    <3> DEFINE jl == cs[j].l
               jr == cs[j].r
    <3>1. jl \in Int /\ jr \in Int /\ jl < jr
      <4>1. j \in DOMAIN cs
        BY <1>1
      <4>2. jl \in Int /\ cs[j].m \in Int /\ jr \in Int /\ jl <= cs[j].m /\ cs[j].m < jr
        BY <1>1, <4>1
      <4> QED BY <4>2
    <3>2. jr < kl \/ kr < jl \/ (kl <= jl /\ jr <= km) \/ (km + 1 <= jl /\ jr <= kr)
      BY <1>1 DEF Nested
    <3> HIDE DEF kl, km, kr, jl, jr
    <3>3. (jr < kl \/ km < jl \/ kl # km) /\ (jr < km + 1 \/ kr < jl \/ km + 1 # kr)
      BY ONLY <2>1, <3>1, <3>2
    <3> QED BY <3>3 DEF jl, jr
  <2> HIDE DEF kl, km, kr
  <2>3. WillBeInOrder(a, cs, k, kl, km)
    BY <1>2, <2>1, <2>2
  <2>4. km + 1 <= kr
    BY <2>1
  <2>5. WillBeInOrder(a, cs, k, km + 1, kr)
    BY <1>2, <2>1, <2>2, <2>4
  <2> QED BY <2>3, <2>5 DEF kl, km, kr
<1>4. WillBeInOrder(a, cs, Len(cs) + 1, l, r)
  <2> DEFINE k == Len(cs) + 1
  <2>1. k \in Nat /\ k - 1 = Len(cs) /\ Made(cs, k, l, r)
    BY <1>1
  <2>2. \A j \in 1 .. k - 1 : l # r
    <3> SUFFICES ASSUME NEW j \in 1 .. k - 1 PROVE l # r
      OBVIOUS
    <3>1. j \in DOMAIN cs
      BY <1>1
    <3> QED BY <1>1, <3>1
  <2> HIDE DEF k
  <2>3. WillBeInOrder(a, cs, k, l, r)
    BY <1>2, <2>1, <2>2
  <2> QED BY <2>3 DEF k
<1>5. Merges(a, cs, <<>>, <<>>)
  BY DEF Merges, InOrder
<1> QED BY <1>1, <1>3, <1>4, <1>5 DEF Sorts

(* What a pass of merge() does to the array and to the copies. *)
LEMMA StoreEffect ==
  ASSUME SortBase, NEW c \in S!Kids, S!Store(c)
  PROVE  \E w : /\ TakesLeast(L[c], R[c], L'[c], R'[c], w) /\ TakesOne(L[c], R[c], L'[c], R'[c])
                /\ arr' = Put(arr, Output(todo[c], L[c], R[c]), w)
                /\ todo'[c] = Remaining(todo[c], L[c], R[c])
<1> DEFINE o == Output(todo[c], L[c], R[c])
<1>0. /\ L \in [S!Kids -> Seq(SortValues)] /\ R \in [S!Kids -> Seq(SortValues)] /\ arr \in [S!Cells -> SortValues]
      /\ todo \in [S!Kids -> Seq(S!Calls)]
      /\ Shape(todo[c], L[c], R[c], First(c), Last(c))
  BY DEF SortBase, S!TypeOK, Shapes
<1>1. L[c] # <<>> \/ R[c] # <<>>
  BY DEF S!Store
<1>2. todo[c] # <<>>
  BY <1>0, <1>1 DEF Shape
<1>3. Head(todo[c]) = todo[c][1] /\ S!NextCell(c) = o
  BY <1>2, CallBounds DEF S!NextCell, Output
<1>4. todo'[c] = Remaining(todo[c], L[c], R[c])
  BY <1>0, <1>3 DEF S!Store, Remaining
<1>5. L[c] \in Seq(SortValues) /\ R[c] \in Seq(SortValues)
  BY <1>0
<1>6. (L[c] # <<>> => Head(L[c]) = L[c][1] /\ L[c][1] \in Int) /\ (R[c] # <<>> => Head(R[c]) = R[c][1] /\ R[c][1] \in Int)
  <2>1. \A s \in Seq(SortValues) : s # <<>> => Head(s) = s[1] /\ s[1] \in SortValues
    OBVIOUS
  <2> QED BY <1>5, <2>1, SortConstants
<1>7. CASE S!LeftIsNext(c)
  <2>1. /\ L[c] # <<>> /\ (R[c] # <<>> => L[c][1] <= R[c][1]) /\ arr' = [arr EXCEPT ![o] = Head(L[c])]
        /\ L'[c] = Tail(L[c]) /\ R'[c] = R[c]
    BY <1>0, <1>3, <1>6, <1>7 DEF S!Store, S!LeftIsNext
  <2>2. TakesLeast(L[c], R[c], L'[c], R'[c], L[c][1]) /\ TakesOne(L[c], R[c], L'[c], R'[c])
    BY <2>1 DEF TakesLeast, TakesOne
  <2> QED BY <1>4, <1>6, <2>1, <2>2 DEF Put
<1>8. CASE ~S!LeftIsNext(c)
  <2>1. /\ R[c] # <<>> /\ (L[c] # <<>> => R[c][1] <= L[c][1]) /\ arr' = [arr EXCEPT ![o] = Head(R[c])]
        /\ L'[c] = L[c] /\ R'[c] = Tail(R[c])
    BY <1>0, <1>1, <1>3, <1>6, <1>8 DEF S!Store, S!LeftIsNext
  <2>2. TakesLeast(L[c], R[c], L'[c], R'[c], R[c][1]) /\ TakesOne(L[c], R[c], L'[c], R'[c])
    BY <2>1 DEF TakesLeast, TakesOne
  <2> QED BY <1>4, <1>6, <2>1, <2>2 DEF Put
<1> QED BY <1>7, <1>8

(* What a child that was forked, or one that still will be, relies on. *)
Ready(a, s, lo, hi, pair) ==
  /\ InOrder(a, lo, IF pair THEN lo + s - 1 ELSE hi)
  /\ pair => InOrder(a, lo + s, hi)

LEMMA SortInvParts ==
  SortInv <=> (~incomplete =>
    /\ \A c \in S!Kids : main # "done" /\ c < Count =>
         /\ Forked(c) => Sorts(arr, todo[c], L[c], R[c], First(c), Last(c))
         /\ ~Forked(c) /\ Merging => Ready(arr, size, First(c), Last(c), HasPair(c))
    /\ main = "done" => InOrder(arr, 0, SortCells - 1))
  BY DEF SortInv, Ready

LEMMA ReadyFrame ==
  ASSUME NEW lo \in Int, NEW hi \in Int, NEW s \in Nat, NEW pair, pair => lo + s - 1 <= hi,
         NEW a, NEW a2, \A n \in lo .. hi : a2[n] = a[n], Ready(a, s, lo, hi, pair)
  PROVE  Ready(a2, s, lo, hi, pair)
<1>1. CASE pair
  <2>1. InOrder(a, lo, lo + s - 1) /\ InOrder(a, lo + s, hi)
    BY <1>1 DEF Ready
  <2> DEFINE y == lo + s - 1
             x == lo + s
  <2>2. y \in Int /\ x \in Int /\ (\A n \in lo .. y : a2[n] = a[n]) /\ (\A n \in x .. hi : a2[n] = a[n])
    BY <1>1
  <2>3. InOrder(a, lo, y) /\ InOrder(a, x, hi)
    BY <2>1
  <2> HIDE DEF x, y
  <2>4. InOrder(a2, lo, y) /\ InOrder(a2, x, hi)
    BY <2>2, <2>3, OrderKept
  <2> QED BY <1>1, <2>4 DEF Ready, x, y
<1>2. CASE ~pair
  BY <1>2, OrderKept DEF Ready
<1> QED BY <1>1, <1>2

(* A child's step. *)
LEMMA ChildSorted ==
  ASSUME SortBase, SortInv, NEW c \in S!Kids, S!CopyHalves(c) \/ S!Store(c)
  PROVE  SortInv'
<1>0. /\ arr \in [S!Cells -> SortValues] /\ todo \in [S!Kids -> Seq(S!Calls)]
      /\ L \in [S!Kids -> Seq(SortValues)] /\ R \in [S!Kids -> Seq(SortValues)]
      /\ \A d \in S!Kids : Shape(todo[d], L[d], R[d], First(d), Last(d))
  BY DEF SortBase, S!TypeOK, Shapes
<1>1. /\ size' = size /\ main' = main /\ i' = i /\ incomplete' = incomplete /\ todo[c] # <<>>
      /\ \A d \in S!Kids : d # c => todo'[d] = todo[d] /\ L'[d] = L[d] /\ R'[d] = R[d]
  BY ChildEffect
<1>2. /\ Count' = Count /\ \A d : First(d)' = First(d) /\ Last(d)' = Last(d) /\ (HasPair(d)' <=> HasPair(d))
      /\ (Sorting' <=> Sorting) /\ (Merging' <=> Merging) /\ \A d : Forked(d)' <=> Forked(d)
  BY <1>1, SamePhase DEF Sorting, Merging, Forked
<1>3. main # "done" /\ c < Count /\ Forked(c)
  <2>1. ~Idling(c)
    BY <1>1 DEF Idling
  <2>2. main # "done" /\ ~(Count <= c)
    BY <2>1 DEF SortBase, RoundInv
  <2>3. c \in Nat /\ Count \in Int /\ i \in Nat
    BY RoundNumbers, SortConstants DEF SortBase, S!Kids
  <2>4. main \in {"fork_sort", "fork_merge"} => ~(i <= c)
    BY <2>1 DEF SortBase, RoundInv
  <2>5. main \in {"fork_sort", "fork_merge", "wait_sort", "wait_merge", "done"}
    BY DEF SortBase, S!TypeOK
  <2> QED BY <2>2, <2>3, <2>4, <2>5 DEF Forked
<1>4. \A d \in S!Kids : First(d) \in Int /\ Last(d) \in Int
  BY SectionBounds DEF SortBase
<1>5. 1 \in DOMAIN todo[c]
  BY <1>1, CallBounds
<1>6. ASSUME ~incomplete PROVE Sorts(arr', todo'[c], L'[c], R'[c], First(c), Last(c))
  <2>0. Sorts(arr, todo[c], L[c], R[c], First(c), Last(c))
    BY <1>3, <1>6, SortInvParts
  <2> DEFINE lo == First(c)
             hi == Last(c)
             cs == todo[c]
             lt == L[c]
             rt == R[c]
             lt2 == L'[c]
             rt2 == R'[c]
             cs2 == todo'[c]
             a2 == arr'
  <2>1. /\ cs \in Seq(S!Calls) /\ lt \in Seq(SortValues) /\ rt \in Seq(SortValues) /\ Shape(cs, lt, rt, lo, hi)
        /\ lo \in Int /\ hi \in Int /\ Sorts(arr, cs, lt, rt, lo, hi)
    BY <1>0, <1>4, <2>0
  <2>2. CASE S!CopyHalves(c)
    <3> DEFINE x == cs[1]
    <3>1. /\ a2 = arr /\ cs2 = cs /\ cs # <<>> /\ lt = <<>> /\ rt = <<>> /\ x = cs[1]
          /\ lt2 = [k \in 1 .. x.m - x.l + 1 |-> arr[x.l + k - 1]]
          /\ rt2 = [k \in 1 .. x.r - x.m |-> arr[x.m + k]]
      BY <1>0, <1>1, <2>2, CallBounds DEF S!CopyHalves
    <3>2. lt2 \in Seq(SortValues) /\ rt2 \in Seq(SortValues) /\ Len(lt2) = x.m - x.l + 1 /\ Len(rt2) = x.r - x.m
      <4> HIDE DEF x, lt2, rt2
      <4> QED BY <1>1, <3>1, CopyShape
    <3> HIDE DEF lo, hi, cs, lt, rt, lt2, rt2, cs2, a2, x
    <3>3. Shape(cs, <<>>, <<>>, lo, hi) /\ Sorts(arr, cs, <<>>, <<>>, lo, hi)
      BY <2>1, <3>1
    <3>4. Sorts(arr, cs, lt2, rt2, lo, hi)
      BY ONLY <1>0, <2>1, <3>1, <3>2, <3>3, CopySorts
    <3> QED BY <3>1, <3>4 DEF lo, hi, cs2, lt2, rt2, a2
  <2>3. CASE S!Store(c)
    <3>0. lt # <<>> \/ rt # <<>>
      BY <2>3 DEF S!Store
    <3>1. PICK w : /\ TakesLeast(lt, rt, lt2, rt2, w) /\ TakesOne(lt, rt, lt2, rt2)
                   /\ a2 = Put(arr, Output(cs, lt, rt), w)
                   /\ cs2 = Remaining(cs, lt, rt)
      BY <2>3, StoreEffect
    <3> HIDE DEF lo, hi, cs, lt, rt, lt2, rt2, cs2, a2
    <3>2. Sorts(a2, cs2, lt2, rt2, lo, hi)
      BY ONLY <1>0, <2>1, <3>0, <3>1, StoreSorts
    <3> QED BY <3>2 DEF lo, hi, cs2, lt2, rt2, a2
  <2> QED BY <2>2, <2>3
<1>7. ASSUME NEW d \in S!Kids, d # c PROVE \A n \in First(d) .. Last(d) : arr'[n] = arr[n]
  <2>1. CASE S!CopyHalves(c)
    BY <2>1 DEF S!CopyHalves
  <2>2. CASE S!Store(c)
    <3> DEFINE o == Output(todo[c], L[c], R[c])
    <3>1. L[c] # <<>> \/ R[c] # <<>>
      BY <2>2 DEF S!Store
    <3>2. PICK w : arr' = Put(arr, o, w) /\ TakesOne(L[c], R[c], L'[c], R'[c]) /\ todo'[c] = Remaining(todo[c], L[c], R[c])
      BY <2>2, StoreEffect
    <3>3. o \in Int /\ todo[c][1].l <= o /\ o <= todo[c][1].r
      <4> DEFINE lo == First(c)
                 hi == Last(c)
                 cs == todo[c]
                 lt == L[c]
                 rt == R[c]
                 lt2 == L'[c]
                 rt2 == R'[c]
                 cs2 == todo'[c]
      <4>1. /\ cs \in Seq(S!Calls) /\ lt \in Seq(SortValues) /\ rt \in Seq(SortValues) /\ Shape(cs, lt, rt, lo, hi)
            /\ TakesOne(lt, rt, lt2, rt2) /\ cs2 = Remaining(cs, lt, rt) /\ (lt # <<>> \/ rt # <<>>)
        BY <1>0, <3>1, <3>2
      <4> HIDE DEF lo, hi, cs, lt, rt, lt2, rt2, cs2
      <4>2. Output(cs, lt, rt) \in Int /\ cs[1].l <= Output(cs, lt, rt) /\ Output(cs, lt, rt) <= cs[1].r
        BY ONLY <4>1, StoreShape
      <4> QED BY <4>2 DEF cs, lt, rt
    <3>4. /\ First(c) <= todo[c][1].l /\ todo[c][1].r <= Last(c)
          /\ todo[c][1].l \in Int /\ todo[c][1].r \in Int
      <4> DEFINE lo == First(c)
                 hi == Last(c)
                 cs == todo[c]
                 lt == L[c]
                 rt == R[c]
      <4>1. cs \in Seq(S!Calls) /\ Shape(cs, lt, rt, lo, hi) /\ 1 \in DOMAIN cs
        BY <1>0, <1>5
      <4> HIDE DEF lo, hi, cs, lt, rt
      <4>2. lo <= cs[1].l /\ cs[1].r <= hi /\ cs[1].l \in Int /\ cs[1].r \in Int
        BY ONLY <4>1, ShapeNumbers
      <4> QED BY <4>2 DEF lo, hi, cs
    <3>5. Last(c) < First(d) \/ Last(d) < First(c)
      <4>1. c < d \/ d < c
        BY <1>7, SortConstants DEF S!Kids
      <4> QED BY <4>1, SectionBounds DEF SortBase
    <3> DEFINE xl == todo[c][1].l
               xr == todo[c][1].r
    <3>6. First(c) <= xl /\ xl <= o /\ o <= xr /\ xr <= Last(c) /\ xl \in Int /\ xr \in Int /\ o \in Int
      BY <3>3, <3>4
    <3> HIDE DEF o, xl, xr
    <3>7. \A n \in First(d) .. Last(d) : n # o
      BY <1>4, <3>5, <3>6
    <3> QED BY <3>2, <3>7 DEF Put
  <2> QED BY <2>1, <2>2
<1>8. ASSUME ~incomplete, NEW d \in S!Kids, d < Count, d # c, Forked(d)
      PROVE  Sorts(arr', todo'[d], L'[d], R'[d], First(d), Last(d))
  <2> DEFINE lo == First(d)
             hi == Last(d)
             cs == todo[d]
             lt == L[d]
             rt == R[d]
             a2 == arr'
  <2>1. /\ cs \in Seq(S!Calls) /\ lt \in Seq(SortValues) /\ rt \in Seq(SortValues) /\ Shape(cs, lt, rt, lo, hi)
        /\ lo \in Int /\ hi \in Int /\ \A n \in lo .. hi : a2[n] = arr[n]
    BY <1>0, <1>4, <1>7, <1>8
  <2>2. Sorts(arr, cs, lt, rt, lo, hi)
    BY <1>3, <1>8, SortInvParts
  <2> HIDE DEF lo, hi, cs, lt, rt, a2
  <2>3. Sorts(a2, cs, lt, rt, lo, hi)
    BY ONLY <2>1, <2>2, SortsFrame
  <2> QED BY <1>1, <1>8, <2>3 DEF lo, hi, cs, lt, rt, a2
<1>9. ASSUME ~incomplete, NEW d \in S!Kids, d < Count, ~Forked(d), Merging
      PROVE  Ready(arr', size, First(d), Last(d), HasPair(d))
  <2>0. d # c
    BY <1>3, <1>9
  <2> DEFINE lo == First(d)
             hi == Last(d)
             pair == HasPair(d)
             a2 == arr'
  <2>1. /\ lo \in Int /\ hi \in Int /\ \A n \in lo .. hi : a2[n] = arr[n]
        /\ Ready(arr, size, lo, hi, pair) /\ size \in Nat
    BY <1>3, <1>4, <1>7, <1>9, <2>0, SortInvParts, RoundNumbers DEF SortBase
  <2>2. pair => lo + size - 1 <= hi
    <3>1. hi = (IF lo + 2 * size - 1 < SortCells - 1 THEN lo + 2 * size - 1 ELSE SortCells - 1)
      BY <1>9 DEF Last, First, Sorting, Merging
    <3> QED BY <2>1, <3>1, SortConstants DEF HasPair
  <2> HIDE DEF lo, hi, pair, a2
  <2>3. Ready(a2, size, lo, hi, pair)
    BY ONLY <2>1, <2>2, ReadyFrame
  <2> QED BY <2>3 DEF lo, hi, pair, a2
<1>10. ASSUME ~incomplete', NEW d \in S!Kids, d < Count, Forked(d)
       PROVE  Sorts(arr', todo'[d], L'[d], R'[d], First(d), Last(d))
  BY <1>1, <1>6, <1>8, <1>10
<1>11. ASSUME ~incomplete', NEW d \in S!Kids, d < Count, ~Forked(d), Merging
       PROVE  Ready(arr', size', First(d), Last(d), HasPair(d))
  BY <1>1, <1>9, <1>11
<1> QED BY <1>1, <1>2, <1>3, <1>10, <1>11 DEF SortInv, Ready

LEMMA NoCallsSort ==
  ASSUME NEW a, NEW lo \in Int, NEW hi \in Int
  PROVE  Sorts(a, <<>>, <<>>, <<>>, lo, hi) <=> InOrder(a, lo, hi)
<1>1. Nested(<<>>) /\ Merges(a, <<>>, <<>>, <<>>)
  BY DEF Nested, Merges, InOrder
<1>2. WillBeInOrder(a, <<>>, Len(<<>>) + 1, lo, hi) <=> InOrder(a, lo, hi)
  <2>1. 1 .. (Len(<<>>) + 1) - 1 = {}
    OBVIOUS
  <2> QED BY <2>1 DEF WillBeInOrder
<1>3. DOMAIN <<>> = {}
  OBVIOUS
<1> QED BY <1>1, <1>2, <1>3 DEF Sorts

LEMMA OneCallSorts ==
  ASSUME NEW a, NEW x \in S!Calls, x.l <= x.m, x.m < x.r, InOrder(a, x.l, x.m), InOrder(a, x.m + 1, x.r)
  PROVE  Sorts(a, <<x>>, <<>>, <<>>, x.l, x.r)
<1> DEFINE cs == <<x>>
<1>1. cs \in Seq(S!Calls) /\ Nested(cs) /\ Len(cs) = 1 /\ cs[1] = x /\ DOMAIN cs = {1}
  BY OneCall
<1> HIDE DEF cs
<1>2. WillBeInOrder(a, cs, 1, x.l, x.m) /\ WillBeInOrder(a, cs, 1, x.m + 1, x.r)
  <2>1. 1 .. 1 - 1 = {}
    OBVIOUS
  <2> QED BY <2>1 DEF WillBeInOrder
<1>3. WillBeInOrder(a, cs, Len(cs) + 1, x.l, x.r)
  <2>1. 1 \in 1 .. (Len(cs) + 1) - 1
    BY <1>1
  <2> QED BY <1>1, <2>1 DEF WillBeInOrder
<1>4. Merges(a, cs, <<>>, <<>>)
  BY DEF Merges, InOrder
<1>5. Sorts(a, cs, <<>>, <<>>, x.l, x.r)
  BY <1>1, <1>2, <1>3, <1>4 DEF Sorts
<1> QED BY <1>5 DEF cs

(* A pass of a forking loop, whether it forks or has no pair to merge. *)
LEMMA ForkSorted ==
  ASSUME SortBase, SortInv, main \in {"fork_sort", "fork_merge"},
         NEW to, to = (IF main = "fork_sort" THEN "wait_sort" ELSE "wait_merge"),
         S!LoopPass(main, Count, to), NEW calls,
         L' = L, R' = R, arr' = arr, size' = size,
         \A d \in S!Kids : d # i => todo'[d] = todo[d],
         ~incomplete' => ~incomplete /\ todo'[i] = calls,
         ~incomplete => Sorts(arr, calls, <<>>, <<>>, First(i), Last(i))
  PROVE  SortInv'
<1>0. S!TypeOK /\ RoundInv /\ Shapes
  BY DEF SortBase
<1>1. i \in S!Kids /\ i \in Nat /\ i < Count /\ Count \in Nat /\ Idling(i) /\ \A d \in S!Kids : d \in Nat
  <2>1. i \in S!Kids /\ i < Count /\ i \in Nat /\ Count \in Nat
    BY <1>0, RoundNumbers DEF RoundInv, S!TypeOK
  <2>2. \A d \in S!Kids : d \in Nat
    BY SortConstants DEF S!Kids
  <2>3. i <= i
    BY <2>1
  <2> QED BY <1>0, <2>1, <2>2, <2>3 DEF RoundInv
<1>2. L[i] = <<>> /\ R[i] = <<>>
  BY <1>0, <1>1 DEF Idling, Shapes, Shape
<1>3. /\ i + 1 = Count => i' = 0 /\ main' = to
      /\ i + 1 # Count => i' = i + 1 /\ main' = main
  BY <1>1, Pass
<1>4. (Sorting' <=> Sorting) /\ (Merging' <=> Merging) /\ main' # "done" /\ main # "done"
  BY <1>3 DEF Sorting, Merging
<1>5. /\ Count' = Count
      /\ \A c : First(c)' = First(c) /\ Last(c)' = Last(c) /\ (HasPair(c)' <=> HasPair(c))
  BY <1>4, SamePhase
<1>6. \A d \in S!Kids : d < Count => (Forked(d)' => d = i \/ Forked(d)) /\ (Forked(d) => Forked(d)')
  <2> SUFFICES ASSUME NEW d \in S!Kids, d < Count
               PROVE  (Forked(d)' => d = i \/ Forked(d)) /\ (Forked(d) => Forked(d)')
    OBVIOUS
  <2>1. d \in Nat
    BY <1>1
  <2>2. (Forked(d) <=> d < i) /\ (Forked(d)' <=> main' \in {"wait_sort", "wait_merge"} \/ d < i')
    BY DEF Forked
  <2>3. CASE i + 1 = Count
    BY <1>1, <1>3, <2>1, <2>2, <2>3
  <2>4. CASE i + 1 # Count
    <3>1. i' = i + 1 /\ ~(main' \in {"wait_sort", "wait_merge"})
      BY <1>3, <2>4
    <3>2. d < i + 1 <=> d < i \/ d = i
      BY ONLY <1>1, <2>1
    <3> QED BY <2>2, <3>1, <3>2
  <2> QED BY <2>3, <2>4
<1>7. ASSUME ~incomplete', NEW d \in S!Kids, d < Count, Forked(d)'
      PROVE  Sorts(arr', todo'[d], L'[d], R'[d], First(d), Last(d))
  <2>1. CASE d = i
    BY <1>2, <1>7, <2>1
  <2>2. CASE d # i
    BY <1>4, <1>6, <1>7, <2>2, SortInvParts
  <2> QED BY <2>1, <2>2
<1>8. ASSUME ~incomplete', NEW d \in S!Kids, d < Count, ~Forked(d)', Merging
      PROVE  Ready(arr', size', First(d), Last(d), HasPair(d))
  BY <1>4, <1>6, <1>8, SortInvParts
<1> QED BY <1>4, <1>5, <1>7, <1>8 DEF SortInv, Ready

LEMMA ForkSortSorted == ASSUME SortBase, SortInv, S!ForkSort PROVE SortInv'
<1>0. S!TypeOK /\ RoundInv
  BY DEF SortBase
<1>1. main = "fork_sort" /\ Sorting /\ ~Merging
  BY DEF S!ForkSort, S!LoopPass, Sorting, Merging
<1>2. Count = SortSections
  BY <1>1 DEF Count
<1>3. i \in S!Kids /\ First(i) \in S!Cells /\ Last(i) \in S!Cells /\ First(i) <= Last(i) /\ Idling(i)
      /\ First(i) \in Int /\ Last(i) \in Int
  <2>1. i \in S!Kids /\ i < Count /\ i <= i
    BY <1>0, <1>1, RoundNumbers DEF RoundInv, S!TypeOK
  <2>2. First(i) \in Nat /\ Last(i) \in Int /\ First(i) <= Last(i) /\ Last(i) <= SortCells - 1
    BY <1>0, <1>1, <2>1, SectionBounds
  <2>3. Idling(i)
    BY <1>0, <1>1, <2>1 DEF RoundInv
  <2> QED BY <2>1, <2>2, <2>3, SortConstants DEF S!Cells
<1> DEFINE calls == S!mergeSort[<<First(i), Last(i)>>]
<1>4. S!Fork(i, calls)
  BY <1>0, <1>1, SectionNames DEF S!ForkSort
<1>5. CallsRight(calls, First(i), Last(i))
  BY <1>3, SortCallsRight
<1> HIDE DEF calls
<1>6. Sorts(arr, calls, <<>>, <<>>, First(i), Last(i))
  <2> DEFINE lo == First(i)
             hi == Last(i)
  <2>1. CallsRight(calls, lo, hi) /\ lo \in Int /\ hi \in Int /\ lo <= hi
    BY <1>3, <1>5
  <2> HIDE DEF lo, hi
  <2>2. Sorts(arr, calls, <<>>, <<>>, lo, hi)
    BY ONLY <2>1, CallsSort
  <2> QED BY <2>2 DEF lo, hi
<1>7. calls \in Seq(S!Calls)
  BY <1>5 DEF CallsRight
<1>8. /\ L' = L /\ R' = R /\ \A d \in S!Kids : d # i => todo'[d] = todo[d]
      /\ ~incomplete' => ~incomplete /\ todo'[i] = calls
  BY <1>3, <1>4, <1>7, ForkEffect
<1>9. S!LoopPass(main, Count, "wait_sort") /\ arr' = arr /\ size' = size
  BY <1>1, <1>2 DEF S!ForkSort
<1> QED BY <1>1, <1>6, <1>8, <1>9, ForkSorted

LEMMA ForkMergeSorted == ASSUME SortBase, SortInv, S!ForkMerge PROVE SortInv'
<1>0. S!TypeOK /\ RoundInv
  BY DEF SortBase
<1>1. main = "fork_merge" /\ ~Sorting /\ Merging
  BY DEF S!ForkMerge, S!LoopPass, Sorting, Merging
<1>2. Count = S!num_merges
  BY <1>1 DEF Count
<1>3. i \in S!Kids /\ i < Count /\ size \in Nat /\ 1 <= size /\ First(i) \in Nat /\ Last(i) \in Int
      /\ Last(i) <= SortCells - 1 /\ SortCells \in Nat /\ Idling(i) /\ ~Forked(i)
  <2>1. i \in S!Kids /\ i < Count /\ i <= i /\ ~(i < i)
    BY <1>0, <1>1, RoundNumbers DEF RoundInv, S!TypeOK
  <2>2. Idling(i) /\ ~Forked(i)
    BY <1>0, <1>1, <2>1 DEF RoundInv, Forked
  <2> QED BY <1>0, <2>1, <2>2, SectionBounds, RoundNumbers, SortConstants
<1>4. HasPair(i) <=> S!Mid < S!Right
  BY <1>0, <1>1, SectionNames
<1>5. ~incomplete => Ready(arr, size, First(i), Last(i), HasPair(i))
  BY <1>1, <1>3, SortInvParts
<1>6. S!LoopPass(main, Count, "wait_merge") /\ arr' = arr /\ size' = size
  BY <1>1, <1>2 DEF S!ForkMerge
<1>7. CASE S!Mid < S!Right
  <2> DEFINE x == [l |-> S!Left, m |-> S!Mid, r |-> S!Right]
  <2>1. S!Left = First(i) /\ S!Mid = First(i) + size - 1 /\ S!Right = Last(i)
    BY <1>0, <1>1, SectionNames
  <2>2. x.l = First(i) /\ x.m = First(i) + size - 1 /\ x.r = Last(i) /\ x.l <= x.m /\ x.m < x.r
    BY <1>3, <1>7, <2>1
  <2>3. x \in S!Calls
    BY <1>3, <1>7, <2>1 DEF S!Calls, S!Cells
  <2>4. S!Fork(i, <<x>>)
    BY <1>7 DEF S!ForkMerge
  <2> HIDE DEF x
  <2>5. ASSUME ~incomplete PROVE Sorts(arr, <<x>>, <<>>, <<>>, First(i), Last(i))
    <3>1. InOrder(arr, x.l, x.m) /\ InOrder(arr, x.l + size, x.r)
      BY <1>4, <1>5, <1>7, <2>2, <2>5 DEF Ready
    <3>2. x.l + size = x.m + 1
      BY <1>3, <2>2
    <3> QED BY <2>2, <2>3, <3>1, <3>2, OneCallSorts
  <2> DEFINE calls == <<x>>
  <2>6. calls \in Seq(S!Calls)
    BY <2>3
  <2> HIDE DEF calls
  <2>7. /\ L' = L /\ R' = R /\ \A d \in S!Kids : d # i => todo'[d] = todo[d]
        /\ ~incomplete' => ~incomplete /\ todo'[i] = calls
    BY <1>3, <2>4, <2>6, ForkEffect DEF calls
  <2>8. ~incomplete => Sorts(arr, calls, <<>>, <<>>, First(i), Last(i))
    BY <2>5 DEF calls
  <2> QED BY <1>1, <1>6, <2>7, <2>8, ForkSorted
<1>8. CASE ~(S!Mid < S!Right)
  <2>1. todo' = todo /\ L' = L /\ R' = R /\ incomplete' = incomplete /\ todo[i] = <<>>
    BY <1>3, <1>8 DEF S!ForkMerge, S!kids, S!pids, Idling
  <2>2. ~incomplete => Sorts(arr, <<>>, <<>>, <<>>, First(i), Last(i))
    <3>1. ~incomplete => InOrder(arr, First(i), Last(i))
      BY <1>4, <1>5, <1>8 DEF Ready
    <3> QED BY <1>3, <3>1, NoCallsSort
  <2> DEFINE calls == todo[i]
  <2>3. /\ ~incomplete => Sorts(arr, calls, <<>>, <<>>, First(i), Last(i))
        /\ ~incomplete' => ~incomplete /\ todo'[i] = calls
        /\ \A d \in S!Kids : d # i => todo'[d] = todo[d]
    BY <2>1, <2>2
  <2> HIDE DEF calls
  <2> QED BY <1>1, <1>6, <2>1, <2>3, ForkSorted
<1> QED BY <1>7, <1>8

(* When a round is over, every block of the next length is in order. *)
LEMMA RoundDone ==
  ASSUME SortBase, SortInv, ~incomplete, main \in {"wait_sort", "wait_merge"}, i + 1 = Count, todo[i] = <<>>,
         NEW s, s = (IF Merging THEN 2 * size ELSE size),
         NEW b \in Nat, NEW x \in Int, x = b * s, NEW y \in Int, y <= x + s - 1, y <= SortCells - 1
  PROVE  InOrder(arr, x, y)
<1>0. S!TypeOK /\ RoundInv /\ Shapes
  BY DEF SortBase
<1>1. /\ i \in Nat /\ Count \in Nat /\ Count <= SortSections /\ size \in Nat /\ 1 <= size
      /\ SortCells \in Nat /\ SortSections \in Nat /\ 1 <= SortSections
  BY <1>0, RoundNumbers, SortConstants
<1>2. ASSUME NEW c \in S!Kids, c < Count PROVE First(c) \in Int /\ Last(c) \in Int /\ InOrder(arr, First(c), Last(c))
  <2>1. c = i \/ c < i
    BY <1>1, <1>2, SortConstants DEF S!Kids
  <2>2. todo[c] = <<>>
    BY <1>0, <2>1 DEF RoundInv
  <2>3. L[c] = <<>> /\ R[c] = <<>>
    BY <1>0, <2>2 DEF Shapes, Shape
  <2>4. Sorts(arr, <<>>, <<>>, <<>>, First(c), Last(c))
    BY <1>2, <2>2, <2>3, SortInvParts DEF Forked
  <2>5. First(c) \in Int /\ Last(c) \in Int
    BY <1>0, SectionBounds
  <2> QED BY <2>4, <2>5, NoCallsSort
<1>3. CASE main = "wait_sort"
  <2>1. Sorting /\ ~Merging /\ s = size /\ Count = SortSections
    BY <1>3 DEF Sorting, Merging, Count
  <2> DEFINE c == IF b < SortSections - 1 THEN b ELSE SortSections - 1
  <2>2. c \in Nat /\ c <= b /\ c \in S!Kids /\ c < Count
    BY <1>1, <2>1 DEF S!Kids
  <2>3. First(c) = c * size /\ Last(c) = (IF c = SortSections - 1 THEN SortCells - 1 ELSE c * size + size - 1)
    BY <2>1 DEF First, Last
  <2>4. c # SortSections - 1 => c = b
    OBVIOUS
  <2> HIDE DEF c
  <2>5. c * size <= b * size
    BY <1>1, <2>2, MultiplesGrow
  <2>6. First(c) <= x /\ y <= Last(c)
    BY <2>1, <2>3, <2>4, <2>5
  <2> QED BY <1>2, <2>2, <2>6, PartInOrder
<1>4. CASE main = "wait_merge"
  <2>1. ~Sorting /\ Merging /\ s = 2 * size
    BY <1>4 DEF Sorting, Merging
  <2>2. CASE x < SortCells
    <3>1. b < Count
      BY <1>0, <2>1, <2>2, RoundNumbers
    <3>2. b \in S!Kids
      BY <1>1, <3>1 DEF S!Kids
    <3>3. First(b) = x /\ Last(b) = (IF x + 2 * size - 1 < SortCells - 1 THEN x + 2 * size - 1 ELSE SortCells - 1)
      BY <2>1 DEF First, Last
    <3>4. y <= Last(b)
      BY <1>1, <2>1, <3>3
    <3>5. x <= x
      OBVIOUS
    <3> QED BY <1>2, <3>1, <3>2, <3>3, <3>4, <3>5, PartInOrder
  <2>3. CASE ~(x < SortCells)
    <3>1. x .. y - 1 = {}
      BY <1>1, <2>3
    <3> QED BY <3>1 DEF InOrder
  <2> QED BY <2>2, <2>3
<1> QED BY <1>3, <1>4

LEMMA PairNumbers ==
  ASSUME NEW lo \in Int, NEW s \in Int, 1 <= s, NEW n \in Int, NEW hi,
         hi = IF lo + 2 * s - 1 < n - 1 THEN lo + 2 * s - 1 ELSE n - 1
  PROVE  /\ hi \in Int /\ hi <= n - 1 /\ hi <= (lo + s) + s - 1
         /\ ~(lo + s - 1 < n - 1) => hi <= lo + s - 1
         /\ lo + s - 1 < n - 1 => lo + s - 1 <= n - 1
         /\ lo + s - 1 \in Int
<1>1. CASE lo + 2 * s - 1 < n - 1
  BY <1>1
<1>2. CASE ~(lo + 2 * s - 1 < n - 1)
  BY <1>2
<1> QED BY <1>1, <1>2

LEMMA WaitSorted ==
  ASSUME SortBase, SortInv, main \in {"wait_sort", "wait_merge"},
         NEW s, s = (IF Merging THEN 2 * size ELSE size),
         S!LoopPass(main, Count, S!NextRound(s)), todo[i] = <<>>,
         size' = (IF i + 1 = Count THEN s ELSE size),
         arr' = arr, todo' = todo, L' = L, R' = R, incomplete' = incomplete
  PROVE  SortInv'
<1>0. S!TypeOK /\ RoundInv /\ Shapes
  BY DEF SortBase
<1>1. /\ i \in Nat /\ i < Count /\ Count \in Nat /\ size \in Nat /\ 1 <= size /\ SortCells \in Nat /\ 1 <= SortCells
      /\ s \in Nat /\ 1 <= s /\ \A d \in S!Kids : d \in Nat
  <2>1. i \in Nat /\ i < Count /\ Count \in Nat /\ size \in Nat /\ 1 <= size
    BY <1>0, RoundNumbers DEF RoundInv
  <2> QED BY <2>1, SortConstants DEF S!Kids
<1>2. /\ i + 1 = Count => i' = 0 /\ main' = S!NextRound(s)
      /\ i + 1 # Count => i' = i + 1 /\ main' = main
  BY <1>1, Pass
<1>3. CASE i + 1 # Count
  <2>1. (Sorting' <=> Sorting) /\ (Merging' <=> Merging) /\ size' = size /\ main' = main
    BY <1>2, <1>3 DEF Sorting, Merging
  <2>2. /\ Count' = Count
        /\ \A c : First(c)' = First(c) /\ Last(c)' = Last(c) /\ (HasPair(c)' <=> HasPair(c))
    BY <2>1, SamePhase
  <2>3. \A d : Forked(d)' /\ Forked(d)
    BY <2>1 DEF Forked
  <2> QED BY <2>1, <2>2, <2>3 DEF SortInv
<1>4. CASE i + 1 = Count
  <2> SUFFICES ASSUME ~incomplete
               PROVE  /\ \A d \in S!Kids : (main # "done" /\ d < Count)' =>
                           /\ Forked(d)' => Sorts(arr', todo'[d], L'[d], R'[d], First(d)', Last(d)')
                           /\ ~Forked(d)' /\ Merging' => Ready(arr', size', First(d)', Last(d)', HasPair(d)')
                      /\ main' = "done" => InOrder(arr', 0, SortCells - 1)
    BY DEF SortInv, Ready
  <2>1. ASSUME NEW b \in Nat, NEW x \in Int, x = b * s, NEW y \in Int, y <= x + s - 1, y <= SortCells - 1
        PROVE  InOrder(arr, x, y)
    BY <1>4, <2>1, RoundDone
  <2>2. i' = 0 /\ size' = s /\ main' = IF s < SortCells THEN "fork_merge" ELSE "done"
    BY <1>2, <1>4 DEF S!NextRound
  <2>3. CASE s < SortCells
    <3>1. main' = "fork_merge" /\ ~Sorting' /\ Merging'
      BY <2>2, <2>3 DEF Sorting, Merging
    <3>2. ASSUME NEW d \in S!Kids PROVE ~Forked(d)' /\ Ready(arr', size', First(d)', Last(d)', HasPair(d)')
      <4> DEFINE lo == d * (2 * s)
                 hi == IF lo + 2 * s - 1 < SortCells - 1 THEN lo + 2 * s - 1 ELSE SortCells - 1
                 pair == lo + s - 1 < SortCells - 1
      <4>1. First(d)' = lo /\ Last(d)' = hi /\ (HasPair(d)' <=> pair)
        BY <2>2, <3>1 DEF First, Last, HasPair
      <4>2. d \in Nat /\ ~Forked(d)'
        BY <1>1, <2>2, <3>1 DEF Forked
      <4>3. lo \in Int /\ lo = (2 * d) * s /\ lo + s = (2 * d + 1) * s /\ 2 * d \in Nat /\ 2 * d + 1 \in Nat
        BY ONLY <1>1, <4>2
      <4>n. s \in Int /\ 1 <= s /\ SortCells \in Int
        BY <1>1
      <4>h. /\ hi \in Int /\ hi <= SortCells - 1 /\ hi <= (lo + s) + s - 1 /\ (~pair => hi <= lo + s - 1)
            /\ (pair => lo + s - 1 <= SortCells - 1) /\ lo + s - 1 \in Int
        <5>1. lo \in Int
          BY <4>3
        <5> HIDE DEF lo
        <5>2. hi = IF lo + 2 * s - 1 < SortCells - 1 THEN lo + 2 * s - 1 ELSE SortCells - 1
          BY DEF hi
        <5>3. pair <=> lo + s - 1 < SortCells - 1
          BY DEF pair
        <5> HIDE DEF hi, pair
        <5> QED BY ONLY <5>1, <5>2, <5>3, <4>n, PairNumbers
      <4> HIDE DEF lo, hi, pair
      <4>4. InOrder(arr, lo, IF pair THEN lo + s - 1 ELSE hi)
        <5> DEFINE y == IF pair THEN lo + s - 1 ELSE hi
        <5>1. y \in Int /\ y <= lo + s - 1 /\ y <= SortCells - 1
          <6>1. CASE pair
            BY <4>h, <6>1
          <6>2. CASE ~pair
            BY <4>h, <6>2
          <6> QED BY <6>1, <6>2
        <5> HIDE DEF y
        <5>2. InOrder(arr, lo, y)
          BY <2>1, <4>3, <5>1
        <5> QED BY <5>2 DEF y
      <4>5. InOrder(arr, lo + s, hi)
        <5> DEFINE x == lo + s
        <5>1. x \in Int /\ x = (2 * d + 1) * s /\ hi <= x + s - 1
          BY <1>1, <4>3, <4>h
        <5> HIDE DEF x
        <5>2. InOrder(arr, x, hi)
          BY <2>1, <4>3, <4>h, <5>1
        <5> QED BY <5>2 DEF x
      <4>6. Ready(arr, s, lo, hi, pair)
        BY <4>4, <4>5 DEF Ready
      <4>7. arr' = arr /\ size' = s
        BY <2>2
      <4>8. Ready(arr', size', First(d)', Last(d)', HasPair(d)')
        <5>1. CASE pair
          <6>1. HasPair(d)' = TRUE
            BY <4>1, <5>1 DEF HasPair
          <6> QED BY <4>1, <4>4, <4>5, <4>7, <5>1, <6>1 DEF Ready
        <5>2. CASE ~pair
          <6>1. HasPair(d)' = FALSE
            BY <4>1, <5>2 DEF HasPair
          <6> QED BY <4>1, <4>4, <4>7, <5>2, <6>1 DEF Ready
        <5> QED BY <5>1, <5>2
      <4> QED BY <4>2, <4>8
    <3> QED BY <3>1, <3>2
  <2>4. CASE ~(s < SortCells)
    <3>1. InOrder(arr, 0, SortCells - 1)
      <4> DEFINE x == 0
                 y == SortCells - 1
                 b == 0
      <4>1. b \in Nat /\ x \in Int /\ y \in Int /\ x = b * s /\ y <= x + s - 1 /\ y <= SortCells - 1
        BY <1>1, <2>4
      <4> HIDE DEF x, y, b
      <4>2. InOrder(arr, x, y)
        BY <2>1, <4>1
      <4> QED BY <4>2 DEF x, y
    <3> QED BY <2>2, <2>4, <3>1
  <2> QED BY <2>3, <2>4
<1> QED BY <1>3, <1>4

LEMMA WaitSortSorted == ASSUME SortBase, SortInv, S!WaitSort PROVE SortInv'
<1>1. main = "wait_sort" /\ Sorting /\ ~Merging /\ i \in S!Kids
  BY DEF S!WaitSort, S!LoopPass, Sorting, Merging, SortBase, S!TypeOK
<1>2. Count = SortSections
  BY <1>1 DEF Count
<1>3. todo[i] = <<>> /\ incomplete' = incomplete
  BY <1>1, WaitEffect DEF S!WaitSort
<1>4. /\ S!LoopPass(main, Count, S!NextRound(size)) /\ size' = size
      /\ arr' = arr /\ todo' = todo /\ L' = L /\ R' = R
  BY <1>1, <1>2 DEF S!WaitSort, S!kids
<1> DEFINE s == size
<1>5. s = (IF Merging THEN 2 * size ELSE size) /\ size' = (IF i + 1 = Count THEN s ELSE size)
      /\ S!LoopPass(main, Count, S!NextRound(s))
  BY <1>1, <1>4
<1> HIDE DEF s
<1> QED BY <1>1, <1>3, <1>4, <1>5, WaitSorted

LEMMA WaitMergeSorted == ASSUME SortBase, SortInv, S!WaitMerge PROVE SortInv'
<1>0. S!TypeOK /\ RoundInv
  BY DEF SortBase
<1>1. main = "wait_merge" /\ ~Sorting /\ Merging /\ i \in S!Kids
  BY DEF S!WaitMerge, S!LoopPass, Sorting, Merging, SortBase, S!TypeOK
<1>2. Count = S!num_merges
  BY <1>1 DEF Count
<1>3. todo[i] = <<>> /\ incomplete' = incomplete
  <2>1. CASE S!Left + size - 1 < SortCells - 1
    BY <1>1, <2>1, WaitEffect DEF S!WaitMerge
  <2>2. CASE ~(S!Left + size - 1 < SortCells - 1)
    <3>1. ~HasPair(i)
      BY <1>0, <1>1, <2>2, SectionNames
    <3>2. Idling(i)
      BY <1>0, <1>1, <3>1 DEF RoundInv
    <3> QED BY <2>2, <3>2 DEF S!WaitMerge, Idling
  <2> QED BY <2>1, <2>2
<1> DEFINE s == 2 * size
<1>4. /\ S!LoopPass(main, Count, S!NextRound(s)) /\ size' = (IF i + 1 = Count THEN s ELSE size)
      /\ arr' = arr /\ todo' = todo /\ L' = L /\ R' = R
  BY <1>1, <1>2 DEF S!WaitMerge, S!kids
<1>5. s = (IF Merging THEN 2 * size ELSE size)
  BY <1>1
<1> HIDE DEF s
<1> QED BY <1>1, <1>3, <1>4, <1>5, WaitSorted

(* As long as no fork has failed, blocks are in order when a round begins:  *)
(* an inductive invariant with SortBase.                                    *)
LEMMA SortInvStep == ASSUME SortBase, SortInv, S!Next PROVE SortInv'
  BY ForkSortSorted, ForkMergeSorted, WaitSortSorted, WaitMergeSorted, ChildSorted DEF S!Next, S!parent, S!child

LEMMA SortInvInit == ASSUME S!Init PROVE SortInv
<1>1. main = "fork_sort" /\ i = 0 /\ \A c \in S!Kids : c \in Nat
  BY SortConstants DEF S!Init, S!Kids
<1>2. ~Merging /\ main # "done" /\ \A c \in S!Kids : ~Forked(c)
  BY <1>1 DEF Merging, Forked
<1> QED BY <1>2 DEF SortInv

LEMMA SortedRounds == ASSUME SortBase, SortInv PROVE S!RoundsSorted
<1>0. S!TypeOK /\ RoundInv
  BY DEF SortBase
<1> SUFFICES ASSUME ~incomplete, (main = "fork_merge" /\ i = 0) \/ main = "done",
                    NEW k \in S!Cells, k + 1 \in S!Cells, (k + 1) % size # 0
             PROVE  arr[k] <= arr[k + 1]
  BY DEF S!RoundsSorted
<1>1. /\ size \in Nat /\ 1 <= size /\ SortCells \in Nat /\ SortSections \in Nat
      /\ k \in Int /\ 0 <= k /\ k + 1 <= SortCells - 1
  BY <1>0, RoundNumbers, SortConstants DEF S!Cells
<1>2. CASE main = "done"
  <2>1. InOrder(arr, 0, SortCells - 1)
    BY <1>2 DEF SortInv
  <2>2. k \in 0 .. (SortCells - 1) - 1
    BY <1>1
  <2> QED BY <2>1, <2>2 DEF InOrder
<1>3. CASE main = "fork_merge" /\ i = 0
  <2>1. ~Sorting /\ Merging
    BY <1>3 DEF Sorting, Merging
  <2> DEFINE t == 2 * size
             c == k \div t
  <2>2. t \in Nat /\ 2 <= t
    BY <1>1
  <2>3. c \in Nat /\ c * t <= k /\ k < c * t + t
    <3> HIDE DEF t
    <3> QED BY <1>1, <2>2
  <2> HIDE DEF c
  <2>4. c * (2 * size) < SortCells /\ c * (2 * size) \in Int
    BY <1>1, <2>2, <2>3
  <2>5. c < Count /\ Count <= SortSections /\ c \in S!Kids
    <3>1. c < Count /\ Count \in Nat /\ Count <= SortSections
      BY <1>0, <2>1, <2>3, <2>4, RoundNumbers
    <3> QED BY <1>1, <2>3, <3>1 DEF S!Kids
  <2>6. Ready(arr, size, First(c), Last(c), HasPair(c))
    <3>1. ~Forked(c)
      BY <1>3, <2>3 DEF Forked
    <3> QED BY <1>3, <2>1, <2>5, <3>1, SortInvParts
  <2> DEFINE lo == c * t
             hi == IF lo + 2 * size - 1 < SortCells - 1 THEN lo + 2 * size - 1 ELSE SortCells - 1
  <2>7. First(c) = lo /\ Last(c) = hi /\ (HasPair(c) <=> lo + size - 1 < SortCells - 1)
    BY <2>1 DEF First, Last, HasPair
  <2>8. lo \in Int /\ lo <= k /\ k < lo + 2 * size
    BY <2>3, <2>4
  <2>9. k + 1 # lo + size /\ k + 1 # lo + t
    <3>1. lo = (2 * c) * size /\ lo + size = (2 * c + 1) * size /\ lo + t = (2 * c + 2) * size
      BY ONLY <1>1, <2>3
    <3>2. \A q \in Nat : (q * size) % size = 0
      BY ONLY <1>1
    <3>3. 2 * c + 1 \in Nat /\ 2 * c + 2 \in Nat
      BY <2>3
    <3> QED BY <3>1, <3>2, <3>3
  <2>10. k + 1 < lo + 2 * size
    <3> HIDE DEF lo
    <3> QED BY <1>1, <2>8, <2>9 DEF t
  <2> HIDE DEF lo, t
  <2>11. CASE k + 1 <= lo + size - 1
    <3> DEFINE y == IF HasPair(c) THEN lo + size - 1 ELSE hi
    <3>1. InOrder(arr, lo, y)
      BY <2>6, <2>7 DEF Ready
    <3>2. k \in lo .. y - 1
      <4>1. y \in Int /\ k + 1 <= y
        BY <1>1, <2>7, <2>8, <2>11
      <4> HIDE DEF y
      <4> QED BY <1>1, <2>8, <4>1
    <3> HIDE DEF y
    <3> QED BY <3>1, <3>2 DEF InOrder
  <2>12. CASE ~(k + 1 <= lo + size - 1)
    <3>1. lo + size <= k
      BY <1>1, <2>8, <2>9, <2>12
    <3>2. HasPair(c)
      BY <1>1, <2>7, <2>8, <3>1
    <3>3. InOrder(arr, lo + size, hi)
      BY <2>6, <2>7, <3>2 DEF Ready
    <3>4. hi \in Int /\ k + 1 <= hi
      BY <1>1, <2>8, <2>10
    <3> HIDE DEF hi
    <3>5. k \in lo + size .. hi - 1
      BY <1>1, <2>8, <3>1, <3>4
    <3> QED BY <3>3, <3>5 DEF InOrder
  <2> QED BY <2>11, <2>12
<1> QED BY <1>2, <1>3

=============================================================================
