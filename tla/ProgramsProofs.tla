---------------------------- MODULE ProgramsProofs ----------------------------
(***************************************************************************)
(* Proofs about Programs: the inductive invariant of each of the programs  *)
(* that start workers and wait for them, and what follows from it.         *)
(***************************************************************************)
EXTENDS Programs, InductionLemmas, MergeSortProofs

(* Cardinality and IsFiniteSet, as the modules of the programs know them. *)
LEMMA SameFinite ==
  ASSUME NEW T
  PROVE  /\ X!IsFiniteSet(T) <=> IsFiniteSet(T)
         /\ B!IsFiniteSet(T) <=> IsFiniteSet(T)
         /\ S!IsFiniteSet(T) <=> IsFiniteSet(T)
  BY DEF X!IsFiniteSet, B!IsFiniteSet, S!IsFiniteSet, IsFiniteSet

LEMMA SameCardinality ==
  ASSUME NEW T
  PROVE  /\ X!Cardinality(T) = Cardinality(T)
         /\ B!Cardinality(T) = Cardinality(T)
         /\ S!Cardinality(T) = Cardinality(T)
<1>1. X!Cardinality(T) = Cardinality(T)
  BY DEF X!Cardinality, Cardinality
<1>2. B!Cardinality(T) = Cardinality(T)
  BY DEF B!Cardinality, Cardinality
<1>3. S!Cardinality(T) = Cardinality(T)
  BY DEF S!Cardinality, Cardinality
<1> QED BY <1>1, <1>2, <1>3

-----------------------------------------------------------------------------
(***************************************************************************)
(* Primes.                                                                 *)
(***************************************************************************)
LEMMA PrimesConstants == ANSWER_UP_TO \in Nat /\ nproc \in Nat \ {0} /\ PipeSize \in Nat \ {0}
  BY ProgramsAssumption DEF ProgramsAssumption, P!PrimesAssumption

LEMMA SeqOfNat ==
  ASSUME NEW T, T \subseteq Nat, NEW s \in Seq(T)
  PROVE  s \in Seq(Nat) /\ Len(s) \in Nat /\ (s # <<>> => Head(s) \in Nat)
<1>1. Len(s) \in Nat /\ s \in [1 .. Len(s) -> T]
  OBVIOUS
<1>2. s \in [1 .. Len(s) -> Nat]
  BY <1>1
<1>3. s \in Seq(Nat)
  BY <1>1, <1>2
<1> QED BY <1>1, <1>3

(* A divisor has a partner. *)
LEMMA Partner ==
  ASSUME NEW n \in Nat, NEW d \in Nat \ {0}, n % d = 0
  PROVE  n \div d \in Nat /\ n = d * (n \div d)
  OBVIOUS

LEMMA DividesProduct ==
  ASSUME NEW d \in Nat \ {0}, NEW e \in Nat
  PROVE  (d * e) % d = 0
  OBVIOUS

(* Trial division by 2 and by the odd numbers up to the root is enough.     *)
LEMMA CheckPrime ==
  ASSUME NEW n \in Nat
  PROVE  P!check_prime(n) <=> P!IsPrime(n)
<1>1. ASSUME P!check_prime(n), NEW d \in 2 .. n - 1, n % d = 0
      PROVE  FALSE
  <2> DEFINE e == n \div d
  <2>1. d \in Nat \ {0} /\ e \in Nat /\ n = d * e /\ n > 2 /\ n % 2 # 0
    BY <1>1, Partner DEF P!check_prime
  <2> HIDE DEF e
  <2>2. n = e * d /\ e # 0 /\ e # 1
    BY <1>1, <2>1
  <2>3. n % d = 0 /\ n % e = 0
    BY <1>1, <2>1, <2>2, DividesProduct
  <2>4. d % 2 = 1 /\ e % 2 = 1
    <3>1. ASSUME NEW x \in Nat, NEW y \in Nat, n = x * y, x % 2 # 1 PROVE FALSE
      <4>1. x % 2 = 0
        BY <3>1
      <4>2. x = 2 * (x \div 2) /\ x \div 2 \in Nat
        BY <4>1
      <4> DEFINE h == x \div 2
      <4> HIDE DEF h
      <4>3. n = 2 * (h * y) /\ h * y \in Nat
        BY <3>1, <4>2 DEF h
      <4> QED BY <4>3, <2>1, DividesProduct
    <3> QED BY <3>1, <2>1, <2>2
  <2>5. ASSUME NEW x \in Nat, NEW y \in Nat, n = x * y, x <= y, x > 1, x % 2 = 1, n % x = 0
        PROVE  FALSE
    <3>1. x >= 3
      BY <2>5
    <3>2. x * x <= n /\ x <= n
      BY <2>5
    <3>3. x \in 3 .. n
      BY <2>1, <3>1, <3>2
    <3>4. n # 2
      BY <2>1
    <3> QED BY <1>1, <2>5, <3>2, <3>3, <3>4 DEF P!check_prime
  <2> QED BY <2>1, <2>2, <2>3, <2>4, <2>5, <1>1
<1>2. ASSUME P!IsPrime(n), n # 2 PROVE P!check_prime(n)
  <2>1. n > 2 /\ n % 2 # 0
    BY <1>2 DEF P!IsPrime
  <2>2. ASSUME NEW k \in 3 .. n, k * k <= n PROVE n % k # 0
    <3>1. k < n
      <4>1. k * 3 <= k * k
        BY <2>2
      <4> QED BY <4>1, <2>2
    <3> QED BY <1>2, <2>2, <3>1 DEF P!IsPrime
  <2> QED BY <2>1, <2>2 DEF P!check_prime
<1>3. P!check_prime(n) => n > 1
  BY DEF P!check_prime
<1>4. n = 2 => P!check_prime(n)
  BY DEF P!check_prime
<1> QED BY <1>1, <1>2, <1>3, <1>4 DEF P!IsPrime

-----------------------------------------------------------------------------
PrimeAt(n) == IF P!IsPrime(n) THEN n ELSE 0

(* The sums are what their recursive definition says. *)
LEMMA SumOfPrimesEquation ==
  P!SumOfPrimes = [n \in Nat |-> IF n = 0 THEN 0
                     ELSE P!SumOfPrimes[n - 1] + (IF P!IsPrime(n - 1) THEN n - 1 ELSE 0)]
<1> DEFINE Sum(f) == [n \in Nat |-> IF n = 0 THEN 0 ELSE f[n - 1] + (IF P!IsPrime(n - 1) THEN n - 1 ELSE 0)]
           Fun == [f \in [Nat -> Nat] |-> Sum(f)]
           mu == [n \in Nat |-> n]
<1>1. \A f \in [Nat -> Nat] : Sum(f) \in [Nat -> Nat]
  OBVIOUS
<1>2. Fun \in [[Nat -> Nat] -> [Nat -> Nat]]
  <2> HIDE DEF Sum
  <2> QED BY <1>1
<1>3. ASSUME NEW g \in [Nat -> Nat], NEW h \in [Nat -> Nat], NEW x \in Nat,
             \A y \in Nat : mu[y] < mu[x] => g[y] = h[y]
      PROVE  Fun[g][x] = Fun[h][x]
  <2>1. Sum(g)[x] = Sum(h)[x]
    <3>1. CASE x = 0
      BY <3>1
    <3>2. CASE x # 0
      <4>1. x - 1 \in Nat /\ mu[x - 1] < mu[x]
        BY <3>2
      <4>2. g[x - 1] = h[x - 1]
        BY <1>3, <4>1
      <4> QED BY <3>2, <4>2
    <3> QED BY <3>1, <3>2
  <2> HIDE DEF Sum
  <2> QED BY <2>1
<1>4. mu \in [Nat -> Nat] /\ 0 \in Nat
  OBVIOUS
<1>5. \E f \in [Nat -> Nat] : f = Fun[f]
  <2>1. Recursive(Nat, Nat, mu, Fun)
    <3> HIDE DEF Fun, mu
    <3> QED BY <1>2, <1>3, <1>4 DEF Recursive
  <2> DEFINE T == Nat
  <2>2. Recursive(T, T, mu, Fun)
    BY ONLY <2>1
  <2> HIDE DEF Fun, mu, T
  <2>3. \E f \in [T -> T] : f = Fun[f]
    BY <2>2, Recursion
  <2> QED BY <2>3 DEF T
<1>6. \E f : f = Sum(f)
  <2> HIDE DEF Sum
  <2> QED BY <1>5
<1> QED BY ONLY <1>6 DEF P!SumOfPrimes

LEMMA SumOfPrimesDef ==
  /\ P!SumOfPrimes[0] = 0
  /\ \A n \in Nat : P!SumOfPrimes[n + 1] = P!SumOfPrimes[n] + PrimeAt(n)
<1>1. P!SumOfPrimes = [n \in Nat |-> IF n = 0 THEN 0
                         ELSE P!SumOfPrimes[n - 1] + (IF P!IsPrime(n - 1) THEN n - 1 ELSE 0)]
  BY SumOfPrimesEquation
<1>2. ASSUME NEW n \in Nat PROVE P!SumOfPrimes[n + 1] = P!SumOfPrimes[n] + PrimeAt(n)
  <2>1. n + 1 \in Nat /\ n + 1 # 0 /\ (n + 1) - 1 = n
    OBVIOUS
  <2>2. P!SumOfPrimes[n + 1] = P!SumOfPrimes[(n + 1) - 1] + (IF P!IsPrime((n + 1) - 1) THEN (n + 1) - 1 ELSE 0)
    BY ONLY <1>1, <2>1
  <2> QED BY ONLY <2>1, <2>2 DEF PrimeAt
<1>3. P!SumOfPrimes[0] = 0
  BY ONLY <1>1
<1> QED BY <1>2, <1>3

LEMMA SumOfPrimesType == \A n \in Nat : P!SumOfPrimes[n] \in Nat
<1> DEFINE bad == {n \in Nat : P!SumOfPrimes[n] \notin Nat}
<1>1. ASSUME bad # {} PROVE FALSE
  <2>1. PICK n \in bad : \A y \in bad : n <= y
    <3>1. bad \subseteq Nat
      OBVIOUS
    <3> HIDE DEF bad
    <3> QED BY <1>1, <3>1, SmallestOf
  <2>2. n # 0 /\ n \in Nat
    BY SumOfPrimesDef
  <2>3. n - 1 \in Nat /\ (n - 1) + 1 = n /\ PrimeAt(n - 1) \in Nat
    BY <2>2 DEF PrimeAt
  <2>4. P!SumOfPrimes[n - 1] \in Nat
    BY <2>1, <2>3
  <2>5. P!SumOfPrimes[n] = P!SumOfPrimes[n - 1] + PrimeAt(n - 1)
    BY <2>3, SumOfPrimesDef
  <2> QED BY <2>1, <2>3, <2>4, <2>5
<1> QED BY <1>1

-----------------------------------------------------------------------------
(* The ranges of the children lie one behind the other. *)
LEMMA Ranges ==
  /\ P!child_range \in Nat
  /\ \A c \in P!Kids : /\ P!start(c) \in 0 .. ANSWER_UP_TO /\ P!end(c) \in 0 .. ANSWER_UP_TO
                       /\ P!start(c) <= P!end(c)
  /\ P!start(0) = 0
  /\ \A c \in P!Kids : P!end(c) = IF c = nproc - 1 THEN ANSWER_UP_TO ELSE P!start(c + 1)
<1> DEFINE w == ANSWER_UP_TO \div nproc
<1>1. w \in Nat /\ nproc * w <= ANSWER_UP_TO
  BY PrimesConstants
<1> HIDE DEF w
<1>2. ASSUME NEW c \in P!Kids
      PROVE  c * w \in Nat /\ (c + 1) * w = c * w + w /\ (c + 1) * w <= ANSWER_UP_TO
  <2>1. c \in Nat /\ c + 1 <= nproc /\ c + 1 \in Nat /\ nproc \in Nat
    BY PrimesConstants DEF P!Kids
  <2>2. (c + 1) * w <= nproc * w /\ nproc * w \in Nat /\ (c + 1) * w \in Nat
    BY <1>1, <2>1
  <2>3. (c + 1) * w = c * w + w /\ c * w \in Nat
    BY ONLY <1>1, <2>1
  <2> QED BY <1>1, <2>2, <2>3, PrimesConstants
<1> QED BY <1>1, <1>2, PrimesConstants DEF w, P!child_range, P!start, P!end, P!Kids

(* The number from which on a child has still to search. *)
Cursor(c) == IF at[c] \in {"unborn", "starts"} THEN P!start(c) ELSE num[c]

(* The running totals of what is in a pipe p, and of the primes that        *)
(* children which have come to cur have still to find.                      *)
PipeTotals(p, g) ==
  /\ g \in [0 .. Len(p) -> Int] /\ g[0] = 0
  /\ \A k \in 1 .. Len(p) : g[k] = g[k - 1] + p[k]

LeftTotals(cur, f) ==
  /\ f \in [0 .. nproc -> Int] /\ f[0] = 0
  /\ \A c \in P!Kids : f[c + 1] = f[c] + (P!SumOfPrimes[P!end(c)] - P!SumOfPrimes[cur[c]])

Balanced(total, p, cur) ==
  \E f, g : /\ LeftTotals(cur, f) /\ PipeTotals(p, g)
            /\ total + g[Len(p)] + f[nproc] = P!SumOfPrimes[ANSWER_UP_TO]

(* Where a child is, and what main() knows of them. *)
SearchInv ==
  /\ main = "fork" => i < nproc
  /\ main \in {"close", "read", "wait", "done"} => i = nproc
  /\ \A c \in P!Kids :
       /\ at[c] = "unborn" <=> c >= i
       /\ at[c] = "searches" => P!start(c) <= num[c] /\ num[c] <= P!end(c)
       /\ at[c] = "exited" => num[c] = P!end(c)
       /\ at[c] = "killed" => main = "failed"
       /\ main \in {"wait", "done"} => at[c] = "exited"
  /\ main \in {"wait", "done"} => pipe = <<>>

cursors == [c \in P!Kids |-> Cursor(c)]

NothingMissed == main # "failed" => Balanced(total_sum, pipe, cursors)

PrimesInv == P!TypeOK /\ SearchInv /\ NothingMissed

LEMMA PrimesInit == P!Init => PrimesInv
<1> SUFFICES ASSUME P!Init PROVE PrimesInv
  OBVIOUS
<1>1. P!TypeOK
  BY PrimesConstants DEF P!Init, P!TypeOK
<1>2. SearchInv
  BY PrimesConstants DEF P!Init, SearchInv, P!Kids
<1>3. Balanced(0, <<>>, cursors)
  <2> DEFINE f == [k \in 0 .. nproc |-> P!SumOfPrimes[IF k = nproc THEN ANSWER_UP_TO ELSE P!start(k)]]
             g == [k \in 0 .. 0 |-> 0]
  <2>1. \A c \in P!Kids : cursors[c] = P!start(c)
    BY DEF P!Init, cursors, Cursor
  <2>2. f \in [0 .. nproc -> Int]
    <3>1. ASSUME NEW k \in 0 .. nproc PROVE f[k] \in Int
      <4>1. (IF k = nproc THEN ANSWER_UP_TO ELSE P!start(k)) \in Nat
        BY Ranges, PrimesConstants DEF P!Kids
      <4> QED BY <4>1, SumOfPrimesType
    <3> QED BY <3>1
  <2>3. f[0] = 0 /\ f[nproc] = P!SumOfPrimes[ANSWER_UP_TO]
    BY Ranges, PrimesConstants, SumOfPrimesDef
  <2>4. ASSUME NEW c \in P!Kids
        PROVE  f[c + 1] = f[c] + (P!SumOfPrimes[P!end(c)] - P!SumOfPrimes[cursors[c]])
    <3>1. c \in 0 .. nproc - 1 /\ c + 1 \in 0 .. nproc /\ c \in 0 .. nproc /\ c # nproc
      BY PrimesConstants DEF P!Kids
    <3>2. f[c + 1] = P!SumOfPrimes[P!end(c)] /\ f[c] = P!SumOfPrimes[P!start(c)]
      BY <3>1, Ranges, PrimesConstants
    <3>3. f[c] \in Int /\ f[c + 1] \in Int
      BY <2>2, <3>1
    <3> HIDE DEF f
    <3> QED BY <2>1, <3>2, <3>3
  <2>5. LeftTotals(cursors, f)
    <3> HIDE DEF f
    <3> QED BY <2>2, <2>3, <2>4 DEF LeftTotals
  <2>6. PipeTotals(<<>>, g) /\ g[Len(<<>>)] = 0
    BY DEF PipeTotals
  <2>7. 0 + 0 + f[nproc] = P!SumOfPrimes[ANSWER_UP_TO]
    BY <2>3, SumOfPrimesType, PrimesConstants
  <2> HIDE DEF f, g
  <2> QED BY <2>5, <2>6, <2>7 DEF Balanced
<1>4. NothingMissed
  BY <1>3 DEF P!Init, NothingMissed
<1> QED BY <1>1, <1>2, <1>4 DEF PrimesInv

(* Child c looks at its next number, n: what is left shrinks by that.       *)
LEMMA LeftShrinks ==
  ASSUME NEW cur \in [P!Kids -> Nat], NEW f, LeftTotals(cur, f), NEW c \in P!Kids,
         P!end(c) \in Nat, NEW cur2 \in [P!Kids -> Nat], cur2 = [cur EXCEPT ![c] = @ + 1]
  PROVE  \E h : LeftTotals(cur2, h) /\ h[nproc] = f[nproc] - PrimeAt(cur[c])
<1> DEFINE d == PrimeAt(cur[c])
           h == [k \in 0 .. nproc |-> IF k > c THEN f[k] - d ELSE f[k]]
<1>1. d \in Nat /\ f \in [0 .. nproc -> Int] /\ c \in 0 .. nproc - 1
  BY DEF PrimeAt, LeftTotals, P!Kids
<1>2. P!SumOfPrimes[cur[c] + 1] = P!SumOfPrimes[cur[c]] + d
  BY SumOfPrimesDef
<1> HIDE DEF d
<1>3. h \in [0 .. nproc -> Int] /\ h[0] = 0 /\ h[nproc] = f[nproc] - d
  BY <1>1, PrimesConstants DEF LeftTotals
<1>4. ASSUME NEW e \in P!Kids
      PROVE  h[e + 1] = h[e] + (P!SumOfPrimes[P!end(e)] - P!SumOfPrimes[cur2[e]])
  <2>1. e \in 0 .. nproc - 1 /\ e \in 0 .. nproc /\ e + 1 \in 0 .. nproc
    BY PrimesConstants DEF P!Kids
  <2>2. f[e + 1] = f[e] + (P!SumOfPrimes[P!end(e)] - P!SumOfPrimes[cur[e]])
    BY DEF LeftTotals
  <2>3. /\ P!SumOfPrimes[P!end(e)] \in Nat /\ P!SumOfPrimes[cur[e]] \in Nat
        /\ f[e] \in Int /\ f[e + 1] \in Int
    <3>1. P!end(e) \in Nat
      BY Ranges
    <3> QED BY <1>1, <2>1, <3>1, SumOfPrimesType
  <2>4. CASE e < c
    <3>1. cur2[e] = cur[e] /\ h[e] = f[e] /\ h[e + 1] = f[e + 1]
      BY <1>1, <2>1, <2>4
    <3> QED BY <2>2, <3>1
  <2>5. CASE e = c
    <3>1. cur2[e] = cur[e] + 1 /\ h[e] = f[e] /\ h[e + 1] = f[e + 1] - d
      <4>1. cur2[e] = cur[e] + 1
        BY <2>5
      <4>2. ~(e > c) /\ e + 1 > c
        BY <1>1, <2>1, <2>5
      <4> QED BY <2>1, <4>1, <4>2
    <3>2. P!SumOfPrimes[cur2[e]] = P!SumOfPrimes[cur[e]] + d
      BY <1>2, <2>5, <3>1
    <3> DEFINE a == P!SumOfPrimes[P!end(e)]
               b == P!SumOfPrimes[cur[e]]
    <3> HIDE DEF h, a, b
    <3>3. h[e] = f[e] /\ h[e + 1] = f[e + 1] - d /\ f[e + 1] = f[e] + (a - b)
          /\ P!SumOfPrimes[cur2[e]] = b + d
      BY <2>2, <3>1, <3>2 DEF a, b
    <3>4. a \in Nat /\ b \in Nat /\ d \in Nat /\ f[e] \in Int /\ f[e + 1] \in Int
      BY <1>1, <2>3 DEF a, b
    <3>5. h[e + 1] = h[e] + (a - (b + d))
      BY ONLY <3>3, <3>4
    <3> QED BY ONLY <3>3, <3>5 DEF a
  <2>6. CASE e > c
    <3>1. cur2[e] = cur[e] /\ h[e] = f[e] - d /\ h[e + 1] = f[e + 1] - d
      <4>1. cur2[e] = cur[e]
        BY <1>1, <2>1, <2>6
      <4>2. e > c /\ e + 1 > c
        BY <1>1, <2>1, <2>6
      <4> QED BY <2>1, <4>1, <4>2
    <3> DEFINE a == P!SumOfPrimes[P!end(e)]
               b == P!SumOfPrimes[cur[e]]
    <3> HIDE DEF h, a, b
    <3>3. h[e] = f[e] - d /\ h[e + 1] = f[e + 1] - d /\ f[e + 1] = f[e] + (a - b)
      BY <2>2, <3>1 DEF a, b
    <3>4. a \in Nat /\ b \in Nat /\ d \in Nat /\ f[e] \in Int /\ f[e + 1] \in Int
      BY <1>1, <2>3 DEF a, b
    <3>5. h[e + 1] = h[e] + (a - b)
      BY ONLY <3>3, <3>4
    <3> QED BY ONLY <3>1, <3>5 DEF a, b
  <2> QED BY <1>1, <2>1, <2>4, <2>5, <2>6
<1>5. LeftTotals(cur2, h)
  <2> HIDE DEF h
  <2> QED BY <1>3, <1>4 DEF LeftTotals
<1> QED BY <1>3, <1>5 DEF d

LEMMA PipeGrows ==
  ASSUME NEW p \in Seq(Nat), NEW g, PipeTotals(p, g), NEW x \in Nat
  PROVE  \E h : PipeTotals(Append(p, x), h) /\ h[Len(Append(p, x))] = g[Len(p)] + x
<1> DEFINE h == [k \in 0 .. Len(p) + 1 |-> IF k = Len(p) + 1 THEN g[Len(p)] + x ELSE g[k]]
<1>1. Len(p) \in Nat /\ Len(Append(p, x)) = Len(p) + 1 /\ g \in [0 .. Len(p) -> Int]
  BY DEF PipeTotals
<1>2. h \in [0 .. Len(p) + 1 -> Int] /\ h[0] = 0 /\ h[Len(p) + 1] = g[Len(p)] + x
  BY <1>1 DEF PipeTotals
<1>3. ASSUME NEW k \in 1 .. Len(p) + 1 PROVE h[k] = h[k - 1] + Append(p, x)[k]
  <2>1. CASE k = Len(p) + 1
    BY <1>1, <2>1
  <2>2. CASE k # Len(p) + 1
    <3>1. k \in 1 .. Len(p) /\ h[k] = g[k] /\ h[k - 1] = g[k - 1] /\ Append(p, x)[k] = p[k]
      BY <1>1, <2>2
    <3> QED BY <3>1 DEF PipeTotals
  <2> QED BY <2>1, <2>2
<1>4. PipeTotals(Append(p, x), h)
  <2> HIDE DEF h
  <2> QED BY <1>1, <1>2, <1>3 DEF PipeTotals
<1> QED BY <1>1, <1>2, <1>4

LEMMA PipeShrinks ==
  ASSUME NEW p \in Seq(Nat), p # <<>>, NEW g, PipeTotals(p, g)
  PROVE  \E h : PipeTotals(Tail(p), h) /\ h[Len(Tail(p))] = g[Len(p)] - Head(p)
<1> DEFINE h == [k \in 0 .. Len(p) - 1 |-> g[k + 1] - Head(p)]
<1>1. /\ Len(p) \in Nat \ {0} /\ Len(Tail(p)) = Len(p) - 1 /\ g \in [0 .. Len(p) -> Int]
      /\ Head(p) \in Nat /\ Head(p) = p[1]
  BY DEF PipeTotals
<1>2. g[1] = Head(p)
  BY <1>1 DEF PipeTotals
<1>3. h \in [0 .. Len(p) - 1 -> Int] /\ h[0] = 0 /\ h[Len(p) - 1] = g[Len(p)] - Head(p)
  BY <1>1, <1>2
<1>4. ASSUME NEW k \in 1 .. Len(p) - 1 PROVE h[k] = h[k - 1] + Tail(p)[k]
  <2>1. h[k] = g[k + 1] - Head(p) /\ h[k - 1] = g[k] - Head(p) /\ Tail(p)[k] = p[k + 1]
    BY <1>1
  <2>2. g[k + 1] = g[k] + p[k + 1] /\ g[k] \in Int /\ p[k + 1] \in Nat
    BY <1>1 DEF PipeTotals
  <2> HIDE DEF h
  <2> QED BY <1>1, <2>1, <2>2
<1>5. PipeTotals(Tail(p), h)
  <2> HIDE DEF h
  <2> QED BY <1>1, <1>3, <1>4 DEF PipeTotals
<1> QED BY <1>1, <1>3, <1>5

(* Nothing is left when everybody has come to the end of his range.         *)
LEMMA NothingLeft ==
  ASSUME NEW cur, NEW f, LeftTotals(cur, f), \A c \in P!Kids : cur[c] = P!end(c)
  PROVE  f[nproc] = 0
<1> DEFINE bad == {k \in 0 .. nproc : f[k] # 0}
<1>1. ASSUME bad # {} PROVE FALSE
  <2>1. PICK k \in bad : \A y \in bad : k <= y
    <3>1. bad \subseteq Nat
      OBVIOUS
    <3> HIDE DEF bad
    <3> QED BY <1>1, <3>1, SmallestOf
  <2>2. k \in 1 .. nproc /\ k - 1 \in P!Kids /\ k - 1 \in 0 .. nproc /\ (k - 1) + 1 = k
    BY PrimesConstants DEF LeftTotals, P!Kids
  <2>3. f[k - 1] = 0
    BY <2>1, <2>2
  <2>4. f[k] = f[k - 1] + (P!SumOfPrimes[P!end(k - 1)] - P!SumOfPrimes[P!end(k - 1)])
    BY <2>2 DEF LeftTotals
  <2>5. P!SumOfPrimes[P!end(k - 1)] \in Nat
    BY <2>2, Ranges, SumOfPrimesType
  <2> QED BY <2>1, <2>3, <2>4, <2>5
<1> QED BY <1>1, PrimesConstants

-----------------------------------------------------------------------------
LEMMA PrimesTyped ==
  ASSUME PrimesInv
  PROVE  /\ pipe \in Seq(Nat) /\ Len(pipe) \in Nat /\ (pipe # <<>> => Head(pipe) \in Nat)
         /\ total_sum \in Nat
         /\ \A c \in P!Kids : num[c] \in Nat /\ num[c] <= ANSWER_UP_TO
         /\ cursors \in [P!Kids -> Nat]
<1>1. pipe \in Seq(0 .. ANSWER_UP_TO) /\ total_sum \in Nat
  BY DEF PrimesInv, P!TypeOK
<1>2. \A c \in P!Kids : num[c] \in Nat /\ num[c] <= ANSWER_UP_TO
  BY PrimesConstants DEF PrimesInv, P!TypeOK
<1>3. ASSUME NEW c \in P!Kids PROVE Cursor(c) \in Nat
  <2>1. P!start(c) \in Nat
    BY Ranges, PrimesConstants
  <2> QED BY <1>2, <2>1 DEF Cursor
<1>4. 0 .. ANSWER_UP_TO \subseteq Nat
  OBVIOUS
<1>5. pipe \in Seq(Nat) /\ Len(pipe) \in Nat /\ (pipe # <<>> => Head(pipe) \in Nat)
  BY <1>1, <1>4, SeqOfNat
<1> QED BY <1>1, <1>2, <1>3, <1>5 DEF cursors

LEMMA TotalsTyped ==
  ASSUME NEW f, NEW g, NEW cur, NEW p \in Seq(Nat), LeftTotals(cur, f), PipeTotals(p, g)
  PROVE  f[nproc] \in Int /\ g[Len(p)] \in Int
  BY PrimesConstants DEF LeftTotals, PipeTotals

(* A child that neither reads nor writes a number.                          *)
LEMMA ChildMoves ==
  ASSUME PrimesInv, NEW c \in P!Kids, P!CloseReadEnd(c) \/ P!DieOfSigpipe(c) \/ P!ChildExits(c)
  PROVE  PrimesInv'
<1> USE DEF P!CloseReadEnd, P!DieOfSigpipe, P!ChildExits
<1>1. P!TypeOK'
  BY Ranges DEF PrimesInv, P!TypeOK
<1>2. SearchInv'
  BY Ranges DEF PrimesInv, P!TypeOK, SearchInv, P!HasReader
<1>3. \A d \in P!Kids : at'[d] # "killed" \/ at[d] = "killed" => Cursor(d)' = Cursor(d)
  BY DEF PrimesInv, P!TypeOK, Cursor
<1>4. main' # "failed" => cursors' = cursors
  <2>1. main' # "failed" => \A d \in P!Kids : Cursor(d)' = Cursor(d)
    BY <1>2, <1>3 DEF SearchInv
  <2> QED BY <2>1 DEF cursors
<1>5. NothingMissed'
  BY <1>4 DEF PrimesInv, NothingMissed
<1> QED BY <1>1, <1>2, <1>5 DEF PrimesInv

LEMMA ChildSearches ==
  ASSUME PrimesInv, NEW c \in P!Kids, P!SkipNumber(c) \/ P!WritePrime(c)
  PROVE  PrimesInv'
<1> DEFINE x == num[c]
<1>1. /\ at[c] = "searches" /\ x < P!end(c) /\ num' = [num EXCEPT ![c] = x + 1]
      /\ UNCHANGED <<main, i, at, total_sum>>
  BY DEF P!SkipNumber, P!WritePrime
<1>2. x \in Nat /\ x + 1 \in 0 .. ANSWER_UP_TO /\ x \in 0 .. ANSWER_UP_TO
  <2>1. x \in Nat /\ P!end(c) \in Nat /\ P!end(c) <= ANSWER_UP_TO
    BY Ranges, PrimesTyped, PrimesConstants
  <2> HIDE DEF x
  <2> QED BY <1>1, <2>1, PrimesConstants
<1>3. \/ ~P!IsPrime(x) /\ pipe' = pipe
      \/ P!IsPrime(x) /\ pipe' = Append(pipe, x) /\ Len(pipe) < PipeSize
  BY <1>2, CheckPrime DEF P!SkipNumber, P!WritePrime
<1>4. P!TypeOK'
  <2>1. num' \in [P!Kids -> 0 .. ANSWER_UP_TO]
    BY <1>1, <1>2 DEF PrimesInv, P!TypeOK
  <2>2. pipe' \in Seq(0 .. ANSWER_UP_TO) /\ Len(pipe') <= PipeSize
    BY <1>2, <1>3, PrimesConstants DEF PrimesInv, P!TypeOK
  <2> QED BY <1>1, <2>1, <2>2 DEF PrimesInv, P!TypeOK
<1>5. SearchInv'
  <2>1. main \notin {"wait", "done"}
    BY <1>1 DEF PrimesInv, SearchInv
  <2>2. ASSUME NEW d \in P!Kids, at[d] = "searches"
        PROVE  P!start(d) <= num'[d] /\ num'[d] <= P!end(d)
    <3>1. P!start(d) <= num[d] /\ num[d] <= P!end(d) /\ P!start(d) \in Nat /\ P!end(d) \in Nat
      BY <2>2, Ranges DEF PrimesInv, SearchInv
    <3>2. num'[d] = IF d = c THEN x + 1 ELSE num[d]
      BY <1>1 DEF PrimesInv, P!TypeOK
    <3> QED BY <1>1, <1>2, <3>1, <3>2
  <2>3. ASSUME NEW d \in P!Kids, at[d] = "exited" PROVE num'[d] = P!end(d)
    BY <1>1, <2>3 DEF PrimesInv, P!TypeOK, SearchInv
  <2> QED BY <1>1, <2>1, <2>2, <2>3 DEF PrimesInv, SearchInv
<1>6. NothingMissed'
  <2> SUFFICES ASSUME main # "failed" PROVE Balanced(total_sum, pipe', cursors')
    BY <1>1 DEF NothingMissed
  <2>1. PICK f, g : /\ LeftTotals(cursors, f) /\ PipeTotals(pipe, g)
                    /\ total_sum + g[Len(pipe)] + f[nproc] = P!SumOfPrimes[ANSWER_UP_TO]
    BY DEF PrimesInv, NothingMissed, Balanced
  <2>2. cursors[c] = x /\ cursors \in [P!Kids -> Nat]
    BY <1>1, PrimesTyped DEF cursors, Cursor
  <2>3. cursors' = [cursors EXCEPT ![c] = @ + 1] /\ cursors' \in [P!Kids -> Nat]
    <3>1. \A d \in P!Kids : Cursor(d)' = IF d = c THEN x + 1 ELSE Cursor(d)
      BY <1>1 DEF PrimesInv, P!TypeOK, Cursor
    <3>2. cursors' = [d \in P!Kids |-> IF d = c THEN x + 1 ELSE Cursor(d)]
      BY <3>1 DEF cursors
    <3>3. \A d \in P!Kids : cursors[d] = Cursor(d)
      BY DEF cursors
    <3>4. cursors' \in [P!Kids -> Nat]
      BY <1>2, <2>2, <3>2, <3>3
    <3>5. cursors' = [cursors EXCEPT ![c] = x + 1]
      <4> HIDE DEF x, cursors
      <4> QED BY <2>2, <3>2, <3>3
    <3> QED BY <2>2, <3>4, <3>5
  <2>4. PICK h : LeftTotals(cursors', h) /\ h[nproc] = f[nproc] - PrimeAt(x)
    <3>1. P!end(c) \in Nat
      BY Ranges
    <3>2. \E h : LeftTotals(cursors', h) /\ h[nproc] = f[nproc] - PrimeAt(cursors[c])
      <4>1. LeftTotals(cursors, f) /\ c \in P!Kids
        BY <2>1
      <4> HIDE DEF x, cursors
      <4> QED BY ONLY <2>2, <2>3, <3>1, <4>1, LeftShrinks
    <3> QED BY <2>2, <3>2
  <2>5. PICK e : PipeTotals(pipe', e) /\ e[Len(pipe')] = g[Len(pipe)] + PrimeAt(x)
    <3>1. pipe \in Seq(Nat)
      BY PrimesTyped
    <3>2. g[Len(pipe)] \in Int
      BY <2>1, <3>1, TotalsTyped
    <3>3. CASE P!IsPrime(x)
      <4>1. pipe' = Append(pipe, x) /\ PrimeAt(x) = x
        BY <1>3, <3>3 DEF PrimeAt
      <4>2. \E e : PipeTotals(Append(pipe, x), e) /\ e[Len(Append(pipe, x))] = g[Len(pipe)] + x
        <5> HIDE DEF x
        <5> QED BY <1>2, <2>1, <3>1, PipeGrows
      <4> QED BY <4>1, <4>2
    <3>4. CASE ~P!IsPrime(x)
      BY <1>3, <2>1, <3>2, <3>4 DEF PrimeAt
    <3> QED BY <3>3, <3>4
  <2>6. f[nproc] \in Int /\ g[Len(pipe)] \in Int /\ PrimeAt(x) \in Nat /\ total_sum \in Nat
    BY <1>2, <2>1, PrimesTyped, TotalsTyped DEF PrimeAt
  <2>7. total_sum + e[Len(pipe')] + h[nproc] = P!SumOfPrimes[ANSWER_UP_TO]
    BY <2>1, <2>4, <2>5, <2>6
  <2> QED BY <2>4, <2>5, <2>7 DEF Balanced
<1> QED BY <1>4, <1>5, <1>6 DEF PrimesInv

LEMMA ReadPrimeStep ==
  ASSUME PrimesInv, P!ReadPrime
  PROVE  PrimesInv'
<1>1. /\ main = "read" /\ pipe # <<>> /\ total_sum' = total_sum + Head(pipe) /\ pipe' = Tail(pipe)
      /\ UNCHANGED <<main, i, at, num>>
  BY DEF P!ReadPrime
<1>2. pipe \in Seq(Nat) /\ Head(pipe) \in Nat /\ total_sum \in Nat
  BY <1>1, PrimesTyped
<1>3. P!TypeOK'
  BY <1>1, <1>2, PrimesConstants DEF PrimesInv, P!TypeOK
<1>4. SearchInv'
  BY <1>1 DEF PrimesInv, SearchInv
<1>5. cursors' = cursors
  BY <1>1 DEF cursors, Cursor
<1>6. Balanced(total_sum', pipe', cursors')
  <2>1. PICK f, g : /\ LeftTotals(cursors, f) /\ PipeTotals(pipe, g)
                    /\ total_sum + g[Len(pipe)] + f[nproc] = P!SumOfPrimes[ANSWER_UP_TO]
    BY <1>1 DEF PrimesInv, NothingMissed, Balanced
  <2>2. PICK h : PipeTotals(pipe', h) /\ h[Len(pipe')] = g[Len(pipe)] - Head(pipe)
    BY <1>1, <1>2, <2>1, PipeShrinks
  <2>3. f[nproc] \in Int /\ g[Len(pipe)] \in Int
    BY <1>2, <2>1, TotalsTyped
  <2>4. total_sum' + h[Len(pipe')] + f[nproc] = P!SumOfPrimes[ANSWER_UP_TO]
    <3>1. total_sum' + h[Len(pipe')] = total_sum + g[Len(pipe)]
      BY <1>1, <1>2, <2>2, <2>3
    <3> QED BY <2>1, <3>1
  <2> QED BY <1>5, <2>1, <2>2, <2>4 DEF Balanced
<1> QED BY <1>3, <1>4, <1>6 DEF PrimesInv, NothingMissed

LEMMA PrimesMain ==
  ASSUME PrimesInv,
         P!ForkChild \/ P!ForkFails \/ P!CloseWriteEnd \/ P!ReadEndOfFile \/ P!WaitForAll
  PROVE  PrimesInv'
<1>1. CASE P!ForkChild
  <2>1. /\ main = "fork" /\ i \in P!Kids /\ at[i] = "unborn" /\ i \in Nat /\ i < nproc
        /\ at' = [at EXCEPT ![i] = "starts"] /\ i' = i + 1
        /\ main' = (IF i + 1 = nproc THEN "close" ELSE "fork") /\ UNCHANGED <<num, pipe, total_sum>>
    BY <1>1, PrimesConstants DEF P!ForkChild, PrimesInv, SearchInv, P!TypeOK, P!Kids
  <2>2. P!TypeOK'
    BY <2>1, PrimesConstants DEF PrimesInv, P!TypeOK
  <2>3. SearchInv'
    BY <2>1, PrimesConstants DEF PrimesInv, P!TypeOK, SearchInv, P!Kids
  <2>4. cursors' = cursors
    <3>1. \A c \in P!Kids : Cursor(c)' = Cursor(c)
      BY <2>1 DEF Cursor, PrimesInv, P!TypeOK
    <3> QED BY <3>1 DEF cursors
  <2> QED BY <2>1, <2>2, <2>3, <2>4 DEF PrimesInv, NothingMissed
<1>2. CASE P!ForkFails
  BY <1>2 DEF P!ForkFails, PrimesInv, P!TypeOK, SearchInv, NothingMissed
<1>3. CASE P!CloseWriteEnd \/ P!ReadEndOfFile \/ P!WaitForAll
  <2>1. /\ UNCHANGED <<i, at, num, pipe, total_sum>> /\ main \in {"close", "read", "wait"}
        /\ main' \in {"read", "wait", "done"}
    BY <1>3 DEF P!CloseWriteEnd, P!ReadEndOfFile, P!WaitForAll
  <2>2. P!TypeOK'
    BY <2>1 DEF PrimesInv, P!TypeOK
  <2>3. main' \in {"wait", "done"} => pipe = <<>> /\ \A c \in P!Kids : at[c] = "exited"
    <3>1. CASE P!ReadEndOfFile
      <4>1. ASSUME NEW c \in P!Kids PROVE at[c] \notin {"starts", "searches", "unborn", "killed"}
        <5>1. at[c] \notin {"starts", "searches"} /\ main = "read"
          BY <3>1 DEF P!ReadEndOfFile, P!HasWriter
        <5>2. at[c] # "killed"
          BY <5>1 DEF PrimesInv, SearchInv
        <5>3. at[c] # "unborn"
          BY <5>1, PrimesConstants DEF PrimesInv, SearchInv, P!Kids
        <5> QED BY <5>1, <5>2, <5>3
      <4> QED BY <3>1, <4>1 DEF P!ReadEndOfFile, PrimesInv, P!TypeOK
    <3>2. CASE P!CloseWriteEnd \/ P!WaitForAll
      BY <3>2 DEF P!CloseWriteEnd, P!WaitForAll, PrimesInv, SearchInv
    <3> QED BY <1>3, <3>1, <3>2
  <2>4. SearchInv'
    BY <2>1, <2>3 DEF PrimesInv, SearchInv
  <2>5. cursors' = cursors
    BY <2>1 DEF cursors, Cursor
  <2> QED BY <2>1, <2>2, <2>4, <2>5 DEF PrimesInv, NothingMissed
<1> QED BY <1>1, <1>2, <1>3

LEMMA PrimesStep == PrimesInv /\ P!Next => PrimesInv'
  BY ChildMoves, ChildSearches, ReadPrimeStep, PrimesMain DEF P!Next, P!parent, P!child

LEMMA PrimesSumRight == PrimesInv => P!SumRight
<1> SUFFICES ASSUME PrimesInv, main \in {"wait", "done"}
             PROVE  total_sum = P!SumOfPrimes[ANSWER_UP_TO]
  BY DEF P!SumRight
<1>1. PICK f, g : /\ LeftTotals(cursors, f) /\ PipeTotals(pipe, g)
                  /\ total_sum + g[Len(pipe)] + f[nproc] = P!SumOfPrimes[ANSWER_UP_TO]
  BY DEF PrimesInv, NothingMissed, Balanced
<1>2. \A c \in P!Kids : cursors[c] = P!end(c)
  BY DEF PrimesInv, SearchInv, cursors, Cursor
<1>3. f[nproc] = 0
  BY <1>1, <1>2, NothingLeft
<1>4. g[Len(pipe)] = 0
  BY <1>1 DEF PrimesInv, SearchInv, PipeTotals
<1> QED BY <1>1, <1>3, <1>4 DEF PrimesInv, P!TypeOK

-----------------------------------------------------------------------------
(***************************************************************************)
(* HeapSearch.                                                             *)
(***************************************************************************)
LEMMA HeapConstants ==
  /\ HeapCells \in Nat \ {0} /\ NUM_THREADS \in Nat \ {0} /\ NUM_PROCESSES \in Nat \ {0}
  /\ HeapValues \subseteq Int /\ Wanted \in Int
  BY ProgramsAssumption DEF ProgramsAssumption, H!HeapSearchAssumption

(* Every worker of either kind has a number.                                *)
LEMMA HeapWorkers ==
  /\ \A w \in H!Workers : w \in Nat
  /\ \A w \in 0 .. NUM_THREADS - 1 : w \in H!Workers
  /\ \A w \in 0 .. NUM_PROCESSES - 1 : w \in H!Workers
  BY HeapConstants DEF H!Workers

(* The sections of the threads cover the array, *)
LEMMA ThreadSections ==
  /\ H!threadSection \in Nat \ {0}
  /\ \A w \in Nat : H!threadStart(w) \in Nat /\ H!threadEnd(w) \in Int /\ H!threadEnd(w) <= HeapCells
  /\ \A v, w \in Nat : v <= w => H!threadStart(v) <= H!threadStart(w)
  /\ \A k \in H!Cells : \E w \in 0 .. NUM_THREADS - 1 :
       H!threadStart(w) <= k /\ k < H!threadEnd(w)
<1> DEFINE s == (HeapCells + NUM_THREADS - 1) \div NUM_THREADS
<1>1. s \in Nat /\ s * NUM_THREADS <= HeapCells + NUM_THREADS - 1
      /\ HeapCells + NUM_THREADS - 1 < s * NUM_THREADS + NUM_THREADS
  BY HeapConstants
<1> HIDE DEF s
<1>2. s # 0
  BY <1>1, HeapConstants
<1>3. s * NUM_THREADS >= HeapCells
  BY <1>1, HeapConstants
<1>4. ASSUME NEW w \in Nat PROVE w * s \in Nat /\ w * s + s \in Nat
  BY <1>1, MultiplesGrow
<1>5. ASSUME NEW w \in Nat, NEW v \in Nat, v <= w PROVE v * s <= w * s
  BY <1>1, <1>5, MultiplesGrow
<1>6. ASSUME NEW k \in H!Cells
      PROVE  \E w \in 0 .. NUM_THREADS - 1 : w * s <= k /\ k < w * s + s
  <2> DEFINE w == k \div s
  <2>1. k \in Nat /\ k < HeapCells
    BY HeapConstants DEF H!Cells
  <2>2. w \in Nat /\ w * s <= k /\ k < w * s + s
    BY <1>1, <1>2, <2>1
  <2> HIDE DEF w
  <2>3. w < NUM_THREADS
    <3>1. SUFFICES ASSUME NUM_THREADS <= w PROVE FALSE
      BY <2>2, HeapConstants
    <3>2. NUM_THREADS * s <= w * s /\ NUM_THREADS * s = s * NUM_THREADS
      BY <1>1, <2>2, <3>1, MultiplesGrow, HeapConstants
    <3>3. s * NUM_THREADS \in Nat /\ w * s \in Nat
      BY <1>1, <2>2, HeapConstants
    <3> QED BY <1>3, <2>1, <2>2, <3>2, <3>3, HeapConstants
  <2> QED BY <2>2, <2>3, HeapConstants
<1>7. H!threadSection = s /\ \A w : H!threadStart(w) = w * s
  BY DEF s, H!threadSection, H!threadStart
<1>8. \A w : H!threadEnd(w) = IF w * s + s > HeapCells THEN HeapCells ELSE w * s + s
  BY <1>7 DEF H!threadEnd
<1>9. ASSUME NEW w \in Nat PROVE H!threadEnd(w) \in Int /\ H!threadEnd(w) <= HeapCells
  BY <1>4, <1>8, HeapConstants
<1>10. ASSUME NEW k \in H!Cells
       PROVE  \E w \in 0 .. NUM_THREADS - 1 : w * s <= k /\ k < H!threadEnd(w)
  BY <1>6, <1>8, HeapConstants DEF H!Cells
<1> QED BY <1>1, <1>2, <1>4, <1>5, <1>7, <1>9, <1>10

(* and so do those of the processes. *)
LEMMA ProcessSections ==
  /\ \A w \in 0 .. NUM_PROCESSES - 1 :
       /\ w * H!processSection \in 0 .. HeapCells
       /\ H!processEnd(w) \in 0 .. HeapCells
  /\ \A k \in H!Cells : \E w \in 0 .. NUM_PROCESSES - 1 :
       w * H!processSection <= k /\ k < H!processEnd(w)
<1> DEFINE s == HeapCells \div NUM_PROCESSES
<1>1. s \in Nat /\ s * NUM_PROCESSES <= HeapCells /\ NUM_PROCESSES * s = s * NUM_PROCESSES
  BY HeapConstants
<1> HIDE DEF s
<1>2. ASSUME NEW w \in 0 .. NUM_PROCESSES - 1
      PROVE  w * s \in Nat /\ w * s <= HeapCells /\ (w + 1) * s = w * s + s /\ (w + 1) * s <= HeapCells
  <2>1. w \in Nat /\ w + 1 \in Nat /\ w <= NUM_PROCESSES /\ w + 1 <= NUM_PROCESSES
    BY HeapConstants
  <2>2. /\ w * s <= NUM_PROCESSES * s /\ w * s \in Nat /\ (w + 1) * s <= NUM_PROCESSES * s
        /\ NUM_PROCESSES * s \in Nat /\ (w + 1) * s \in Nat /\ (w + 1) * s = w * s + s
    BY <1>1, <2>1, MultiplesGrow, HeapConstants
  <2> QED BY <1>1, <2>2, HeapConstants
<1>3. ASSUME NEW k \in H!Cells
      PROVE  \E w \in 0 .. NUM_PROCESSES - 1 :
               w * s <= k /\ k < (IF w = NUM_PROCESSES - 1 THEN HeapCells ELSE (w + 1) * s)
  <2>1. k \in Nat /\ k < HeapCells
    BY HeapConstants DEF H!Cells
  <2>2. CASE (NUM_PROCESSES - 1) * s <= k
    BY <2>1, <2>2, HeapConstants
  <2>3. CASE k < (NUM_PROCESSES - 1) * s
    <3> DEFINE w == k \div s
    <3>1. s # 0
      BY <1>1, <2>1, <2>3, HeapConstants
    <3>2. w \in Nat /\ w * s <= k /\ k < w * s + s
      BY <1>1, <2>1, <3>1
    <3> HIDE DEF w
    <3>3. w < NUM_PROCESSES - 1
      <4>1. SUFFICES ASSUME NUM_PROCESSES - 1 <= w PROVE FALSE
        BY <3>2, HeapConstants
      <4>2. NUM_PROCESSES - 1 \in Nat
        BY HeapConstants
      <4>3. (NUM_PROCESSES - 1) * s <= w * s /\ (NUM_PROCESSES - 1) * s \in Nat /\ w * s \in Nat
        BY <1>1, <3>2, <4>1, <4>2, MultiplesGrow
      <4> QED BY <2>1, <2>3, <3>2, <4>3
    <3>4. (w + 1) * s = w * s + s
      BY <1>1, <3>2, MultiplesGrow
    <3> QED BY <3>2, <3>3, <3>4, HeapConstants
  <2>4. (NUM_PROCESSES - 1) * s \in Int
    BY <1>1, HeapConstants
  <2> QED BY <2>1, <2>2, <2>3, <2>4
<1> QED BY <1>1, <1>2, <1>3, HeapConstants DEF s, H!processSection, H!processEnd

-----------------------------------------------------------------------------
(* The recursive search is right about heaps. *)
Present(a)  == \E k \in H!Cells : a[k] = Wanted
AllBelow(a) == \A k \in H!Cells : a[k] <= Wanted

(* Some function has the equation of the recursive search: the least set of  *)
(* cells that is closed under it.                                            *)
LEMMA HeapSearchEquation ==
  H!findInMinHeap = [index \in 0 .. 2 * HeapCells |->
        /\ index < HeapCells /\ A[index] <= Wanted
        /\ A[index] = Wanted \/ H!findInMinHeap[2 * index + 1] \/ H!findInMinHeap[2 * index + 2]]
<1> DEFINE Dom == 0 .. 2 * HeapCells
           In(k, T) == /\ k < HeapCells /\ A[k] <= Wanted
                       /\ A[k] = Wanted \/ 2 * k + 1 \in T \/ 2 * k + 2 \in T
           Closed(T) == \A k \in Dom : In(k, T) => k \in T
           Least == {k \in Dom : \A T \in SUBSET Dom : Closed(T) => k \in T}
           f == [k \in Dom |-> k \in Least]
<1>1. ASSUME NEW k \in Dom, In(k, Least) PROVE k \in Least
  <2>1. ASSUME NEW T \in SUBSET Dom, Closed(T) PROVE k \in T
    <3>1. Least \subseteq T
      <4> HIDE DEF Closed
      <4> QED BY <2>1
    <3>2. In(k, T)
      <4> HIDE DEF Least
      <4> QED BY <1>1, <3>1
    <3> HIDE DEF In
    <3> QED BY <2>1, <3>2
  <2> HIDE DEF Closed
  <2> QED BY <2>1
<1>2. ASSUME NEW k \in Dom, k \in Least, ~In(k, Least) PROVE FALSE
  <2> DEFINE T == Least \ {k}
  <2>1. T \in SUBSET Dom
    OBVIOUS
  <2>2. Closed(T)
    <3> SUFFICES ASSUME NEW j \in Dom, In(j, T) PROVE j \in T
      OBVIOUS
    <3>1. In(j, Least)
      <4> HIDE DEF Least
      <4> QED OBVIOUS
    <3> HIDE DEF In
    <3>2. j \in Least
      BY <1>1, <3>1
    <3> HIDE DEF Least
    <3> QED BY <1>2, <3>1, <3>2
  <2>3. k \in T
    <3> HIDE DEF Closed, T
    <3> QED BY <1>2, <2>1, <2>2
  <2> QED BY <2>3
<1>3. ASSUME NEW k \in Dom, k < HeapCells PROVE 2 * k + 1 \in Dom /\ 2 * k + 2 \in Dom
  BY <1>3, ProgramsAssumption DEF ProgramsAssumption, H!HeapSearchAssumption
<1>4. ASSUME NEW k \in Dom
      PROVE f[k] <=> (k < HeapCells /\ A[k] <= Wanted /\ (A[k] = Wanted \/ f[2 * k + 1] \/ f[2 * k + 2]))
  <2>1. f[k] <=> In(k, Least)
    <3> HIDE DEF In, Least
    <3> QED BY <1>1, <1>2
  <2> HIDE DEF Least
  <2>2. k < HeapCells => (f[2 * k + 1] <=> 2 * k + 1 \in Least) /\ (f[2 * k + 2] <=> 2 * k + 2 \in Least)
    BY <1>3
  <2> HIDE DEF f
  <2> QED BY <2>1, <2>2
<1>5. f = [k \in Dom |-> k < HeapCells /\ A[k] <= Wanted /\ (A[k] = Wanted \/ f[2 * k + 1] \/ f[2 * k + 2])]
  <2>1. \A k \in Dom : f[k] = (k < HeapCells /\ A[k] <= Wanted /\ (A[k] = Wanted \/ f[2 * k + 1] \/ f[2 * k + 2]))
    <3> DEFINE E(k) == k < HeapCells /\ A[k] <= Wanted /\ (A[k] = Wanted \/ f[2 * k + 1] \/ f[2 * k + 2])
    <3>1. ASSUME NEW k \in Dom PROVE f[k] = E(k)
      <4>1. f[k] <=> E(k)
        BY <1>4
      <4>2. f[k] \in BOOLEAN /\ E(k) \in BOOLEAN
        <5> HIDE DEF Least
        <5> QED OBVIOUS
      <4> HIDE DEF f, E
      <4> QED BY <4>1, <4>2
    <3> QED BY <3>1
  <2>2. f = [k \in Dom |-> f[k]]
    OBVIOUS
  <2> HIDE DEF f, Dom
  <2> QED BY <2>1, <2>2
<1>6. \E g : g = [index \in 0 .. 2 * HeapCells |->
        /\ index < HeapCells /\ A[index] <= Wanted
        /\ A[index] = Wanted \/ g[2 * index + 1] \/ g[2 * index + 2]]
  <2> HIDE DEF f
  <2> QED BY <1>5
<1> QED BY ONLY <1>6, Zenon DEF H!findInMinHeap

LEMMA HeapSearchDef ==
  \A j \in 0 .. 2 * HeapCells :
    H!findInMinHeap[j] <=>
      /\ j < HeapCells /\ A[j] <= Wanted
      /\ A[j] = Wanted \/ H!findInMinHeap[2 * j + 1] \/ H!findInMinHeap[2 * j + 2]
  BY ONLY HeapSearchEquation, Zenon

LEMMA HeapFindsNothing ==
  ASSUME ~Present(A), NEW j \in 0 .. 2 * HeapCells
  PROVE  ~H!findInMinHeap[j]
<1> DEFINE T == {x \in 0 .. 2 * HeapCells : H!findInMinHeap[2 * HeapCells - x]}
<1>1. ASSUME T # {} PROVE FALSE
  <2>1. PICK x \in T : \A y \in T : x <= y
    <3>1. T \subseteq Nat
      OBVIOUS
    <3> HIDE DEF T
    <3> QED BY <1>1, <3>1, SmallestOf
  <2> DEFINE k == 2 * HeapCells - x
  <2>2. k \in 0 .. 2 * HeapCells /\ H!findInMinHeap[k] /\ x \in Nat /\ x = 2 * HeapCells - k
    BY <2>1, HeapConstants
  <2> HIDE DEF k
  <2>3. k < HeapCells /\ (A[k] = Wanted \/ H!findInMinHeap[2 * k + 1] \/ H!findInMinHeap[2 * k + 2])
    BY <2>2, HeapSearchDef
  <2>4. A[k] # Wanted
    BY <2>2, <2>3, HeapConstants DEF Present, H!Cells
  <2>5. ASSUME NEW m \in {2 * k + 1, 2 * k + 2}, H!findInMinHeap[m] PROVE FALSE
    <3>1. m \in 0 .. 2 * HeapCells /\ m > k
      BY <2>2, <2>3, HeapConstants
    <3>2. 2 * HeapCells - m \in 0 .. 2 * HeapCells /\ 2 * HeapCells - (2 * HeapCells - m) = m
      BY <3>1, HeapConstants
    <3>3. 2 * HeapCells - m \in T
      BY <2>5, <3>2
    <3>4. x <= 2 * HeapCells - m
      BY <2>1, <3>3
    <3> QED BY <2>2, <3>1, <3>4, HeapConstants
  <2> QED BY <2>3, <2>4, <2>5
<1>2. 2 * HeapCells - j \in 0 .. 2 * HeapCells /\ 2 * HeapCells - (2 * HeapCells - j) = j
  BY HeapConstants
<1> QED BY <1>1, <1>2

LEMMA HeapFindsWanted ==
  ASSUME H!IsHeap, Present(A), A \in [H!Cells -> HeapValues]
  PROVE  H!findInMinHeap[0]
<1> DEFINE T == {j \in 0 .. 2 * HeapCells : H!findInMinHeap[j]}
<1>1. T # {}
  <2>1. PICK k \in H!Cells : A[k] = Wanted
    BY DEF Present
  <2>2. k \in 0 .. 2 * HeapCells /\ k < HeapCells /\ A[k] <= Wanted
    BY <2>1, HeapConstants DEF H!Cells
  <2>3. H!findInMinHeap[k]
    BY <2>1, <2>2, HeapSearchDef
  <2> QED BY <2>2, <2>3
<1>2. PICK j \in T : \A y \in T : j <= y
  <2>1. T \subseteq Nat
    OBVIOUS
  <2> HIDE DEF T
  <2> QED BY <1>1, <2>1, SmallestOf
<1>3. j \in 0 .. 2 * HeapCells /\ H!findInMinHeap[j] /\ j < HeapCells /\ A[j] <= Wanted
  BY <1>2, HeapSearchDef
<1>4. ASSUME j # 0 PROVE FALSE
  <2> DEFINE p == (j - 1) \div 2
  <2>1. p \in Nat /\ p < j /\ (j = 2 * p + 1 \/ j = 2 * p + 2)
    BY <1>3, <1>4, HeapConstants
  <2>2. A[p] <= A[j]
    BY <1>3, <1>4, HeapConstants DEF H!IsHeap, H!Cells
  <2> HIDE DEF p
  <2>3. p \in 0 .. 2 * HeapCells /\ p < HeapCells /\ p \in H!Cells /\ j \in H!Cells
    BY <1>3, <2>1, HeapConstants DEF H!Cells
  <2>4. A[p] \in Int /\ A[j] \in Int
    BY <2>3, HeapConstants
  <2>5. A[p] <= Wanted
    BY <1>3, <2>2, <2>4, HeapConstants
  <2>6. H!findInMinHeap[2 * p + 1] \/ H!findInMinHeap[2 * p + 2]
    BY <1>3, <2>1
  <2>7. H!findInMinHeap[p]
    BY <2>3, <2>5, <2>6, HeapSearchDef
  <2>8. j <= p
    BY <1>2, <2>3, <2>7
  <2> QED BY <1>3, <2>1, <2>8
<1> QED BY <1>3, <1>4

-----------------------------------------------------------------------------
(* The two kinds of workers one after the other. *)
ThreadLabels  == {"unborn", "loops", "compares", "ended"}
ProcessLabels == {"unborn", "searches", "checks", "stores", "ended"}

HeapPhases ==
  /\ main = "create" => i <= NUM_THREADS
  /\ main = "fork" => i < NUM_PROCESSES
  /\ main \in {"wait", "done"} => i <= NUM_PROCESSES
  /\ main \in {"create", "fork"} => \A w \in H!Workers : w >= i => at[w] = "unborn"
  /\ main = "create" => \A w \in H!Workers : w < i => at[w] # "unborn"
  /\ main = "join" => \A w \in 0 .. NUM_THREADS - 1 : H!threadStart(w) < HeapCells => at[w] # "unborn"
  /\ main = "done" => H!Idle

(* What a thread is behind it has compared, unless larger elements made it  *)
(* skip some; a thread that ends without a result is at its section's end.  *)
ThreadsSearch ==
  main \in {"create", "join"} =>
    /\ \A w \in H!Workers :
         /\ at[w] \in ThreadLabels
         /\ at[w] = "compares" => pos[w] < H!threadEnd(w)
         /\ at[w] \in {"loops", "compares"} => H!threadStart(w) <= pos[w]
         /\ at[w] = "ended" /\ result = -1 => H!threadEnd(w) <= pos[w]
         /\ at[w] # "unborn" /\ result = -1 /\ AllBelow(A) =>
              \A k \in H!Cells : H!threadStart(w) <= k /\ k < pos[w] => A[k] # Wanted
    /\ result # -1 => A[result] = Wanted

ThreadsFound ==
  main \in {"fork", "wait", "done"} =>
    /\ thread_res # -1 => A[thread_res] = Wanted
    /\ AllBelow(A) => (thread_res # -1 <=> Present(A))

(* What a process carries is a match, and a process that ends without a     *)
(* result anywhere has none in its section.                                 *)
ProcessAt(w, label, p) ==
  /\ label \in ProcessLabels
  /\ label # "unborn" => w < NUM_PROCESSES
  /\ label = "searches" => p = w * H!processSection
  /\ label \in {"checks", "stores"} => p \in H!Cells /\ A[p] = Wanted
  /\ label = "ended" /\ result = -1 =>
       \A k \in H!Cells : w * H!processSection <= k /\ k < H!processEnd(w) => A[k] # Wanted

ProcessesSearch ==
  main \in {"fork", "wait", "done"} =>
    /\ \A w \in H!Workers : ProcessAt(w, at[w], pos[w])
    /\ result # -1 => A[result] = Wanted

HeapInv == H!TypeOK /\ HeapPhases /\ ThreadsSearch /\ ThreadsFound /\ ProcessesSearch

LEMMA HeapInit == H!Init => HeapInv
  BY HeapConstants, HeapWorkers
     DEF H!Init, HeapInv, H!TypeOK, HeapPhases, ThreadsSearch, ThreadsFound, ProcessesSearch,
         ThreadLabels, H!Idle

LEMMA HeapTyped ==
  ASSUME HeapInv
  PROVE  /\ at \in [H!Workers -> ThreadLabels \union ProcessLabels]
         /\ pos \in [H!Workers -> 0 .. HeapCells + 1]
         /\ \A w \in H!Workers : pos[w] \in Nat /\ pos[w] <= HeapCells + 1 /\ w \in Nat
         /\ A \in [H!Cells -> HeapValues] /\ \A k \in H!Cells : A[k] \in Int /\ k \in Nat /\ k < HeapCells
<1>1. at \in [H!Workers -> ThreadLabels \union ProcessLabels] /\ pos \in [H!Workers -> 0 .. HeapCells + 1]
      /\ A \in [H!Cells -> HeapValues]
  BY DEF HeapInv, H!TypeOK, ThreadLabels, ProcessLabels
<1>2. \A w \in H!Workers : pos[w] \in 0 .. HeapCells + 1 /\ w \in Nat
  BY <1>1, HeapWorkers
<1>3. \A w \in H!Workers : pos[w] \in Nat /\ pos[w] <= HeapCells + 1 /\ w \in Nat
  BY <1>2, HeapConstants
<1>4. ASSUME NEW k \in H!Cells PROVE A[k] \in Int /\ k \in Nat /\ k < HeapCells
  <2>1. A[k] \in Int
    BY <1>1, HeapConstants
  <2>2. k \in Nat /\ k < HeapCells
    BY HeapConstants DEF H!Cells
  <2> QED BY <2>1, <2>2
<1> QED BY <1>1, <1>3, <1>4

(* A step of thread w that changes its place and its index only.            *)
LEMMA ThreadMoves ==
  ASSUME HeapInv, NEW w \in H!Workers, H!LoopTest(w) \/ H!NextElement(w)
  PROVE  HeapInv'
<1>1. at[w] \in {"loops", "compares"} /\ main \in {"create", "join"}
      /\ UNCHANGED <<main, i, result, thread_res, A>>
  BY DEF H!LoopTest, H!NextElement, H!Goto, HeapInv, H!TypeOK, ProcessesSearch, ProcessAt, ProcessLabels
<1>2. \A v \in H!Workers : v # w => at'[v] = at[v] /\ pos'[v] = pos[v]
  BY HeapTyped DEF H!LoopTest, H!NextElement, H!Goto
<1>3. /\ H!threadStart(w) \in Nat /\ H!threadEnd(w) \in Int /\ H!threadEnd(w) <= HeapCells
      /\ pos[w] \in Nat /\ pos[w] <= HeapCells + 1 /\ H!threadStart(w) <= pos[w]
      /\ at[w] = "compares" => pos[w] < H!threadEnd(w)
  BY <1>1, HeapTyped, HeapWorkers, ThreadSections DEF HeapInv, ThreadsSearch
<1>4. CASE H!LoopTest(w)
  <2>1. /\ at' = [at EXCEPT ![w] = IF pos[w] < H!threadEnd(w) /\ result = -1 THEN "compares" ELSE "ended"]
        /\ at[w] = "loops" /\ UNCHANGED <<main, i, pos, result, thread_res, A>>
    BY <1>4 DEF H!LoopTest, H!Goto
  <2>2. /\ at'[w] \in {"compares", "ended"}
        /\ at'[w] = "compares" => pos[w] < H!threadEnd(w)
        /\ at'[w] = "ended" /\ result = -1 => H!threadEnd(w) <= pos[w]
    BY <2>1, <1>3, HeapTyped
  <2>3. H!TypeOK'
    BY <2>1, <2>2 DEF HeapInv, H!TypeOK
  <2>4. HeapPhases'
    BY <1>1, <1>2, <2>1, <2>2 DEF HeapInv, HeapPhases
  <2>5. ThreadsSearch'
    BY <1>1, <1>2, <1>3, <2>1, <2>2 DEF HeapInv, ThreadsSearch, ThreadLabels
  <2> QED BY <1>1, <2>3, <2>4, <2>5 DEF HeapInv, ThreadsFound, ProcessesSearch, ProcessAt
<1>5. CASE H!NextElement(w)
  <2>1. /\ at' = [at EXCEPT ![w] = "loops"] /\ at[w] = "compares" /\ A[pos[w]] # Wanted
        /\ pos' = [pos EXCEPT ![w] = @ + (IF H!Skips(w) THEN 2 ELSE 1)]
        /\ UNCHANGED <<main, i, result, thread_res, A>>
    BY <1>5 DEF H!NextElement, H!Goto
  <2>2. /\ pos[w] \in H!Cells /\ pos'[w] = pos[w] + (IF H!Skips(w) THEN 2 ELSE 1)
        /\ pos'[w] \in 0 .. HeapCells + 1 /\ H!threadStart(w) <= pos'[w] /\ at'[w] = "loops"
    BY <1>3, <2>1, HeapTyped, HeapConstants DEF H!Cells
  <2>3. AllBelow(A) => pos'[w] = pos[w] + 1
    <3>1. AllBelow(A) => ~H!Skips(w)
      BY <2>2, HeapTyped, HeapConstants DEF AllBelow, H!Skips
    <3> QED BY <2>2, <3>1
  <2>4. H!TypeOK'
    <3>1. pos' \in [H!Workers -> 0 .. HeapCells + 1]
      BY <2>1, <2>2, HeapTyped
    <3> QED BY <2>1, <3>1 DEF HeapInv, H!TypeOK
  <2>5. HeapPhases'
    BY <1>1, <1>2, <2>1, <2>2 DEF HeapInv, HeapPhases
  <2>6. ASSUME AllBelow(A), result = -1, NEW k \in H!Cells, H!threadStart(w) <= k, k < pos'[w]
        PROVE  A[k] # Wanted
    <3>1. k < pos[w] \/ k = pos[w]
      BY <1>3, <2>3, <2>6, HeapTyped
    <3>2. k < pos[w] => A[k] # Wanted
      BY <1>1, <2>1, <2>6 DEF HeapInv, ThreadsSearch
    <3> QED BY <2>1, <3>1, <3>2
  <2>7. ThreadsSearch'
    BY <1>1, <1>2, <2>1, <2>2, <2>6 DEF HeapInv, ThreadsSearch, ThreadLabels
  <2> QED BY <1>1, <2>4, <2>5, <2>7 DEF HeapInv, ThreadsFound, ProcessesSearch, ProcessAt
<1> QED BY <1>4, <1>5

LEMMA ThreadStores ==
  ASSUME HeapInv, NEW w \in H!Workers, H!StoreMatch(w)
  PROVE  HeapInv'
<1>1. /\ at' = [at EXCEPT ![w] = "ended"] /\ at[w] = "compares" /\ A[pos[w]] = Wanted
      /\ result' = pos[w] /\ UNCHANGED <<main, i, pos, thread_res, A>>
  BY DEF H!StoreMatch, H!Goto
<1>2. main \in {"create", "join"}
  BY <1>1 DEF HeapInv, H!TypeOK, ProcessesSearch, ProcessAt, ProcessLabels
<1>3. pos[w] \in H!Cells /\ pos[w] # -1
  <2>1. pos[w] < H!threadEnd(w)
    BY <1>1, <1>2 DEF HeapInv, ThreadsSearch
  <2>2. pos[w] \in Nat /\ H!threadEnd(w) \in Int /\ H!threadEnd(w) <= HeapCells
    BY HeapTyped, ThreadSections
  <2> QED BY <2>1, <2>2, HeapConstants DEF H!Cells
<1>4. H!TypeOK'
  BY <1>1, <1>3 DEF HeapInv, H!TypeOK
<1>5. HeapPhases'
  BY <1>1, <1>2, HeapTyped DEF HeapInv, HeapPhases
<1>6. ThreadsSearch'
  BY <1>1, <1>2, <1>3, HeapTyped DEF HeapInv, ThreadsSearch, ThreadLabels
<1> QED BY <1>1, <1>2, <1>4, <1>5, <1>6 DEF HeapInv, ThreadsFound, ProcessesSearch, ProcessAt

-----------------------------------------------------------------------------
(* A step of a process. *)
LEMMA ProcessFinds ==
  ASSUME HeapInv, NEW w \in H!Workers, H!FindFirst(w)
  PROVE  HeapInv'
<1>1. at[w] = "searches" /\ UNCHANGED <<main, i, result, thread_res, A>>
  BY DEF H!FindFirst
<1>2. main \in {"fork", "wait", "done"}
  BY <1>1 DEF HeapInv, H!TypeOK, ThreadsSearch, ThreadLabels
<1>3. pos[w] = w * H!processSection /\ w \in 0 .. NUM_PROCESSES - 1 /\ main # "done"
  BY <1>1, <1>2, HeapWorkers, HeapConstants DEF HeapInv, ProcessesSearch, ProcessAt, HeapPhases, H!Idle
<1>4. /\ H!processEnd(w) \in 0 .. HeapCells /\ pos[w] \in Nat
  BY <1>3, ProcessSections, HeapTyped
<1>5. CASE H!Matches(w) = {}
  <2>1. at' = [at EXCEPT ![w] = "ended"] /\ pos' = pos
    BY <1>5 DEF H!FindFirst, H!Goto
  <2>2. ASSUME NEW k \in H!Cells, w * H!processSection <= k, k < H!processEnd(w)
        PROVE  A[k] # Wanted
    BY <1>3, <1>4, <1>5, <2>2, HeapTyped DEF H!Matches
  <2>3. H!TypeOK'
    BY <1>1, <2>1 DEF HeapInv, H!TypeOK
  <2>4. HeapPhases'
    BY <1>1, <1>2, <1>3, <2>1, HeapTyped DEF HeapInv, HeapPhases
  <2>5. ProcessesSearch'
    BY <1>1, <1>2, <1>3, <2>1, <2>2, HeapTyped DEF HeapInv, ProcessesSearch, ProcessAt, ProcessLabels
  <2> QED BY <1>1, <1>2, <2>3, <2>4, <2>5 DEF HeapInv, ThreadsSearch, ThreadsFound
<1>6. CASE H!Matches(w) # {}
  <2>1. PICK k \in H!Matches(w) : pos' = [pos EXCEPT ![w] = k]
    BY <1>6 DEF H!FindFirst
  <2>2. at' = [at EXCEPT ![w] = "checks"]
    BY <1>6 DEF H!FindFirst, H!Goto
  <2>3. k \in H!Cells /\ A[k] = Wanted /\ k \in 0 .. HeapCells + 1
    BY <1>4, <2>1, HeapConstants DEF H!Matches, H!Cells
  <2>4. H!TypeOK'
    BY <1>1, <2>1, <2>2, <2>3 DEF HeapInv, H!TypeOK
  <2>5. HeapPhases'
    BY <1>1, <1>2, <1>3, <2>2, HeapTyped DEF HeapInv, HeapPhases
  <2>6. ProcessesSearch'
    BY <1>1, <1>2, <1>3, <2>1, <2>2, <2>3, HeapTyped DEF HeapInv, ProcessesSearch, ProcessAt, ProcessLabels
  <2> QED BY <1>1, <1>2, <2>4, <2>5, <2>6 DEF HeapInv, ThreadsSearch, ThreadsFound
<1> QED BY <1>5, <1>6

LEMMA ProcessStores ==
  ASSUME HeapInv, NEW w \in H!Workers, H!CheckResult(w) \/ H!StoreResult(w)
  PROVE  HeapInv'
<1>1. /\ at[w] \in {"checks", "stores"} /\ UNCHANGED <<main, i, pos, thread_res, A>>
      /\ \/ at' = [at EXCEPT ![w] = "stores"] /\ result' = result
         \/ at' = [at EXCEPT ![w] = "ended"] /\ result' = result /\ result # -1
         \/ at' = [at EXCEPT ![w] = "ended"] /\ result' = pos[w]
  BY DEF H!CheckResult, H!StoreResult, H!Goto
<1>2. main \in {"fork", "wait", "done"}
  BY <1>1 DEF HeapInv, H!TypeOK, ThreadsSearch, ThreadLabels
<1>3. pos[w] \in H!Cells /\ A[pos[w]] = Wanted /\ pos[w] # -1 /\ main # "done" /\ w < NUM_PROCESSES
  BY <1>1, <1>2, HeapTyped DEF HeapInv, ProcessesSearch, ProcessAt, HeapPhases, H!Idle
<1>4. /\ at' \in [H!Workers -> ThreadLabels \union ProcessLabels]
      /\ at'[w] \in {"stores", "ended"} /\ \A v \in H!Workers : v # w => at'[v] = at[v]
      /\ result' = -1 => result = -1 /\ at'[w] # "ended"
      /\ result' \in {-1} \union H!Cells /\ (result' # -1 => A[result'] = Wanted)
  BY <1>1, <1>2, <1>3, HeapTyped DEF HeapInv, H!TypeOK, ProcessesSearch, ThreadLabels, ProcessLabels
<1>5. H!TypeOK'
  BY <1>1, <1>4 DEF HeapInv, H!TypeOK, ThreadLabels, ProcessLabels
<1>6. HeapPhases'
  BY <1>1, <1>2, <1>3, <1>4 DEF HeapInv, HeapPhases
<1>7. ProcessesSearch'
  BY <1>1, <1>2, <1>3, <1>4 DEF HeapInv, ProcessesSearch, ProcessAt, ProcessLabels
<1> QED BY <1>1, <1>2, <1>5, <1>6, <1>7 DEF HeapInv, ThreadsSearch, ThreadsFound

-----------------------------------------------------------------------------
(* main() *)
LEMMA CreatesThread ==
  ASSUME HeapInv, H!CreateThread
  PROVE  HeapInv'
<1>1. /\ main = "create" /\ i < NUM_THREADS /\ H!threadStart(i) < HeapCells
      /\ at' = [at EXCEPT ![i] = "loops"] /\ pos' = [pos EXCEPT ![i] = H!threadStart(i)]
      /\ i' = i + 1 /\ UNCHANGED <<main, result, thread_res, A>>
  BY DEF H!CreateThread
<1>2. i \in Nat /\ i \in H!Workers /\ i + 1 \in 0 .. NUM_THREADS
  BY <1>1, HeapWorkers, HeapConstants DEF HeapInv, H!TypeOK
<1>3. H!threadStart(i) \in 0 .. HeapCells + 1
  BY <1>1, <1>2, ThreadSections, HeapConstants
<1>4. H!TypeOK'
  BY <1>1, <1>2, <1>3, HeapConstants DEF HeapInv, H!TypeOK
<1>5. HeapPhases'
  BY <1>1, <1>2, HeapTyped, HeapConstants DEF HeapInv, HeapPhases
<1>6. /\ at'[i] = "loops" /\ pos'[i] = H!threadStart(i) /\ H!threadStart(i) \in Nat
      /\ \A v \in H!Workers : v # i => at'[v] = at[v] /\ pos'[v] = pos[v]
  BY <1>1, <1>2, <1>3, HeapTyped
<1>7. ASSUME NEW k \in H!Cells, H!threadStart(i) <= k, k < pos'[i] PROVE FALSE
  BY <1>6, <1>7, HeapTyped
<1>8. ThreadsSearch'
  BY <1>1, <1>2, <1>6, <1>7 DEF HeapInv, ThreadsSearch, ThreadLabels
<1> QED BY <1>1, <1>4, <1>5, <1>8 DEF HeapInv, ThreadsFound, ProcessesSearch, ProcessAt

(* Threads that were not created would have had nothing to search.          *)
LEMMA EndsCreation ==
  ASSUME HeapInv, H!EndCreation
  PROVE  HeapInv'
<1>1. /\ main = "create" /\ (i = NUM_THREADS \/ H!threadStart(i) >= HeapCells)
      /\ main' = "join" /\ UNCHANGED <<i, at, pos, result, thread_res, A>>
  BY DEF H!EndCreation
<1>2. ASSUME NEW w \in 0 .. NUM_THREADS - 1, H!threadStart(w) < HeapCells PROVE at[w] # "unborn"
  <2>1. w < i
    <3>1. SUFFICES ASSUME i <= w PROVE FALSE
      BY DEF HeapInv, H!TypeOK
    <3>2. i \in Nat /\ w \in Nat /\ i # NUM_THREADS
      BY <3>1, HeapConstants DEF HeapInv, H!TypeOK
    <3>3. H!threadStart(i) <= H!threadStart(w) /\ H!threadStart(i) \in Nat /\ H!threadStart(w) \in Nat
      BY <3>1, <3>2, ThreadSections
    <3> QED BY <1>1, <1>2, <3>2, <3>3, HeapConstants
  <2> QED BY <1>1, <2>1, HeapWorkers DEF HeapInv, HeapPhases
<1>3. H!TypeOK'
  BY <1>1 DEF HeapInv, H!TypeOK
<1>4. HeapPhases'
  BY <1>1, <1>2 DEF HeapInv, HeapPhases
<1> QED BY <1>1, <1>3, <1>4 DEF HeapInv, ThreadsSearch, ThreadsFound, ProcessesSearch, ProcessAt

(* All threads have ended: what they left is right if nothing was skipped.  *)
LEMMA JoinsThreads ==
  ASSUME HeapInv, H!JoinThreads
  PROVE  HeapInv'
<1>1. /\ main = "join" /\ H!Idle /\ thread_res' = result /\ result' = -1 /\ main' = "fork"
      /\ i' = 0 /\ at' = [w \in H!Workers |-> "unborn"] /\ UNCHANGED <<pos, A>>
  BY DEF H!JoinThreads
<1>2. H!TypeOK'
  BY <1>1, HeapConstants DEF HeapInv, H!TypeOK
<1>3. HeapPhases'
  BY <1>1, HeapConstants DEF HeapPhases
<1>4. result # -1 => A[result] = Wanted /\ result \in H!Cells
  BY <1>1 DEF HeapInv, ThreadsSearch, H!TypeOK
<1>5. ASSUME AllBelow(A), result = -1, NEW k \in H!Cells, A[k] = Wanted PROVE FALSE
  <2>1. PICK w \in 0 .. NUM_THREADS - 1 : H!threadStart(w) <= k /\ k < H!threadEnd(w)
    BY ThreadSections
  <2>2. w \in H!Workers /\ w \in Nat /\ H!threadStart(w) < HeapCells
    BY <2>1, HeapTyped, HeapWorkers, HeapConstants, ThreadSections
  <2>3. at[w] = "ended"
    BY <1>1, <2>2 DEF HeapInv, HeapPhases, H!Idle
  <2>4. H!threadEnd(w) <= pos[w]
    BY <1>1, <1>5, <2>2, <2>3 DEF HeapInv, ThreadsSearch
  <2>5. k < pos[w]
    BY <2>1, <2>2, <2>4, HeapTyped, ThreadSections
  <2> QED BY <1>1, <1>5, <2>1, <2>2, <2>3, <2>5 DEF HeapInv, ThreadsSearch
<1>6. ThreadsFound'
  BY <1>1, <1>4, <1>5 DEF ThreadsFound, AllBelow, Present
<1>7. ProcessesSearch'
  BY <1>1 DEF ProcessesSearch, ProcessAt, ProcessLabels
<1> QED BY <1>1, <1>2, <1>3, <1>6, <1>7 DEF HeapInv, ThreadsSearch

LEMMA ForksProcess ==
  ASSUME HeapInv, H!ForkProcess \/ H!ForkFails
  PROVE  HeapInv'
<1>1. /\ main = "fork" /\ i' = i + 1 /\ main' = (IF i + 1 = NUM_PROCESSES THEN "wait" ELSE "fork")
      /\ UNCHANGED <<result, thread_res, A>>
      /\ \/ at' = [at EXCEPT ![i] = "searches"] /\ pos' = [pos EXCEPT ![i] = i * H!processSection]
         \/ at' = at /\ pos' = pos
  BY DEF H!ForkProcess, H!ForkFails, H!ForkPass
<1>2. i \in 0 .. NUM_PROCESSES - 1 /\ i \in Nat /\ i \in H!Workers /\ i + 1 \in 0 .. NUM_PROCESSES
  BY <1>1, HeapWorkers, HeapConstants DEF HeapInv, H!TypeOK, HeapPhases
<1>3. i * H!processSection \in 0 .. HeapCells + 1
  <2>1. i * H!processSection \in 0 .. HeapCells
    BY <1>2, ProcessSections
  <2> QED BY <2>1, HeapConstants
<1>4. at[i] = "unborn"
  BY <1>1, <1>2 DEF HeapInv, HeapPhases
<1>5. /\ \A v \in H!Workers : v # i => at'[v] = at[v] /\ pos'[v] = pos[v]
      /\ at'[i] = "unborn" \/ (at'[i] = "searches" /\ pos'[i] = i * H!processSection)
  BY <1>1, <1>2, <1>4, HeapTyped
<1>6. H!TypeOK'
  <2>1. at' \in [H!Workers -> ThreadLabels \union ProcessLabels] /\ pos' \in [H!Workers -> 0 .. HeapCells + 1]
    BY <1>1, <1>2, <1>3, HeapTyped DEF ProcessLabels
  <2>2. i' \in 0 .. NUM_THREADS + NUM_PROCESSES
    BY <1>1, <1>2, HeapConstants
  <2> QED BY <1>1, <2>1, <2>2 DEF HeapInv, H!TypeOK, ThreadLabels, ProcessLabels
<1>7. HeapPhases'
  BY <1>1, <1>2, <1>5, HeapWorkers, HeapConstants DEF HeapInv, HeapPhases
<1>8. ProcessesSearch'
  <2>1. ASSUME NEW w \in H!Workers PROVE ProcessAt(w, at'[w], pos'[w])
    <3>1. CASE w = i
      <4>1. i < NUM_PROCESSES
        BY <1>2, HeapConstants
      <4>2. CASE at'[i] = "unborn"
        BY <3>1, <4>2 DEF ProcessAt, ProcessLabels
      <4>3. CASE at'[i] = "searches" /\ pos'[i] = i * H!processSection
        BY <3>1, <4>1, <4>3 DEF ProcessAt, ProcessLabels
      <4> QED BY <1>5, <4>2, <4>3
    <3>2. CASE w # i
      <4>1. ProcessAt(w, at[w], pos[w])
        BY <1>1 DEF HeapInv, ProcessesSearch
      <4>2. at'[w] = at[w] /\ pos'[w] = pos[w]
        BY <1>5, <3>2
      <4> QED BY ONLY <4>1, <4>2
    <3> QED BY <3>1, <3>2
  <2> QED BY <1>1, <2>1 DEF HeapInv, ProcessesSearch, ProcessAt
<1> QED BY <1>1, <1>6, <1>7, <1>8 DEF HeapInv, ThreadsSearch, ThreadsFound

LEMMA WaitsForProcesses ==
  ASSUME HeapInv, H!WaitForProcesses
  PROVE  HeapInv'
<1>1. /\ main = "wait" /\ main' = "done" /\ H!Idle
      /\ UNCHANGED <<i, at, pos, result, thread_res, A>>
  BY DEF H!WaitForProcesses
<1>2. H!TypeOK'
  BY <1>1 DEF HeapInv, H!TypeOK
<1>3. HeapPhases'
  BY <1>1 DEF HeapInv, HeapPhases, H!Idle
<1>4. ThreadsSearch' /\ ThreadsFound'
  BY <1>1 DEF HeapInv, ThreadsSearch, ThreadsFound
<1>5. ProcessesSearch'
  BY <1>1 DEF HeapInv, ProcessesSearch, ProcessAt
<1> QED BY <1>2, <1>3, <1>4, <1>5 DEF HeapInv

LEMMA HeapStep == HeapInv /\ H!Next => HeapInv'
  BY ThreadMoves, ThreadStores, ProcessFinds, ProcessStores, CreatesThread, EndsCreation, JoinsThreads,
     ForksProcess, WaitsForProcesses
     DEF H!Next, H!parent, H!searchMinHeapSection, H!search

LEMMA HeapAnswersRight == HeapInv => H!AnswersRight
<1> SUFFICES ASSUME HeapInv, main = "done"
             PROVE  /\ result # -1 => A[result] = Wanted
                    /\ (\A w \in 0 .. NUM_PROCESSES - 1 : at[w] = "ended") => (result # -1 <=> Present(A))
                    /\ thread_res # -1 => A[thread_res] = Wanted
                    /\ AllBelow(A) => (thread_res # -1 <=> Present(A))
                    /\ H!IsHeap => (H!findInMinHeap[0] <=> Present(A))
  BY DEF H!AnswersRight, H!Has, H!QinA, Present, AllBelow
<1>1. result # -1 => A[result] = Wanted /\ result \in H!Cells
  BY DEF HeapInv, ProcessesSearch, H!TypeOK
<1>2. ASSUME \A w \in 0 .. NUM_PROCESSES - 1 : at[w] = "ended", Present(A), result = -1
      PROVE  FALSE
  <2>1. PICK k \in H!Cells : A[k] = Wanted
    BY <1>2 DEF Present
  <2>2. PICK w \in 0 .. NUM_PROCESSES - 1 : w * H!processSection <= k /\ k < H!processEnd(w)
    BY ProcessSections
  <2> QED BY <1>2, <2>1, <2>2, HeapWorkers DEF HeapInv, ProcessesSearch, ProcessAt
<1>3. (thread_res # -1 => A[thread_res] = Wanted) /\ (AllBelow(A) => (thread_res # -1 <=> Present(A)))
  BY DEF HeapInv, ThreadsFound
<1>4. ASSUME H!IsHeap PROVE H!findInMinHeap[0] <=> Present(A)
  <2>1. 0 \in 0 .. 2 * HeapCells
    BY HeapConstants
  <2> QED BY <1>4, <2>1, HeapTyped, HeapFindsNothing, HeapFindsWanted
<1> QED BY <1>1, <1>2, <1>3, <1>4 DEF Present

USE ProgramsAssumption

-----------------------------------------------------------------------------
(***************************************************************************)
(* Crossing.                                                               *)
(***************************************************************************)
(* A car that is drawn has a number below the limit. *)
CarInv ==
  \A d \in Sources :
    at[d] \in {"lock", "lockprint", "print", "unlockprint", "cross"} => car[d] < CAR_COUNT_PER_SPAWNER

(* LogFollowsCars, for one direction: a log w, its lines ls, the spawner's   *)
(* car c with its movement m, and whether (p = 1) that car is announced.    *)
Before(ls, k) == {j \in ls : j < k}
Printed(label) == IF label \in {"unlockprint", "cross"} THEN 1 ELSE 0

Follows(w, ls, c, p, m) ==
  /\ Cardinality(ls) = c + p
  /\ \A k \in ls : /\ w[k].id = Cardinality(Before(ls, k))
                   /\ p = 1 /\ w[k].id = c => w[k].move = m

Following ==
  \A d \in Sources : Follows(log, X!LinesOf(d), car[d], Printed(at[d]), move[d])

LEMMA FollowsCars == X!LogFollowsCars <=> Following
<1>1. ASSUME NEW d \in Sources
      PROVE  /\ X!Cardinality(X!LinesOf(d)) = Cardinality(X!LinesOf(d))
             /\ \A k : X!Cardinality({j \in X!LinesOf(d) : j < k}) = Cardinality(Before(X!LinesOf(d), k))
  BY SameCardinality DEF Before
<1>2. ASSUME NEW d \in Sources
      PROVE  /\ (IF at[d] \in X!Announced THEN 1 ELSE 0) = Printed(at[d])
             /\ at[d] \in X!Announced <=> Printed(at[d]) = 1
  BY DEF Printed, X!Announced
<1> QED BY <1>1, <1>2 DEF X!LogFollowsCars, Follows, Following

CrossingInv == X!TypeOK /\ CarInv /\ Following

LEMMA CrossingInit == X!Init => CrossingInv
<1> SUFFICES ASSUME X!Init PROVE CrossingInv
  OBVIOUS
<1>1. X!TypeOK
  BY DEF ProgramsAssumption, X!CrossingAssumption, X!Init, X!TypeOK, X!Labels, X!Movement
<1>2. CarInv
  BY DEF X!Init, CarInv
<1>3. ASSUME NEW d \in Sources PROVE X!LinesOf(d) = {}
  BY DEF X!Init, X!LinesOf
<1>4. Cardinality({}) = 0
  BY FS_EmptySet
<1>5. ASSUME NEW d \in Sources
      PROVE  Follows(log, X!LinesOf(d), car[d], Printed(at[d]), move[d])
  <2>1. car[d] = 0 /\ Printed(at[d]) = 0
    BY DEF X!Init, Printed
  <2> QED BY <1>3, <1>4, <2>1 DEF Follows
<1> QED BY <1>1, <1>2, <1>5 DEF CrossingInv, Following

(* The steps of a spawner that print nothing and finish no car. *)
Quiet(d) ==
  \/ X!CreateSpawner(d) \/ X!DrawMovement(d) \/ X!LockDirection(d) \/ X!LockPrint(d)
  \/ X!UnlockPrint(d) \/ X!SpawnerReturns(d)

LEMMA CrossingQuiet ==
  ASSUME CrossingInv, NEW d \in Sources, Quiet(d)
  PROVE  CrossingInv'
<1> USE DEF Quiet, X!CreateSpawner, X!DrawMovement, X!LockDirection, X!LockPrint,
            X!UnlockPrint, X!SpawnerReturns, X!Goto, X!locks
<1>1. X!TypeOK'
  BY DEF CrossingInv, X!TypeOK, X!Labels
<1>2. CarInv'
  BY DEF ProgramsAssumption, X!CrossingAssumption, CrossingInv, X!TypeOK, CarInv
<1>3. Following'
  <2>1. log' = log /\ car' = car /\ \A e \in Sources : X!LinesOf(e)' = X!LinesOf(e)
    BY DEF X!LinesOf
  <2>2. ASSUME NEW e \in Sources
        PROVE  Printed(at'[e]) = Printed(at[e]) /\ (Printed(at[e]) = 1 => move'[e] = move[e])
    BY DEF CrossingInv, X!TypeOK, Printed
  <2>3. ASSUME NEW e \in Sources
        PROVE  Follows(log, X!LinesOf(e), car[e], Printed(at'[e]), move'[e])
    <3>1. Follows(log, X!LinesOf(e), car[e], Printed(at[e]), move[e])
      BY DEF CrossingInv, Following
    <3> QED BY <2>2, <3>1 DEF Follows
  <2> QED BY <2>1, <2>3 DEF Following
<1> QED BY <1>1, <1>2, <1>3 DEF CrossingInv

(* A car is announced: the next line of its direction. *)
LEMMA CrossingPrints ==
  ASSUME CrossingInv, NEW d \in Sources, X!PrintMessage(d)
  PROVE  CrossingInv'
<1> DEFINE line == [id |-> car[d], from |-> d, move |-> move[d]]
<1>0. /\ at[d] = "print" /\ at' = [at EXCEPT ![d] = "unlockprint"] /\ log' = Append(log, line)
      /\ UNCHANGED <<main, dir_mutex, print_mutex, car, move>>
  BY DEF X!PrintMessage, X!Goto, X!locks
<1>1. line \in X!Announcement /\ line.from = d /\ line.id = car[d] /\ line.move = move[d]
  BY <1>0 DEF CrossingInv, X!TypeOK, CarInv, X!Announcement, ProgramsAssumption, X!CrossingAssumption
<1> HIDE DEF line
<1>2. X!TypeOK'
  BY <1>0, <1>1 DEF CrossingInv, X!TypeOK, X!Labels
<1>3. CarInv'
  BY <1>0 DEF CrossingInv, CarInv, X!TypeOK
<1>4. /\ log \in Seq(X!Announcement) /\ Len(log) \in Nat
      /\ DOMAIN log = 1 .. Len(log) /\ DOMAIN log' = 1 .. Len(log) + 1
      /\ log'[Len(log) + 1] = line /\ \A k \in 1 .. Len(log) : log'[k] = log[k]
  BY <1>0, <1>1 DEF CrossingInv, X!TypeOK
<1>5. ASSUME NEW e \in Sources
      PROVE  Follows(log', X!LinesOf(e)', car'[e], Printed(at'[e]), move'[e])
  <2> DEFINE ls == X!LinesOf(e)
  <2>1. IsFiniteSet(ls) /\ ls \subseteq 1 .. Len(log) /\ Cardinality(ls) \in Nat
    <3>1. ls \subseteq 1 .. Len(log)
      BY <1>4 DEF X!LinesOf
    <3>2. Len(log) \in Int
      BY <1>4
    <3>3. IsFiniteSet(1 .. Len(log))
      BY <3>2, FS_Interval
    <3> QED BY <3>1, <3>3, FS_Subset, FS_CardinalityType
  <2>2. Follows(log, ls, car[e], Printed(at[e]), move[e])
    BY DEF CrossingInv, Following
  <2>3. CASE e # d
    <3>1. ls' = ls
      BY <1>1, <1>4, <2>3 DEF X!LinesOf
    <3>2. at'[e] = at[e] /\ \A k \in ls : log'[k] = log[k]
      BY <1>0, <1>4, <2>1, <2>3 DEF CrossingInv, X!TypeOK
    <3> QED BY <1>0, <2>2, <3>1, <3>2 DEF Follows
  <2>4. CASE e = d
    <3>1. ls' = ls \union {Len(log) + 1}
      BY <1>1, <1>4, <2>4 DEF X!LinesOf
    <3>2. Len(log) + 1 \notin ls
      BY <1>4, <2>1
    <3>3. at'[e] = "unlockprint" /\ car'[e] = car[d] /\ move'[e] = move[d] /\ car[d] \in Nat
      BY <1>0, <2>4 DEF CrossingInv, X!TypeOK
    <3>4. Cardinality(ls') = car[d] + 1 /\ Cardinality(ls) = car[d]
      BY <1>0, <2>1, <2>2, <2>4, <3>1, <3>2, <3>3, OneMore DEF Follows, Printed
    <3>5. ASSUME NEW k \in ls
          PROVE  /\ log'[k].id = Cardinality(Before(ls', k))
                 /\ log'[k].id # car[d]
      <4>1. Before(ls', k) = Before(ls, k)
        BY <1>4, <2>1, <3>1 DEF Before
      <4>2. log'[k].id = Cardinality(Before(ls, k))
        BY <1>4, <2>1, <2>2 DEF Follows
      <4>3. Cardinality(Before(ls, k)) < Cardinality(ls)
        <5>1. Before(ls, k) \subseteq ls /\ k \notin Before(ls, k)
          BY <1>4, <2>1 DEF Before
        <5>2. Before(ls, k) # ls
          BY <5>1
        <5>3. /\ Cardinality(Before(ls, k)) <= Cardinality(ls)
              /\ Cardinality(Before(ls, k)) # Cardinality(ls)
              /\ Cardinality(Before(ls, k)) \in Nat
          BY <2>1, <5>1, <5>2, FS_Subset, FS_CardinalityType
        <5> QED BY <2>1, <5>3
      <4>4. Cardinality(Before(ls, k)) # car[d]
        BY <3>4, <4>3, <3>3
      <4> QED BY <4>1, <4>2, <4>4
    <3>6. log'[Len(log) + 1].id = Cardinality(Before(ls', Len(log) + 1))
      <4>1. \A j \in ls : j < Len(log) + 1
        BY <1>4, <2>1
      <4>2. Before(ls', Len(log) + 1) = ls
        BY <1>4, <3>1, <4>1 DEF Before
      <4> QED BY <1>1, <1>4, <3>4, <4>2
    <3>7. log'[Len(log) + 1].move = move[d]
      BY <1>1, <1>4
    <3> QED BY <3>1, <3>3, <3>4, <3>5, <3>6, <3>7 DEF Follows, Printed
  <2> QED BY <2>3, <2>4
<1> QED BY <1>2, <1>3, <1>5 DEF CrossingInv, Following

(* It leaves, and the next one has the next number. *)
LEMMA CrossingLeaves ==
  ASSUME CrossingInv, NEW d \in Sources, X!LeaveIntersection(d)
  PROVE  CrossingInv'
<1>0. /\ at[d] = "cross" /\ at' = [at EXCEPT ![d] = "draw"]
      /\ dir_mutex' = [dir_mutex EXCEPT ![d] = NoThread] /\ car' = [car EXCEPT ![d] = @ + 1]
      /\ UNCHANGED <<main, print_mutex, move, log>>
  BY DEF X!LeaveIntersection, X!Goto
<1>1. car[d] + 1 \in 0 .. CAR_COUNT_PER_SPAWNER
  BY <1>0 DEF CrossingInv, X!TypeOK, CarInv, ProgramsAssumption, X!CrossingAssumption
<1>2. X!TypeOK'
  BY <1>0, <1>1 DEF CrossingInv, X!TypeOK, X!Labels
<1>3. CarInv'
  BY <1>0 DEF CrossingInv, CarInv, X!TypeOK
<1>4. ASSUME NEW e \in Sources
      PROVE  Follows(log', X!LinesOf(e)', car'[e], Printed(at'[e]), move'[e])
  <2>1. X!LinesOf(e)' = X!LinesOf(e)
    BY <1>0 DEF X!LinesOf
  <2>2. Follows(log, X!LinesOf(e), car[e], Printed(at[e]), move[e])
    BY DEF CrossingInv, Following
  <2>3. CASE e = d
    <3>1. at'[e] = "draw" /\ car'[e] = car[e] + 1 /\ at[e] = "cross" /\ car[e] \in Nat
      BY <1>0, <2>3 DEF CrossingInv, X!TypeOK
    <3> QED BY <1>0, <2>1, <2>2, <3>1 DEF Follows, Printed
  <2>4. CASE e # d
    <3>1. at'[e] = at[e] /\ car'[e] = car[e]
      BY <1>0, <2>4 DEF CrossingInv, X!TypeOK
    <3> QED BY <1>0, <2>1, <2>2, <3>1 DEF Follows
  <2> QED BY <2>3, <2>4
<1> QED BY <1>2, <1>3, <1>4 DEF CrossingInv, Following

LEMMA CrossingStep ==
  ASSUME CrossingInv, X!Next
  PROVE  CrossingInv'
<1>1. ASSUME NEW d \in Sources, X!CreateSpawner(d) \/ X!car_spawner(d)
      PROVE  CrossingInv'
  BY <1>1, CrossingQuiet, CrossingPrints, CrossingLeaves DEF X!car_spawner, X!safe_print, Quiet
<1>2. CASE X!JoinAndDestroy
  <2>1. UNCHANGED <<dir_mutex, print_mutex, at, car, move, log>> /\ main' = "destroyed"
    BY <1>2 DEF X!JoinAndDestroy, X!locks
  <2>2. X!TypeOK'
    BY <2>1 DEF CrossingInv, X!TypeOK
  <2>3. \A d \in Sources : X!LinesOf(d)' = X!LinesOf(d)
    BY <2>1 DEF X!LinesOf
  <2> QED BY <2>1, <2>2, <2>3 DEF CrossingInv, CarInv, Following
<1> QED BY <1>1, <1>2 DEF X!Next

-----------------------------------------------------------------------------
(***************************************************************************)
(* Download.                                                               *)
(***************************************************************************)
(* The line that begins at s is still ahead, behind the newline of another. *)
AheadAt(s, j) == buffered[j] = s /\ (j = 1 \/ buffered[j - 1] \in Newlines)

(* The children are numbered in the order of their start. *)
ChildrenNumbered == \A k \in D!Kids : k >= num_urls => url[k] = <<>> /\ at[k] = "unborn"

(* The next read() starts behind what main() has read last or before it: a  *)
(* place in the buffer is followed by the next one, or by an earlier one.   *)
NeverAhead ==
  /\ buffered # <<>> => offset <= buffered[Len(buffered)]
  /\ \A j \in 1 .. Len(buffered) - 1 :
       buffered[j + 1] = buffered[j] + 1 \/ buffered[j + 1] <= buffered[j]

(* A line that begins before a place in the buffer has a child or is ahead  *)
(* of that place in the buffer; one that begins before the offset has a     *)
(* child or is in the buffer, whoever moved the offset.                     *)
FileCovered ==
  main = "reads" =>
    /\ \A j \in DOMAIN buffered : \A s \in D!Starts :
         s <= buffered[j] => D!HasChild(s) \/ \E m \in 1 .. j : AheadAt(s, m)
    /\ \A s \in D!Starts :
         s <= offset => D!HasChild(s) \/ \E m \in DOMAIN buffered : AheadAt(s, m)

DownloadInv ==
  /\ D!TypeOK /\ ChildrenNumbered /\ NeverAhead /\ FileCovered
  /\ \A k \in D!Kids : \A j \in DOMAIN url[k] : \A s \in D!Starts : s <= url[k][j] => D!HasChild(s)
  /\ main \in {"waits", "done"} /\ num_urls < MAX_URLS => \A s \in D!Starts : D!HasChild(s)

LEMMA DownloadInit == D!Init => DownloadInv
<1> SUFFICES ASSUME D!Init PROVE DownloadInv
  OBVIOUS
<1>1. D!TypeOK
  BY DEF ProgramsAssumption, D!DownloadAssumption, D!Init, D!TypeOK
<1>2. D!Starts \subseteq D!Chars /\ ~\E s \in D!Chars : s <= 0
  BY DEF D!Starts, D!Chars
<1> QED BY <1>1, <1>2 DEF D!Init, DownloadInv, ChildrenNumbered, NeverAhead, FileCovered

(* What a line taken from the buffer leaves in it. *)
LEMMA BufferTyped ==
  ASSUME DownloadInv
  PROVE  /\ buffered \in Seq(D!Chars) /\ Len(buffered) \in Nat
         /\ DOMAIN buffered = 1 .. Len(buffered)
         /\ \A j \in 1 .. Len(buffered) : buffered[j] \in D!Chars /\ buffered[j] \in Nat /\ buffered[j] >= 1
  BY DEF DownloadInv, D!TypeOK, D!Chars, ProgramsAssumption, D!DownloadAssumption

LEMMA SplitBuffer ==
  ASSUME DownloadInv, NEW n \in DOMAIN buffered
  PROVE  /\ n \in Nat /\ n >= 1 /\ n <= Len(buffered) /\ Len(buffered) - n \in Nat
         /\ SubSeq(buffered, 1, n) \in Seq(D!Chars) /\ DOMAIN SubSeq(buffered, 1, n) = 1 .. n
         /\ Len(SubSeq(buffered, 1, n)) = n
         /\ \A j \in 1 .. n : SubSeq(buffered, 1, n)[j] = buffered[j]
         /\ LET rest == SubSeq(buffered, n + 1, Len(buffered)) IN
              /\ rest \in Seq(D!Chars) /\ Len(rest) = Len(buffered) - n
              /\ DOMAIN rest = 1 .. Len(buffered) - n
              /\ \A j \in 1 .. Len(buffered) - n : rest[j] = buffered[n + j]
<1>1. buffered \in Seq(D!Chars) /\ n \in 1 .. Len(buffered) /\ Len(buffered) \in Nat
  BY BufferTyped
<1>2. /\ SubSeq(buffered, 1, n) \in Seq(D!Chars) /\ Len(SubSeq(buffered, 1, n)) = n
      /\ \A j \in 1 .. n : SubSeq(buffered, 1, n)[j] = buffered[j]
  BY <1>1
<1> DEFINE rest == SubSeq(buffered, n + 1, Len(buffered))
<1>3. /\ rest \in Seq(D!Chars) /\ Len(rest) = Len(buffered) - n
      /\ \A j \in 1 .. Len(buffered) - n : rest[j] = buffered[n + j]
  BY <1>1
<1>4. n \in Nat /\ n >= 1 /\ n <= Len(buffered) /\ Len(buffered) - n \in Nat
  BY <1>1
<1>5. DOMAIN rest = 1 .. Len(buffered) - n
  <2> HIDE DEF rest
  <2> QED BY <1>3
<1>6. DOMAIN SubSeq(buffered, 1, n) = 1 .. n
  BY <1>2
<1> QED BY <1>2, <1>3, <1>4, <1>5, <1>6

(* The characters a read() appends. *)
LEMMA FilledBuffer ==
  ASSUME DownloadInv, D!FillBuffer
  PROVE  \E n \in Nat : LET len == Len(buffered) IN
           /\ offset + n <= NumChars /\ offset' = offset + n
           /\ buffered \in Seq(D!Chars) /\ len \in Nat /\ offset \in Nat /\ NumChars \in Nat
           /\ buffered' \in Seq(D!Chars) /\ Len(buffered') = len + n
           /\ \A j \in 1 .. len : buffered'[j] = buffered[j]
           /\ \A j \in 1 .. n : buffered'[len + j] = offset + j
           /\ n >= 1
<1> USE DEF ProgramsAssumption, D!DownloadAssumption, D!Chars
<1> DEFINE n == IF offset + BlockSize < NumChars THEN BlockSize ELSE NumChars - offset
           block == [j \in 1 .. n |-> offset + j]
<1>1. /\ n \in Nat /\ n >= 1 /\ offset + n <= NumChars /\ offset \in Nat /\ NumChars \in Nat
      /\ buffered \in Seq(1 .. NumChars) /\ Len(buffered) \in Nat
  BY DEF DownloadInv, D!TypeOK, D!FillBuffer
<1>2. buffered' = buffered \o block /\ offset' = offset + n
  BY DEF D!FillBuffer
<1> HIDE DEF n
<1>3. \A j \in 1 .. n : offset + j \in 1 .. NumChars
  BY <1>1
<1>4. block \in Seq(1 .. NumChars) /\ Len(block) = n
  BY <1>1, <1>3
<1>5. buffered' \in Seq(1 .. NumChars) /\ Len(buffered') = Len(buffered) + n
  BY <1>1, <1>2, <1>4
<1>6. \A j \in 1 .. Len(buffered) : buffered'[j] = buffered[j]
  BY <1>1, <1>2, <1>4
<1>7. ASSUME NEW j \in 1 .. n PROVE buffered'[Len(buffered) + j] = offset + j
  <2>1. Len(buffered) + j \in 1 .. Len(buffered) + n /\ ~(Len(buffered) + j <= Len(buffered))
        /\ (Len(buffered) + j) - Len(buffered) = j
    BY <1>1
  <2>2. (buffered \o block)[Len(buffered) + j] = block[j]
    BY <1>1, <1>4, <2>1
  <2> QED BY <1>2, <2>2
<1> QED BY <1>1, <1>2, <1>5, <1>6, <1>7

LEMMA DownloadTypes ==
  ASSUME DownloadInv, D!Next
  PROVE  D!TypeOK'
<1> USE DEF ProgramsAssumption, D!DownloadAssumption, D!TypeOK
<1>1. CASE D!FillBuffer
  <2>1. PICK n \in Nat : /\ offset + n <= NumChars /\ offset' = offset + n
                         /\ offset \in Nat /\ NumChars \in Nat /\ buffered' \in Seq(D!Chars)
    BY <1>1, FilledBuffer
  <2>2. offset' \in 0 .. NumChars
    BY <2>1
  <2> QED BY <1>1, <2>1, <2>2 DEF D!FillBuffer, DownloadInv
<1>2. CASE D!ForkChild
  <2>1. PICK n \in DOMAIN buffered : D!TakeLine(n) /\ D!ForkFor(n)
    BY <1>2 DEF D!ForkChild
  <2>2. num_urls + 1 \in 0 .. MAX_URLS /\ num_urls \in D!Kids
    <3>1. num_urls \in 0 .. MAX_URLS /\ num_urls < MAX_URLS /\ MAX_URLS \in Nat
      BY <2>1 DEF D!ForkFor, DownloadInv
    <3> QED BY <3>1 DEF D!Kids
  <2>3. /\ Len(buffered) - n \in Nat /\ SubSeq(buffered, 1, n) \in Seq(D!Chars)
        /\ SubSeq(buffered, n + 1, Len(buffered)) \in Seq(D!Chars)
    BY SplitBuffer
  <2> QED BY <2>1, <2>2, <2>3 DEF D!TakeLine, D!ForkFor, DownloadInv
<1>3. CASE D!ForkFails \/ D!LimitReached
  <2>1. PICK n \in DOMAIN buffered : D!TakeLine(n)
    BY <1>3 DEF D!ForkFails, D!LimitReached
  <2>2. buffered' \in Seq(D!Chars)
    BY <2>1, SplitBuffer DEF D!TakeLine
  <2> QED BY <1>3, <2>2 DEF D!ForkFails, D!LimitReached, DownloadInv
<1>4. CASE D!EndOfFile \/ D!WaitForAll
  BY <1>4 DEF D!EndOfFile, D!WaitForAll, DownloadInv
<1>5. ASSUME NEW k \in D!Kids, D!ChildExits(k) PROVE D!TypeOK'
  <2>1. unread[k] \in Nat /\ offset \in 0 .. NumChars
    BY DEF DownloadInv
  <2>2. offset' \in 0 .. NumChars
    BY <1>5, <2>1 DEF D!ChildExits
  <2> QED BY <1>5, <2>2 DEF D!ChildExits, DownloadInv
<1> QED BY <1>1, <1>2, <1>3, <1>4, <1>5 DEF D!Next, D!parent

(* Places that follow each other are counted from the first of them. *)
LEMMA ConsecutivePlaces ==
  ASSUME NEW u, NEW n \in Nat, \A j \in 1 .. n : u[j] \in Nat,
         \A j \in 1 .. n - 1 : u[j + 1] = u[j] + 1
  PROVE  \A j \in 1 .. n : u[j] = u[1] + j - 1
<1> SUFFICES ASSUME NEW b \in 1 .. n, u[b] # u[1] + b - 1 PROVE FALSE
  OBVIOUS
<1>1. PICK m \in 1 .. n : u[m] # u[1] + m - 1 /\ \A j \in 1 .. n : u[j] # u[1] + j - 1 => m <= j
  <2> DEFINE Bad == {j \in 1 .. n : u[j] # u[1] + j - 1}
  <2>1. Bad \subseteq Nat
    OBVIOUS
  <2>2. b \in Bad
    OBVIOUS
  <2>3. PICK m \in Bad : \A j \in Bad : m <= j
    <3> HIDE DEF Bad
    <3> QED BY <2>1, <2>2, SmallestOf
  <2> QED BY <2>3
<1>2. m # 1 /\ 1 \in 1 .. n
  BY <1>1
<1>3. m - 1 \in 1 .. n - 1 /\ m - 1 \in 1 .. n /\ (m - 1) + 1 = m /\ ~(m <= m - 1) /\ m \in Nat
  BY <1>2
<1>4. u[m - 1] = u[1] + (m - 1) - 1 /\ u[m - 1] \in Nat /\ u[1] \in Nat
  BY <1>1, <1>2, <1>3
<1>5. u[m] = u[m - 1] + 1
  BY <1>3
<1> QED BY <1>1, <1>3, <1>4, <1>5

(* A place less than n behind the first is one of them. *)
LEMMA PlaceWithin ==
  ASSUME NEW first \in Nat, NEW e \in Nat, NEW n \in Nat, first <= e, e < first + n
  PROVE  e - first + 1 \in 1 .. n /\ first + (e - first + 1) - 1 = e
  OBVIOUS

(* A line taken is the address that begins where it begins, or it is torn.  *)
LEMMA LineIsAddress ==
  ASSUME DownloadInv, NEW n \in DOMAIN buffered, D!EndsLine(n),
         NEW u, u = SubSeq(buffered, 1, n)
  PROVE  D!Whole(u) \/ D!Torn(u)
<1> SUFFICES ASSUME ~D!Torn(u) PROVE D!Whole(u)
  OBVIOUS
<1>1. /\ n \in Nat /\ n >= 1 /\ n <= Len(buffered) /\ Len(u) = n /\ DOMAIN u = 1 .. n
      /\ Len(buffered) \in Nat
      /\ \A j \in 1 .. n : u[j] = buffered[j] /\ u[j] \in Nat /\ u[j] \in D!Chars
  BY SplitBuffer, BufferTyped
<1>2. ASSUME NEW j \in 1 .. n - 1 PROVE u[j + 1] = u[j] + 1
  <2>1. j \in 1 .. Len(buffered) - 1 /\ j \in 1 .. n /\ j + 1 \in 1 .. n /\ j \in 1 .. Len(u) - 1
    BY <1>1
  <2>2. buffered[j + 1] = buffered[j] + 1 \/ buffered[j + 1] <= buffered[j]
    BY <2>1 DEF DownloadInv, NeverAhead
  <2>3. ~(u[j + 1] <= u[j])
    BY <2>1 DEF D!Torn
  <2> QED BY <1>1, <2>1, <2>2, <2>3
<1>3. \A j \in 1 .. n : u[j] = u[1] + j - 1
  <2>1. \A j \in 1 .. n : u[j] \in Nat
    BY <1>1
  <2> QED BY <1>1, <1>2, <2>1, ConsecutivePlaces
<1>4. \A j \in 1 .. n - 1 : u[j] \notin Newlines
  BY <1>1 DEF D!EndsLine
<1>5. u[n] \in Newlines
  <2> SUFFICES ASSUME n = URL_SIZE PROVE u[n] \in Newlines
    BY <1>1 DEF D!EndsLine
  <2>0. u[1] \in D!Chars /\ u[1] \in Nat
    BY <1>1
  <2>1. PICK e \in Newlines : u[1] <= e /\ e < u[1] + n
    BY <2>0 DEF ProgramsAssumption, D!DownloadAssumption
  <2>2. e \in Nat
    BY <2>1 DEF ProgramsAssumption, D!DownloadAssumption, D!Chars
  <2>3. e - u[1] + 1 \in 1 .. n /\ u[1] + (e - u[1] + 1) - 1 = e
    BY <1>1, <2>0, <2>1, <2>2, PlaceWithin
  <2>4. u[e - u[1] + 1] = e
    BY <1>3, <2>3
  <2>5. e - u[1] + 1 \notin 1 .. n - 1
    BY <1>4, <2>1, <2>4
  <2>6. \A x \in 1 .. n : x \notin 1 .. n - 1 => x = n
    BY <1>1
  <2> QED BY <2>1, <2>3, <2>4, <2>5, <2>6
<1> QED BY <1>1, <1>3, <1>4, <1>5 DEF D!Whole

(* A child that is forked leaves the addresses of the earlier ones, *)
LEMMA ChildrenStay ==
  ASSUME DownloadInv, D!ForkChild, NEW s, D!HasChild(s)
  PROVE  D!HasChild(s)'
<1>1. PICK k \in D!Kids : url[k] # <<>> /\ url[k][1] = s /\ (D!Whole(url[k]) \/ D!Torn(url[k]))
  BY DEF D!HasChild
<1>2. url'[k] = url[k]
  <2>1. ~(k >= num_urls)
    BY <1>1 DEF DownloadInv, ChildrenNumbered
  <2>2. k # num_urls
    BY <2>1 DEF DownloadInv, D!TypeOK
  <2> QED BY <2>2 DEF D!ForkChild, D!ForkFor, DownloadInv, D!TypeOK
<1>3. D!Kids' = D!Kids
  BY DEF D!Kids
<1>4. D!Whole(url'[k]) \/ D!Torn(url'[k])
  BY <1>1, <1>2
<1> QED BY <1>1, <1>2, <1>4 DEF D!HasChild, D!Whole, D!Torn

(* and has the line that was first in the buffer. *)
LEMMA ChildForFirst ==
  ASSUME DownloadInv, NEW n \in DOMAIN buffered, D!TakeLine(n), D!ForkFor(n), NEW s, s = buffered[1]
  PROVE  /\ num_urls \in D!Kids
         /\ url' = [url EXCEPT ![num_urls] = SubSeq(buffered, 1, n)]
         /\ D!HasChild(s)'
<1> DEFINE u == SubSeq(buffered, 1, n)
<1>1. num_urls \in D!Kids /\ url' = [url EXCEPT ![num_urls] = u]
  BY DEF D!ForkFor, DownloadInv, D!TypeOK, D!Kids, ProgramsAssumption, D!DownloadAssumption
<1>2. url'[num_urls] = u
  BY <1>1 DEF DownloadInv, D!TypeOK
<1>3. D!Whole(u) \/ D!Torn(u)
  BY LineIsAddress DEF D!TakeLine
<1>4. u # <<>> /\ u[1] = s
  <2>1. Len(u) = n /\ n >= 1 /\ n \in Nat /\ (1 \in 1 .. n => u[1] = buffered[1])
    BY SplitBuffer
  <2> HIDE DEF u
  <2> QED BY <2>1
<1>5. D!HasChild(s)'
  <2> HIDE DEF u
  <2> QED BY <1>1, <1>2, <1>3, <1>4 DEF D!HasChild, D!Whole, D!Torn
<1> QED BY <1>1, <1>5

LEMMA DownloadFills ==
  ASSUME DownloadInv, D!FillBuffer
  PROVE  NeverAhead' /\ FileCovered'
<1> DEFINE len == Len(buffered)
<1>1. PICK n \in Nat :
        /\ offset + n <= NumChars /\ offset' = offset + n
        /\ buffered \in Seq(D!Chars) /\ len \in Nat /\ offset \in Nat /\ NumChars \in Nat
        /\ buffered' \in Seq(D!Chars) /\ Len(buffered') = len + n
        /\ \A j \in 1 .. len : buffered'[j] = buffered[j]
        /\ \A j \in 1 .. n : buffered'[len + j] = offset + j
        /\ n >= 1
  BY FilledBuffer
<1>2. /\ main = "reads" /\ main' = "reads" /\ url' = url
      /\ \A j \in 1 .. len : buffered[j] \notin Newlines /\ buffered[j] \in Nat
  BY <1>1 DEF D!FillBuffer, D!HasLine, D!Chars
<1>3. DOMAIN buffered = 1 .. len /\ DOMAIN buffered' = 1 .. len + n /\ (len = 0 => buffered = <<>>)
  BY <1>1
<1>4. \A s : D!HasChild(s)' <=> D!HasChild(s)
  BY <1>2 DEF D!HasChild, D!Whole, D!Torn
<1> HIDE DEF len
<1>5. len # 0 => offset <= buffered[len]
  BY <1>1, <1>3 DEF DownloadInv, NeverAhead, len
<1>6. NeverAhead'
  <2>1. buffered'[len + n] = offset + n
    BY <1>1
  <2>2. ASSUME NEW j \in 1 .. (len + n) - 1
        PROVE  buffered'[j + 1] = buffered'[j] + 1 \/ buffered'[j + 1] <= buffered'[j]
    <3>1. CASE j < len
      BY <1>1, <3>1 DEF DownloadInv, NeverAhead, len
    <3>2. CASE j = len
      <4>1. len # 0 /\ len \in 1 .. len /\ 1 \in 1 .. n
        BY <1>1, <3>2
      <4>2. buffered'[j] = buffered[len] /\ buffered'[j + 1] = offset + 1
        BY <1>1, <3>2, <4>1
      <4>3. offset <= buffered[len] /\ buffered[len] \in Nat
        BY <1>2, <1>5, <4>1
      <4> QED BY <1>1, <4>2, <4>3
    <3>3. CASE j > len
      <4>1. j - len \in 1 .. n /\ (j - len) + 1 \in 1 .. n /\ len + (j - len) = j
            /\ len + ((j - len) + 1) = j + 1
        BY <1>1, <3>3
      <4>2. buffered'[j] = offset + (j - len) /\ buffered'[j + 1] = offset + ((j - len) + 1)
        BY <1>1, <4>1
      <4> QED BY <1>1, <4>1, <4>2
    <3> QED BY <1>1, <3>1, <3>2, <3>3
  <2> QED BY <1>1, <2>1, <2>2 DEF NeverAhead
<1>7. ASSUME NEW s \in D!Starts, s <= offset + n
      PROVE  \/ D!HasChild(s)
             \/ \E m \in 1 .. len + n : AheadAt(s, m)' /\ (m <= len \/ (s > offset /\ m = len + (s - offset)))
  <2>0. s \in Nat /\ s >= 1 /\ (s = 1 \/ s - 1 \in Newlines)
    BY DEF D!Starts, D!Chars
  <2>1. ASSUME NEW m \in 1 .. len, AheadAt(s, m) PROVE AheadAt(s, m)'
    BY <1>1, <2>1 DEF AheadAt
  <2>2. CASE s <= offset
    <3>1. D!HasChild(s) \/ \E m \in 1 .. len : AheadAt(s, m)
      BY <1>2, <1>3, <2>2 DEF DownloadInv, FileCovered
    <3> QED BY <1>1, <2>1, <3>1
  <2>3. CASE s > offset /\ (len = 0 \/ s # offset + 1)
    <3>1. s - offset \in 1 .. n /\ offset + (s - offset) = s
          /\ len + (s - offset) \in 1 .. len + n
      BY <1>1, <1>7, <2>0, <2>3
    <3>2. PICK m \in 1 .. len + n : m = len + (s - offset)
      BY <3>1
    <3>3. buffered'[m] = s
      BY <1>1, <3>1, <3>2
    <3>4. m = 1 \/ buffered'[m - 1] \in Newlines
      <4>1. CASE s = offset + 1
        BY <1>1, <2>3, <3>2, <4>1
      <4>2. CASE s # offset + 1
        <5>1. (s - offset) - 1 \in 1 .. n /\ offset + ((s - offset) - 1) = s - 1
              /\ len + ((s - offset) - 1) = m - 1
          BY <1>1, <2>0, <2>3, <3>1, <3>2, <4>2
        <5>2. buffered'[m - 1] = s - 1
          BY <1>1, <5>1
        <5>3. s # 1
          BY <1>1, <2>0, <2>3, <4>2
        <5> QED BY <2>0, <5>2, <5>3
      <4> QED BY <4>1, <4>2
    <3>5. AheadAt(s, m)'
      BY <3>3, <3>4 DEF AheadAt
    <3> QED BY <2>3, <3>2, <3>5
  <2>4. CASE s > offset /\ len # 0 /\ s = offset + 1
    <3>1. len \in 1 .. len /\ buffered[len] \notin Newlines /\ buffered[len] \in Nat
          /\ buffered[len] >= 1
      BY <1>1, <1>2, <2>4 DEF D!Chars
    <3>2. s # buffered[len] + 1
      BY <2>0, <3>1
    <3>3. s <= buffered[len]
      BY <1>1, <1>5, <2>4, <3>1, <3>2
    <3>4. D!HasChild(s) \/ \E m \in 1 .. len : AheadAt(s, m)
      BY <1>2, <1>3, <3>1, <3>3 DEF DownloadInv, FileCovered
    <3> QED BY <1>1, <2>1, <3>4
  <2> QED BY <1>1, <2>0, <2>2, <2>3, <2>4
<1>8. ASSUME NEW j \in 1 .. len + n, NEW s \in D!Starts, s <= buffered'[j]
      PROVE  D!HasChild(s) \/ \E m \in 1 .. j : AheadAt(s, m)'
  <2>1. CASE j <= len
    <3>1. buffered'[j] = buffered[j] /\ j \in 1 .. len
      BY <1>1, <2>1
    <3>2. D!HasChild(s) \/ \E m \in 1 .. j : AheadAt(s, m)
      BY <1>2, <1>3, <1>8, <3>1 DEF DownloadInv, FileCovered
    <3>3. ASSUME NEW m \in 1 .. j, AheadAt(s, m) PROVE AheadAt(s, m)'
      BY <1>1, <2>1, <3>3 DEF AheadAt
    <3> QED BY <3>2, <3>3
  <2>2. CASE j > len
    <3>1. j - len \in 1 .. n /\ len + (j - len) = j
      BY <1>1, <2>2
    <3>2. buffered'[j] = offset + (j - len) /\ s \in Nat
      <4>1. buffered'[j] = offset + (j - len)
        BY <1>1, <3>1
      <4> QED BY <4>1 DEF D!Starts, D!Chars
    <3>3. s <= offset + n /\ (s > offset => len + (s - offset) <= j)
      <4> DEFINE d == j - len
      <4>1. s <= offset + d
        BY <1>8, <3>2
      <4>2. d \in 1 .. n /\ len + d = j
        BY <3>1
      <4> HIDE DEF d
      <4>3. s \in Nat /\ offset \in Nat /\ len \in Nat /\ d \in Nat
        BY <1>1, <3>2, <4>2
      <4>4. s - offset <= d /\ (s > offset => s - offset \in Nat)
        BY <4>1, <4>3
      <4> QED BY <1>1, <4>1, <4>2, <4>3, <4>4
    <3>4. CASE D!HasChild(s)
      BY <3>4
    <3>5. CASE ~D!HasChild(s)
      <4>1. PICK m \in 1 .. len + n :
              AheadAt(s, m)' /\ (m <= len \/ (s > offset /\ m = len + (s - offset)))
        BY <1>7, <3>3, <3>5
      <4>2. m \in 1 .. j
        BY <1>1, <2>2, <3>3, <4>1
      <4> QED BY <4>1, <4>2
    <3> QED BY <3>4, <3>5
  <2> QED BY <1>1, <2>1, <2>2
<1>9. FileCovered'
  <2>1. D!Starts' = D!Starts
    BY DEF D!Starts
  <2> QED BY <1>1, <1>3, <1>4, <1>7, <1>8, <2>1 DEF FileCovered
<1> QED BY <1>6, <1>9

(* What is left when a line is taken. *)
LEMMA DownloadTakes ==
  ASSUME DownloadInv, NEW n \in DOMAIN buffered, D!TakeLine(n), UNCHANGED offset
  PROVE  NeverAhead'
<1> DEFINE rest == SubSeq(buffered, n + 1, Len(buffered))
           len == Len(buffered)
<1>0. buffered' = rest /\ len \in Nat
  BY BufferTyped DEF D!TakeLine
<1>1. /\ n \in Nat /\ n >= 1 /\ n <= len
      /\ rest \in Seq(D!Chars) /\ Len(rest) = len - n
      /\ \A j \in 1 .. len - n : rest[j] = buffered[n + j]
  BY SplitBuffer
<1> HIDE DEF rest
<1>10. /\ Len(buffered') = len - n
       /\ \A j \in 1 .. len - n : buffered'[j] = buffered[n + j]
       /\ (buffered' # <<>> => len - n # 0)
  BY <1>0, <1>1
<1>11. /\ buffered # <<>> => offset <= buffered[len]
       /\ \A j \in 1 .. len - 1 : buffered[j + 1] = buffered[j] + 1 \/ buffered[j + 1] <= buffered[j]
       /\ (len # 0 => buffered # <<>>)
  BY DEF DownloadInv, NeverAhead
<1> HIDE DEF len
<1>2. buffered' # <<>> => offset' <= buffered'[Len(buffered')]
  <2> SUFFICES ASSUME buffered' # <<>> PROVE offset <= buffered'[Len(buffered')]
    OBVIOUS
  <2>1. len - n \in 1 .. len - n /\ n + (len - n) = len /\ len # 0
    BY <1>0, <1>1, <1>10
  <2> QED BY <1>10, <1>11, <2>1
<1>3. ASSUME NEW j \in 1 .. Len(buffered') - 1
      PROVE  buffered'[j + 1] = buffered'[j] + 1 \/ buffered'[j + 1] <= buffered'[j]
  <2>0. j \in 1 .. (len - n) - 1
    BY <1>10
  <2>1. /\ n + j \in 1 .. len - 1 /\ n + (j + 1) = (n + j) + 1
        /\ j \in 1 .. len - n /\ j + 1 \in 1 .. len - n
    BY <1>0, <1>1, <2>0
  <2>2. buffered'[j] = buffered[n + j] /\ buffered'[j + 1] = buffered[(n + j) + 1]
    BY <1>10, <2>1
  <2> QED BY <1>11, <2>1, <2>2
<1> QED BY <1>2, <1>3 DEF NeverAhead

LEMMA DownloadForks ==
  ASSUME DownloadInv, D!ForkChild
  PROVE  /\ FileCovered'
         /\ \A k \in D!Kids : \A j \in DOMAIN url'[k] : \A s \in D!Starts :
              s <= url'[k][j] => D!HasChild(s)'
<1>1. PICK n \in DOMAIN buffered : D!TakeLine(n) /\ D!ForkFor(n)
  BY DEF D!ForkChild
<1> DEFINE u == SubSeq(buffered, 1, n)
           rest == SubSeq(buffered, n + 1, Len(buffered))
<1>2. /\ n \in Nat /\ n >= 1 /\ Len(buffered) \in Nat /\ n <= Len(buffered)
      /\ DOMAIN buffered = 1 .. Len(buffered) /\ DOMAIN u = 1 .. n
      /\ DOMAIN rest = 1 .. Len(buffered) - n
      /\ \A j \in 1 .. n : u[j] = buffered[j]
      /\ \A j \in 1 .. Len(buffered) - n : rest[j] = buffered[n + j]
      /\ buffered \in Seq(D!Chars)
  <2>1. Len(buffered) \in Nat /\ DOMAIN buffered = 1 .. Len(buffered) /\ buffered \in Seq(D!Chars)
    BY BufferTyped
  <2>2. /\ n \in Nat /\ n >= 1 /\ n <= Len(buffered) /\ DOMAIN u = 1 .. n
        /\ \A j \in 1 .. n : u[j] = buffered[j]
    BY SplitBuffer
  <2>3. /\ DOMAIN rest = 1 .. Len(buffered) - n
        /\ \A j \in 1 .. Len(buffered) - n : rest[j] = buffered[n + j]
    BY SplitBuffer
  <2> QED BY <2>1, <2>2, <2>3
<1>3. /\ main = "reads" /\ main' = "reads" /\ offset' = offset /\ buffered' = rest
      /\ \A j \in 1 .. n - 1 : buffered[j] \notin Newlines
  BY <1>1 DEF D!TakeLine, D!ForkFor, D!EndsLine
<1> HIDE DEF u, rest
<1>4. ASSUME NEW s, NEW m \in 1 .. n, AheadAt(s, m) PROVE D!HasChild(s)'
  <2>1. m = 1
    <3>1. m # 1 => m - 1 \in 1 .. n - 1
      BY <1>2
    <3> QED BY <1>3, <1>4, <3>1 DEF AheadAt
  <2>2. s = buffered[1]
    BY <1>4, <2>1 DEF AheadAt
  <2> QED BY <1>1, <2>2, ChildForFirst
<1>5. ASSUME NEW s, NEW m \in 1 .. Len(buffered), m > n, AheadAt(s, m)
      PROVE  m - n \in 1 .. Len(buffered) - n /\ AheadAt(s, m - n)'
  <2>1. m - n \in 1 .. Len(buffered) - n /\ n + (m - n) = m
    BY <1>2, <1>5
  <2>2. rest[m - n] = s
    BY <1>2, <1>5, <2>1 DEF AheadAt
  <2>3. m - n = 1 \/ rest[(m - n) - 1] \in Newlines
    <3> SUFFICES ASSUME m - n # 1 PROVE rest[(m - n) - 1] \in Newlines
      OBVIOUS
    <3>1. (m - n) - 1 \in 1 .. Len(buffered) - n /\ n + ((m - n) - 1) = m - 1 /\ m # 1
      BY <1>2, <2>1
    <3> QED BY <1>2, <1>5, <3>1 DEF AheadAt
  <2> QED BY <1>3, <2>1, <2>2, <2>3 DEF AheadAt
<1>6. ASSUME NEW k \in D!Kids, NEW j \in DOMAIN url'[k], NEW s \in D!Starts, s <= url'[k][j]
      PROVE  D!HasChild(s)'
  <2>0. num_urls \in D!Kids /\ url' = [url EXCEPT ![num_urls] = u]
    BY <1>1, ChildForFirst DEF u
  <2>1. CASE k # num_urls
    <3>1. url'[k] = url[k]
      BY <2>0, <2>1 DEF DownloadInv, D!TypeOK
    <3>2. D!HasChild(s)
      BY <1>6, <3>1 DEF DownloadInv
    <3> QED BY <3>2, ChildrenStay
  <2>2. CASE k = num_urls
    <3>1. j \in 1 .. n /\ s <= buffered[j] /\ j \in DOMAIN buffered
      BY <1>2, <1>6, <2>0, <2>2 DEF DownloadInv, D!TypeOK
    <3>2. D!HasChild(s) \/ \E m \in 1 .. j : AheadAt(s, m)
      BY <1>3, <3>1 DEF DownloadInv, FileCovered
    <3>3. \A m \in 1 .. j : m \in 1 .. n
      BY <1>2, <3>1
    <3> QED BY <1>4, <3>2, <3>3, ChildrenStay
  <2> QED BY <2>1, <2>2
<1>7. ASSUME NEW j \in 1 .. Len(buffered) - n, NEW s \in D!Starts, s <= rest[j]
      PROVE  D!HasChild(s)' \/ \E m \in 1 .. j : AheadAt(s, m)'
  <2>1. n + j \in 1 .. Len(buffered) /\ s <= buffered[n + j]
    BY <1>2, <1>7
  <2>2. D!HasChild(s) \/ \E m \in 1 .. n + j : AheadAt(s, m)
    BY <1>2, <1>3, <2>1 DEF DownloadInv, FileCovered
  <2>3. ASSUME NEW m \in 1 .. n + j, AheadAt(s, m)
        PROVE  D!HasChild(s)' \/ \E mm \in 1 .. j : AheadAt(s, mm)'
    <3>1. CASE m <= n
      BY <1>2, <1>4, <2>3, <3>1
    <3>2. CASE m > n
      <4>1. m \in 1 .. Len(buffered) /\ m - n \in 1 .. j
        BY <1>2, <2>1, <3>2
      <4>2. AheadAt(s, m - n)'
        BY <1>5, <2>3, <3>2, <4>1
      <4> QED BY <4>1, <4>2
    <3> QED BY <1>2, <3>1, <3>2
  <2> QED BY <2>2, <2>3, ChildrenStay
<1>8. ASSUME NEW s \in D!Starts, s <= offset
      PROVE  D!HasChild(s)' \/ \E m \in 1 .. Len(buffered) - n : AheadAt(s, m)'
  <2>1. D!HasChild(s) \/ \E m \in 1 .. Len(buffered) : AheadAt(s, m)
    BY <1>2, <1>3, <1>8 DEF DownloadInv, FileCovered
  <2>2. ASSUME NEW m \in 1 .. Len(buffered), AheadAt(s, m)
        PROVE  D!HasChild(s)' \/ \E mm \in 1 .. Len(buffered) - n : AheadAt(s, mm)'
    <3>1. CASE m <= n
      BY <1>2, <1>4, <2>2, <3>1
    <3>2. CASE m > n
      BY <1>5, <2>2, <3>2
    <3> QED BY <1>2, <3>1, <3>2
  <2> QED BY <2>1, <2>2, ChildrenStay
<1>9. FileCovered'
  <2>1. D!Starts' = D!Starts /\ DOMAIN buffered' = 1 .. Len(buffered) - n
    BY <1>2, <1>3 DEF D!Starts
  <2> QED BY <1>2, <1>3, <1>7, <1>8, <2>1 DEF FileCovered
<1> QED BY <1>6, <1>9

LEMMA DownloadStep ==
  ASSUME DownloadInv, D!Next
  PROVE  DownloadInv'
<1> USE DEF ProgramsAssumption, D!DownloadAssumption
<1>0. D!TypeOK' /\ D!Starts' = D!Starts /\ D!Kids' = D!Kids
  BY DownloadTypes DEF D!Starts, D!Kids
<1>00. (url' = url) => \A s : D!HasChild(s)' <=> D!HasChild(s)
  BY DEF D!HasChild, D!Whole, D!Torn
<1>1. CASE D!FillBuffer
  <2>1. NeverAhead' /\ FileCovered'
    BY <1>1, DownloadFills
  <2>2. main = "reads" /\ UNCHANGED <<main, num_urls, at, url>>
    BY <1>1 DEF D!FillBuffer
  <2> QED BY <1>0, <1>00, <2>1, <2>2 DEF DownloadInv, ChildrenNumbered
<1>2. CASE D!ForkChild
  <2>1. PICK n \in DOMAIN buffered : D!TakeLine(n) /\ D!ForkFor(n)
    BY <1>2 DEF D!ForkChild
  <2>2. NeverAhead' /\ main' = "reads"
    BY <2>1, DownloadTakes DEF D!ForkFor, D!TakeLine
  <2>3. ChildrenNumbered'
    <3>1. /\ num_urls' = num_urls + 1
          /\ at' = [at EXCEPT ![num_urls] = "downloads"]
          /\ url' = [url EXCEPT ![num_urls] = SubSeq(buffered, 1, n)]
      BY <2>1 DEF D!ForkFor
    <3>2. ASSUME NEW k \in D!Kids, k >= num_urls'
          PROVE  url'[k] = <<>> /\ at'[k] = "unborn"
      <4>1. k >= num_urls /\ k # num_urls
        BY <3>1, <3>2 DEF DownloadInv, D!TypeOK, D!Kids
      <4> QED BY <3>1, <4>1 DEF DownloadInv, ChildrenNumbered, D!TypeOK
    <3> QED BY <1>0, <3>2 DEF ChildrenNumbered
  <2>4. /\ FileCovered'
        /\ \A k \in D!Kids : \A j \in DOMAIN url'[k] : \A s \in D!Starts :
             s <= url'[k][j] => D!HasChild(s)'
    BY <1>2, DownloadForks
  <2> QED BY <1>0, <2>2, <2>3, <2>4 DEF DownloadInv
<1>3. CASE D!ForkFails \/ D!LimitReached
  <2>1. PICK n \in DOMAIN buffered : D!TakeLine(n)
    BY <1>3 DEF D!ForkFails, D!LimitReached
  <2>2. /\ UNCHANGED <<num_urls, offset, at, url>>
        /\ main' = "failed" \/ (main' = "waits" /\ num_urls' = MAX_URLS)
    BY <1>3 DEF D!ForkFails, D!LimitReached
  <2>3. NeverAhead'
    BY <2>1, <2>2, DownloadTakes
  <2> QED BY <1>0, <1>00, <2>2, <2>3 DEF DownloadInv, ChildrenNumbered, FileCovered
<1>4. CASE D!EndOfFile
  <2>1. /\ main = "reads" /\ main' = "waits" /\ buffered = <<>> /\ offset = NumChars
        /\ UNCHANGED <<num_urls, offset, buffered, at, url, unread>>
    BY <1>4 DEF D!EndOfFile
  <2>2. \A s \in D!Starts : D!HasChild(s)
    BY <2>1 DEF DownloadInv, FileCovered, D!Starts, D!Chars
  <2> QED BY <1>0, <1>00, <2>1, <2>2 DEF DownloadInv, ChildrenNumbered, FileCovered, NeverAhead
<1>5. CASE D!WaitForAll
  BY <1>0, <1>00, <1>5 DEF D!WaitForAll, DownloadInv, ChildrenNumbered, FileCovered, NeverAhead
<1>6. ASSUME NEW k \in D!Kids, D!ChildExits(k) PROVE DownloadInv'
  <2>1. /\ at[k] = "downloads" /\ at' = [at EXCEPT ![k] = "ended"]
        /\ UNCHANGED <<main, num_urls, buffered, url>>
    BY <1>6 DEF D!ChildExits
  <2>2. offset' <= offset /\ offset' \in Nat /\ offset \in Nat
    BY <1>6 DEF D!ChildExits, DownloadInv, D!TypeOK
  <2>3. NeverAhead'
    <3>1. buffered # <<>> => buffered[Len(buffered)] \in Nat
      BY DEF DownloadInv, D!TypeOK, D!Chars
    <3> QED BY <2>1, <2>2, <3>1 DEF DownloadInv, NeverAhead
  <2>4. ChildrenNumbered'
    BY <1>0, <2>1 DEF DownloadInv, ChildrenNumbered, D!TypeOK
  <2>5. FileCovered'
    <3>1. \A s, m : AheadAt(s, m)' <=> AheadAt(s, m)
      BY <2>1 DEF AheadAt
    <3>2. \A s \in D!Starts : s <= offset' => s <= offset
      BY <2>2 DEF D!Starts, D!Chars
    <3> QED BY <1>0, <1>00, <2>1, <3>1, <3>2 DEF DownloadInv, FileCovered
  <2> QED BY <1>0, <1>00, <2>1, <2>3, <2>4, <2>5 DEF DownloadInv
<1> QED BY <1>1, <1>2, <1>3, <1>4, <1>5, <1>6 DEF D!Next, D!parent

LEMMA DownloadSkipsNone == DownloadInv => D!NoAddressSkipped
  BY DEF DownloadInv, D!NoAddressSkipped

-----------------------------------------------------------------------------
(***************************************************************************)
(* CpDir.                                                                  *)
(***************************************************************************)
CopyStates == {"uncreated", "starts", "copies", "ended"}

CpDirTyped ==
  /\ main \in {"mkdirs", "joindirs", "copies", "joincopies", "done"}
  /\ i \in Nat
  /\ main = "mkdirs" => i <= Len(C!dirList)
  /\ main = "copies" => i <= Len(C!fileList)
  /\ main \in {"joindirs", "joincopies", "done"} => i = 0
  /\ at \in [Dirs \union Files -> CopyStates]
  /\ content \in [Files -> {"none", "empty", "whole", "old"}]

(* The directories that exist form a tree; the root is there when its       *)
(* thread has run.                                                          *)
TreeInv ==
  /\ made \subseteq Dirs
  /\ C!Rooted(made)
  /\ made # {} => Root \in made
  /\ at[Root] = "ended" => Root \in made

(* The two phases: no file thread before the join, no directory thread      *)
(* behind it.                                                               *)
PhaseInv ==
  /\ main \in {"mkdirs", "joindirs"} => \A f \in Files : at[f] = "uncreated"
  /\ main \in {"copies", "joincopies", "done"} => \A d \in Dirs : at[d] = "ended"
  /\ main = "done" => \A f \in Files : at[f] = "ended"
  /\ \A d \in Dirs : at[d] # "copies"

(* A file has a copy only inside a directory that was made, and a whole one *)
(* there when its thread has ended.                                         *)
CopyInv ==
  \A f \in Files :
    /\ content[f] # "none" => C!Parent(f) \in made
    /\ at[f] = "copies" => C!Parent(f) \in made
    /\ at[f] = "ended" /\ C!Parent(f) \in made => content[f] = "whole"

CpDirInv == CpDirTyped /\ TreeInv /\ PhaseInv /\ CopyInv

USE DEF CopyStates

LEMMA CpDirInit == C!Init => CpDirInv
  BY DEF ProgramsAssumption, C!CpDirAssumption, C!Init, CpDirInv, CpDirTyped, TreeInv, PhaseInv, CopyInv

(* A thread of a directory runs before the copies begin. *)
LEMMA DirectoryStep ==
  ASSUME CpDirInv, NEW d \in Dirs \union Files, C!MakeDirectory(d)
  PROVE  CpDirInv'
<1> USE DEF ProgramsAssumption, C!CpDirAssumption, CpDirInv, C!MakeDirectory, C!Advance
<1>1. d \in Dirs /\ main \in {"mkdirs", "joindirs"}
  BY DEF CpDirTyped, PhaseInv
<1>2. CpDirTyped'
  BY DEF CpDirTyped
<1>3. TreeInv'
  BY <1>1 DEF TreeInv, C!Rooted, CpDirTyped
<1>4. PhaseInv'
  BY <1>1 DEF PhaseInv, CpDirTyped
<1>5. CopyInv'
  BY <1>1 DEF CopyInv, PhaseInv, CpDirTyped
<1> QED BY <1>2, <1>3, <1>4, <1>5

(* A thread of a file runs when the directories are as they will be. *)
LEMMA FileStep ==
  ASSUME CpDirInv, NEW f \in Dirs \union Files,
         C!OpenFails(f) \/ C!OpenCopy(f) \/ C!CopyContent(f)
  PROVE  CpDirInv'
<1> USE DEF CpDirInv, C!OpenFails, C!OpenCopy, C!CopyContent, C!Advance
<1>0. Root \in Dirs /\ Dirs \intersect Files = {}
  BY DEF ProgramsAssumption, C!CpDirAssumption
<1>1. f \in Files /\ f \notin Dirs /\ main \in {"copies", "joincopies"}
  BY <1>0 DEF CpDirTyped, PhaseInv
<1>2. CpDirTyped'
  BY <1>0, <1>1 DEF CpDirTyped
<1>3. TreeInv'
  BY <1>0, <1>1 DEF TreeInv, C!Rooted, CpDirTyped
<1>4. PhaseInv'
  BY <1>1 DEF PhaseInv, CpDirTyped
<1>5. CopyInv'
  BY <1>1 DEF CopyInv, CpDirTyped
<1> QED BY <1>2, <1>3, <1>4, <1>5

(* The values that FlattenSeq goes through. *)
Flattens(g, ss) ==
  \A k \in 1 .. Len(ss) : g[k] = IF k = 1 THEN ss[k] ELSE g[k - 1] \o ss[k]

(* Some such function computes it. *)
LEMMA FlattenSeqEquation ==
  ASSUME NEW V, NEW ss \in Seq(Seq(V)), ss # <<>>
  PROVE  \E g : Flattens(g, ss) /\ C!FlattenSeq(ss) = g[Len(ss)]
<1> DEFINE Dom == 1 .. Len(ss)
           Val == Seq(V)
           mu == [k \in Dom |-> k]
           Body(f) == [k \in Dom |-> IF k = 1 THEN ss[k] ELSE f[k - 1] \o ss[k]]
           Fun == [f \in [Dom -> Val] |-> Body(f)]
<1>1. Len(ss) \in Nat /\ Len(ss) # 0 /\ \A k \in Dom : ss[k] \in Val /\ (k # 1 => k - 1 \in Dom)
  OBVIOUS
<1>2. Recursive(Dom, Val, mu, Fun)
  <2>1. Val # {} /\ mu \in [Dom -> Nat]
    <3>1. <<>> \in Val
      OBVIOUS
    <3> QED BY <3>1
  <2>2. Fun \in [[Dom -> Val] -> [Dom -> Val]]
    <3>1. ASSUME NEW f \in [Dom -> Val], NEW k \in Dom PROVE (IF k = 1 THEN ss[k] ELSE f[k - 1] \o ss[k]) \in Val
      <4>1. ss[k] \in Val /\ (k # 1 => f[k - 1] \in Val)
        BY <1>1
      <4> QED BY <4>1
    <3> QED BY <3>1
  <2>3. ASSUME NEW g \in [Dom -> Val], NEW h \in [Dom -> Val], NEW k \in Dom,
               \A y \in Dom : mu[y] < mu[k] => g[y] = h[y]
        PROVE  Fun[g][k] = Fun[h][k]
    <3>1. CASE k = 1
      BY <3>1
    <3>2. CASE k # 1
      <4>1. k - 1 \in Dom /\ mu[k - 1] < mu[k]
        BY <1>1, <3>2
      <4>2. g[k - 1] = h[k - 1]
        BY <2>3, <4>1
      <4> QED BY <3>2, <4>2
    <3> QED BY <3>1, <3>2
  <2> HIDE DEF Dom, Val, mu, Fun
  <2> QED BY <2>1, <2>2, <2>3 DEF Recursive
<1>3. \E f \in [Dom -> Val] : f = Fun[f]
  <2> HIDE DEF Dom, Val, mu, Fun
  <2> QED BY ONLY <1>2, Recursion
<1>4. \E f : f = Body(f)
  BY <1>3
<1> DEFINE g == CHOOSE f : f = Body(f)
<1>5. g = Body(g)
  <2> HIDE DEF Dom
  <2> QED BY <1>4
<1>6. C!FlattenSeq(ss) = g[Len(ss)]
  BY <1>1 DEF C!FlattenSeq
<1> HIDE DEF g
<1>7. Flattens(g, ss)
  BY <1>5 DEF Flattens
<1> QED BY <1>6, <1>7

(* What it returns is a sequence over V, too. *)
LEMMA FlattenSeqType ==
  ASSUME NEW V, NEW ss \in Seq(Seq(V))
  PROVE  C!FlattenSeq(ss) \in Seq(V)
<1>1. CASE ss = <<>>
  <2>1. Len(ss) = 0
    BY <1>1
  <2>2. C!FlattenSeq(ss) = ss
    BY <2>1 DEF C!FlattenSeq
  <2>3. <<>> \in Seq(V)
    OBVIOUS
  <2> QED BY ONLY <1>1, <2>2, <2>3
<1>2. CASE ss # <<>>
  <2>1. PICK g : Flattens(g, ss) /\ C!FlattenSeq(ss) = g[Len(ss)]
    BY <1>2, FlattenSeqEquation
  <2>2. Len(ss) \in Nat /\ Len(ss) \in 1 .. Len(ss) /\ \A k \in 1 .. Len(ss) : ss[k] \in Seq(V)
    BY <1>2
  <2> DEFINE bad == {k \in 1 .. Len(ss) : g[k] \notin Seq(V)}
  <2>3. ASSUME bad # {} PROVE FALSE
    <3>1. bad \subseteq Nat
      OBVIOUS
    <3>2. PICK k \in bad : \A j \in bad : k <= j
      <4> HIDE DEF bad
      <4> QED BY <2>3, <3>1, SmallestOf
    <3>3. g[k] = IF k = 1 THEN ss[k] ELSE g[k - 1] \o ss[k]
      BY <2>1 DEF Flattens
    <3>4. k # 1 => g[k - 1] \in Seq(V)
      <4>1. SUFFICES ASSUME k # 1 PROVE g[k - 1] \in Seq(V)
        OBVIOUS
      <4>2. k - 1 \in 1 .. Len(ss) /\ ~(k <= k - 1)
        BY <2>2, <4>1
      <4> QED BY <3>2, <4>2
    <3>5. ss[k] \in Seq(V)
      BY <2>2
    <3>6. g[k] \in Seq(V)
      BY ONLY <3>3, <3>4, <3>5
    <3> QED BY <3>6
  <2> QED BY <2>1, <2>2, <2>3
<1> QED BY <1>1, <1>2

(* What traverseDirectory finds behind an entry of d, if g has been found    *)
(* below it, and in all of d.                                                *)
Behind(g, e) == IF e \in Dirs THEN g[e] ELSE [dirs |-> <<>>, files |-> <<e>>]
InAll(g, d) ==
  [dirs  |-> <<d>> \o C!FlattenSeq([k \in DOMAIN Entries[d] |-> Behind(g, Entries[d][k]).dirs]),
   files |-> C!FlattenSeq([k \in DOMAIN Entries[d] |-> Behind(g, Entries[d][k]).files])]

ListPairs == [dirs : Seq(Dirs), files : Seq(Files)]

(* That is a pair of lists, if it was one below. *)
LEMMA InAllType ==
  ASSUME NEW g, NEW d \in Dirs,
         \A k \in DOMAIN Entries[d] : Entries[d][k] \in Dirs => g[Entries[d][k]] \in ListPairs
  PROVE  InAll(g, d) \in ListPairs
<1>1. Entries[d] \in Seq(Dirs \union Files)
  BY ProgramsAssumption DEF ProgramsAssumption, C!CpDirAssumption
<1>2. \A k \in DOMAIN Entries[d] : Entries[d][k] \in Dirs \union Files
  BY <1>1
<1>3. \A k \in DOMAIN Entries[d] : Behind(g, Entries[d][k]) \in ListPairs
  <2>1. SUFFICES ASSUME NEW k \in DOMAIN Entries[d] PROVE Behind(g, Entries[d][k]) \in ListPairs
    OBVIOUS
  <2>2. CASE Entries[d][k] \in Dirs
    BY <2>2 DEF Behind
  <2>3. CASE Entries[d][k] \notin Dirs
    <3>1. Entries[d][k] \in Files
      BY <1>2, <2>3
    <3>2. <<Entries[d][k]>> \in Seq(Files) /\ <<>> \in Seq(Dirs)
      BY <3>1
    <3> QED BY <2>3, <3>2 DEF Behind, ListPairs
  <2> QED BY <2>2, <2>3
<1> DEFINE ds == [k \in DOMAIN Entries[d] |-> Behind(g, Entries[d][k]).dirs]
           fs == [k \in DOMAIN Entries[d] |-> Behind(g, Entries[d][k]).files]
<1>4. ds \in Seq(Seq(Dirs)) /\ fs \in Seq(Seq(Files))
  <2>1. DOMAIN Entries[d] = 1 .. Len(Entries[d]) /\ Len(Entries[d]) \in Nat
    BY <1>1
  <2>2. \A k \in DOMAIN Entries[d] : Behind(g, Entries[d][k]).dirs \in Seq(Dirs) /\ Behind(g, Entries[d][k]).files \in Seq(Files)
    BY <1>3 DEF ListPairs
  <2> QED BY <2>1, <2>2
<1> HIDE DEF ds, fs
<1>5. C!FlattenSeq(ds) \in Seq(Dirs) /\ C!FlattenSeq(fs) \in Seq(Files)
  BY <1>4, FlattenSeqType
<1>6. <<d>> \o C!FlattenSeq(ds) \in Seq(Dirs)
  BY <1>5
<1> QED BY <1>5, <1>6 DEF InAll, ListPairs, ds, fs

(* There are finitely many directories. *)
LEMMA DirsFinite == IsFiniteSet(Dirs) /\ C!Cardinality(Dirs) = Cardinality(Dirs)
<1>1. C!IsFiniteSet(Dirs)
  BY ProgramsAssumption DEF ProgramsAssumption, C!CpDirAssumption
<1>2. IsFiniteSet(Dirs)
  BY <1>1 DEF C!IsFiniteSet, IsFiniteSet
<1>3. C!Cardinality(Dirs) = Cardinality(Dirs)
  BY DEF C!Cardinality, Cardinality
<1> QED BY <1>2, <1>3

(* The recursive function obeys its equation: a tree has an end. *)
LEMMA TraverseEquation == \A d \in Dirs : C!traverseDirectory[d] = InAll(C!traverseDirectory, d)
<1>1. PICK height \in [Dirs -> 0 .. C!Cardinality(Dirs)] :
        \A d \in Dirs : \A k \in DOMAIN Entries[d] :
          Entries[d][k] \in Dirs => height[Entries[d][k]] < height[d]
  BY ProgramsAssumption DEF ProgramsAssumption, C!CpDirAssumption
<1> DEFINE Dom == Dirs
           Val == ListPairs
           Body(f) == [d \in Dom |-> InAll(f, d)]
           Fun == [f \in [Dom -> Val] |-> Body(f)]
<1>2. Recursive(Dom, Val, height, Fun)
  <2>1. Val # {}
    <3>1. [dirs |-> <<>>, files |-> <<>>] \in ListPairs
      BY DEF ListPairs
    <3> QED BY <3>1
  <2>2. height \in [Dom -> Nat]
    <3>1. IsFiniteSet(Dirs) /\ C!Cardinality(Dirs) = Cardinality(Dirs)
      BY DirsFinite
    <3>2. Cardinality(Dirs) \in Nat
      BY <3>1, FS_CardinalityType
    <3> QED BY <3>1, <3>2
  <2>3. ASSUME NEW f \in [Dom -> Val], NEW d \in Dom PROVE InAll(f, d) \in Val
    BY InAllType
  <2>4. Fun \in [[Dom -> Val] -> [Dom -> Val]]
    <3> HIDE DEF Val
    <3> QED BY <2>3
  <2>5. ASSUME NEW g \in [Dom -> Val], NEW h \in [Dom -> Val], NEW d \in Dom,
               \A y \in Dom : height[y] < height[d] => g[y] = h[y]
        PROVE  Fun[g][d] = Fun[h][d]
    <3>1. \A k \in DOMAIN Entries[d] : Behind(g, Entries[d][k]) = Behind(h, Entries[d][k])
      BY <1>1, <2>5 DEF Behind
    <3>2. InAll(g, d) = InAll(h, d)
      BY <3>1 DEF InAll
    <3> QED BY <3>2
  <2> HIDE DEF Dom, Val, Fun
  <2> QED BY <2>1, <2>2, <2>4, <2>5 DEF Recursive
<1>3. \E f \in [Dom -> Val] : f = Fun[f]
  <2> HIDE DEF Dom, Val, Fun
  <2> QED BY ONLY <1>2, Recursion
<1>4. \E f : f = Body(f)
  BY <1>3
<1> DEFINE t == CHOOSE f : f = Body(f)
<1>5. t = Body(t)
  BY <1>4
<1>6. C!traverseDirectory = t
  BY DEF C!traverseDirectory, InAll, Behind
<1> HIDE DEF t
<1> QED BY <1>5, <1>6

(* The lists of directories and of files hold such. *)
LEMMA Listing == C!dirList \in Seq(Dirs) /\ C!fileList \in Seq(Files)
<1>1. PICK height \in [Dirs -> 0 .. C!Cardinality(Dirs)] :
        \A d \in Dirs : \A k \in DOMAIN Entries[d] :
          Entries[d][k] \in Dirs => height[Entries[d][k]] < height[d]
  BY ProgramsAssumption DEF ProgramsAssumption, C!CpDirAssumption
<1>2. \A d \in Dirs : height[d] \in Nat
  <2>1. IsFiniteSet(Dirs) /\ C!Cardinality(Dirs) = Cardinality(Dirs)
    BY DirsFinite
  <2>2. Cardinality(Dirs) \in Nat
    BY <2>1, FS_CardinalityType
  <2> QED BY <2>1, <2>2
<1> DEFINE Bad(m) == \E d \in Dirs : height[d] = m /\ C!traverseDirectory[d] \notin ListPairs
           bad == {m \in Nat : Bad(m)}
<1>3. ASSUME bad # {} PROVE FALSE
  <2>1. bad \subseteq Nat
    OBVIOUS
  <2>2. PICK m \in bad : \A j \in bad : m <= j
    <3> HIDE DEF bad
    <3> QED BY <1>3, <2>1, SmallestOf
  <2>3. PICK d \in Dirs : height[d] = m /\ C!traverseDirectory[d] \notin ListPairs
    BY <2>2
  <2>4. ASSUME NEW k \in DOMAIN Entries[d], Entries[d][k] \in Dirs
        PROVE  C!traverseDirectory[Entries[d][k]] \in ListPairs
    <3> DEFINE e == Entries[d][k]
    <3>1. height[e] < m /\ height[e] \in Nat /\ m \in Nat
      BY <1>1, <1>2, <2>3, <2>4
    <3>2. height[e] \notin bad
      <4>1. ~(m <= height[e])
        BY ONLY <3>1
      <4> HIDE DEF bad, e
      <4> QED BY <2>2, <4>1
    <3> QED BY <2>4, <3>1, <3>2
  <2>5. InAll(C!traverseDirectory, d) \in ListPairs
    BY <2>4, InAllType
  <2> QED BY <2>3, <2>5, TraverseEquation
<1>4. Root \in Dirs
  BY ProgramsAssumption DEF ProgramsAssumption, C!CpDirAssumption
<1>5. C!traverseDirectory[Root] \in ListPairs
  BY <1>2, <1>3, <1>4
<1> QED BY <1>5 DEF C!dirList, C!fileList, ListPairs

LEMMA Listings ==
  /\ Len(C!dirList) \in Nat /\ \A k \in 1 .. Len(C!dirList) : C!dirList[k] \in Dirs
  /\ Len(C!fileList) \in Nat /\ \A k \in 1 .. Len(C!fileList) : C!fileList[k] \in Files
  BY Listing

(* main() starts threads and joins them. *)
LEMMA CpDirMain ==
  ASSUME CpDirInv, C!createAllDirectories \/ C!copyAllFiles
  PROVE  CpDirInv'
<1> USE DEF ProgramsAssumption, C!CpDirAssumption, CpDirInv
<1>1. CASE C!CreateThread("mkdirs", C!dirList)
  <2> DEFINE d == C!dirList[i + 1]
  <2>0. i + 1 \in 1 .. Len(C!dirList)
    BY <1>1, Listings DEF C!CreateThread, CpDirTyped
  <2>1. d \in Dirs /\ at[d] = "uncreated" /\ main = "mkdirs" /\ main' = main
        /\ i' = i + 1 /\ made' = made /\ content' = content /\ at' = [at EXCEPT ![d] = "starts"]
    BY <1>1, <2>0, Listings DEF C!CreateThread, C!Advance
  <2> HIDE DEF d
  <2>2. CpDirTyped'
    BY <2>0, <2>1 DEF CpDirTyped
  <2> QED BY <2>1, <2>2 DEF CpDirTyped, TreeInv, C!Rooted, PhaseInv, CopyInv
<1>2. CASE C!CreateThread("copies", C!fileList)
  <2> DEFINE f == C!fileList[i + 1]
  <2>0. i + 1 \in 1 .. Len(C!fileList)
    BY <1>2, Listings DEF C!CreateThread, CpDirTyped
  <2>1. f \in Files /\ at[f] = "uncreated" /\ main = "copies" /\ main' = main
        /\ i' = i + 1 /\ made' = made /\ content' = content /\ at' = [at EXCEPT ![f] = "starts"]
    BY <1>2, <2>0, Listings DEF C!CreateThread, C!Advance
  <2> HIDE DEF f
  <2>2. CpDirTyped'
    BY <2>0, <2>1 DEF CpDirTyped
  <2>3. f \notin Dirs
    BY <2>1
  <2> QED BY <2>1, <2>2, <2>3 DEF CpDirTyped, TreeInv, C!Rooted, PhaseInv, CopyInv
<1>3. CASE C!CreatedAll("mkdirs", C!dirList, "joindirs") \/ C!CreatedAll("copies", C!fileList, "joincopies")
  BY <1>3, Listings DEF C!CreatedAll, CpDirTyped, TreeInv, C!Rooted, PhaseInv, CopyInv
<1>4. CASE C!JoinAll("joindirs", Dirs, "copies") \/ C!JoinAll("joincopies", Files, "done")
  BY <1>4, Listings DEF C!JoinAll, CpDirTyped, TreeInv, C!Rooted, PhaseInv, CopyInv
<1> QED BY <1>1, <1>2, <1>3, <1>4 DEF C!createAllDirectories, C!copyAllFiles

LEMMA CpDirStep == CpDirInv /\ C!Next => CpDirInv'
  BY DirectoryStep, FileStep, CpDirMain DEF C!Next, C!thread

LEMMA CpDirTypeOK == CpDirInv => C!TypeOK
  BY Listings DEF CpDirInv, CpDirTyped, TreeInv, C!TypeOK, CopyStates

LEMMA CpDirLosesSubtrees == CpDirInv => C!LossIsWholeSubtrees
  BY DEF ProgramsAssumption, C!CpDirAssumption, CpDirInv, CpDirTyped, TreeInv, PhaseInv, CopyInv,
         C!LossIsWholeSubtrees

-----------------------------------------------------------------------------
(***************************************************************************)
(* Pooling.                                                                *)
(***************************************************************************)
LEMMA PoolingConstants ==
  /\ MatrixRows \in Nat \ {0} /\ MatrixCols \in Nat \ {0}
  /\ BlockRows \in Nat \ {0} /\ BlockCols \in Nat \ {0} /\ MatrixValues \subseteq Nat
  BY DEF ProgramsAssumption, B!PoolingAssumption

(* Block r of blocks of length k. *)
LEMMA BlockOf ==
  ASSUME NEW a \in Nat, NEW k \in Nat \ {0}, NEW r \in Nat
  PROVE  a \div k = r <=> (r * k <= a /\ a < r * k + k)
  OBVIOUS

(* As many blocks as begin within m cells. *)
LEMMA Blocks ==
  ASSUME NEW m \in Nat \ {0}, NEW k \in Nat \ {0}
  PROVE  /\ (m + k - 1) \div k \in Nat \ {0}
         /\ \A r \in 0 .. (m + k - 1) \div k - 1 : r * k < m
<1> DEFINE w == (m + k - 1) \div k
<1>1. w \in Nat
  OBVIOUS
<1>2. w * k <= m + k - 1 /\ m + k - 1 < w * k + k
  BY <1>1, BlockOf
<1> HIDE DEF w
<1>3. w # 0
  BY <1>2
<1>4. ASSUME NEW r \in 0 .. w - 1 PROVE r * k < m
  <2>1. r * k <= (w - 1) * k
    BY <1>1
  <2>2. (w - 1) * k = w * k - k
    BY <1>1
  <2> QED BY <1>1, <1>2, <2>1, <2>2
<1> QED BY <1>1, <1>3, <1>4 DEF w

LEMMA PoolingSizes ==
  /\ B!M_OUT \in Nat \ {0} /\ B!N_OUT \in Nat \ {0}
  /\ \A r \in B!Rows : r \in Nat /\ r * BlockRows \in Nat /\ r * BlockRows < MatrixRows
  /\ \A c \in B!Cols : c \in Nat /\ c * BlockCols \in Nat /\ c * BlockCols < MatrixCols
  BY PoolingConstants, Blocks DEF B!M_OUT, B!N_OUT, B!Rows, B!Cols

(* What max_pool looks at is the block, and its first cell is always there. *)
LEMMA WindowIsBlock ==
  ASSUME NEW r \in B!Rows, NEW c \in B!Cols
  PROVE  /\ B!Window(r, c)
              = {ab \in B!Cells : ab[1] \div BlockRows = r /\ ab[2] \div BlockCols = c}
         /\ <<r * BlockRows, c * BlockCols>> \in B!Window(r, c)
<1>1. ASSUME NEW ab \in B!Cells
      PROVE  /\ ab[1] \div BlockRows = r
                  <=> (r * BlockRows <= ab[1] /\ ab[1] < B!Smaller(MatrixRows, r * BlockRows + BlockRows))
             /\ ab[2] \div BlockCols = c
                  <=> (c * BlockCols <= ab[2] /\ ab[2] < B!Smaller(MatrixCols, c * BlockCols + BlockCols))
  <2>1. ab[1] \in 0 .. MatrixRows - 1 /\ ab[2] \in 0 .. MatrixCols - 1
    BY DEF B!Cells
  <2>0. ab[1] \in Nat /\ ab[2] \in Nat /\ r \in Nat /\ c \in Nat
    BY <2>1, PoolingSizes, PoolingConstants
  <2>2. ab[1] \div BlockRows = r <=> (r * BlockRows <= ab[1] /\ ab[1] < r * BlockRows + BlockRows)
    BY <2>0, BlockOf, PoolingConstants
  <2>3. ab[2] \div BlockCols = c <=> (c * BlockCols <= ab[2] /\ ab[2] < c * BlockCols + BlockCols)
    BY <2>0, BlockOf, PoolingConstants
  <2> QED BY <2>1, <2>2, <2>3, PoolingConstants, PoolingSizes DEF B!Smaller
<1>2. B!Window(r, c) = {ab \in B!Cells : ab[1] \div BlockRows = r /\ ab[2] \div BlockCols = c}
  BY <1>1 DEF B!Window
<1>3. <<r * BlockRows, c * BlockCols>> \in B!Window(r, c)
  BY PoolingSizes, PoolingConstants DEF B!Window, B!Cells, B!Smaller
<1> QED BY <1>2, <1>3

LEMMA MaxPoolIsRight ==
  ASSUME B!TypeOK, NEW r \in B!Rows, NEW c \in B!Cols
  PROVE  /\ B!max_pool(r, c) \in MatrixValues
         /\ B!IsBlockMaximum(B!max_pool(r, c), r, c)
<1> DEFINE W == B!Window(r, c)
           vs == {M1[ab] : ab \in W}
<1>1. W \subseteq B!Cells /\ \A ab \in W : M1[ab] \in MatrixValues
  BY DEF B!Window, B!TypeOK
<1>2. IsFiniteSet(W)
  <2>1. MatrixRows - 1 \in Int /\ MatrixCols - 1 \in Int
    BY PoolingConstants
  <2>2. IsFiniteSet(0 .. MatrixRows - 1) /\ IsFiniteSet(0 .. MatrixCols - 1)
    BY <2>1, FS_Interval
  <2>3. IsFiniteSet(B!Cells)
    BY <2>2, FS_Product DEF B!Cells
  <2> QED BY <1>1, <2>3, FS_Subset
<1>3. IsFiniteSet(vs)
  <2> DEFINE f == [ab \in W |-> M1[ab]]
  <2>1. f \in Surjection(W, vs)
    BY DEF Surjection
  <2> HIDE DEF f, W, vs
  <2> QED BY <1>2, <2>1, FS_Surjection
<1>4. <<r * BlockRows, c * BlockCols>> \in W
  BY WindowIsBlock
<1>5. PICK m \in vs : \A x \in vs : x <= m
  <2>1. vs \subseteq Nat /\ vs # {}
    BY <1>1, <1>4, PoolingConstants
  <2> HIDE DEF vs
  <2> QED BY <1>3, <2>1, LargestOf
<1>6. W \union {<<r * BlockRows, c * BlockCols>>} = W
  BY <1>4
<1>7. /\ B!max_pool(r, c) \in vs
      /\ \A ab \in W : M1[ab] <= B!max_pool(r, c)
  <2>1. B!max_pool(r, c) = CHOOSE v \in vs : \A ab \in W : M1[ab] <= v
    BY <1>6 DEF B!max_pool
  <2>2. \E v \in vs : \A ab \in W : M1[ab] <= v
    BY <1>5
  <2> HIDE DEF vs, W
  <2> QED BY <2>1, <2>2
<1> QED BY <1>1, <1>7, WindowIsBlock DEF B!IsBlockMaximum

-----------------------------------------------------------------------------
(* The maxima a row process has stored so far are right, and who waits as    *)
(* often as there are rows waits for all children.                           *)
MaximaStored ==
  \A r \in B!Rows, c \in B!Cols : c < col[r] => B!IsBlockMaximum(result[<<r, c>>], r, c)

RowsWaited ==
  /\ main \in {"fork", "wait"} => i < B!M_OUT
  /\ main = "fork" => \A r \in B!Rows : i <= r => at[r] = "unborn"
  /\ \A r \in B!Rows : at[r] = "exited" => col[r] = B!N_OUT
  /\ main = "done" => B!Working = {}

PoolingInv == B!TypeOK /\ MaximaStored /\ RowsWaited

LEMMA PoolingInit == B!Init => PoolingInv
  BY PoolingSizes DEF B!Init, PoolingInv, B!TypeOK, MaximaStored, RowsWaited, B!Working

LEMMA StoreMaximumStep ==
  ASSUME PoolingInv, NEW r \in B!Rows, B!StoreMaximum(r)
  PROVE  PoolingInv'
<1> DEFINE c == col[r]
           v == B!max_pool(r, c)
<1>1. /\ at[r] = "works" /\ c < B!N_OUT /\ result' = [result EXCEPT ![<<r, c>>] = v]
      /\ col' = [col EXCEPT ![r] = c + 1] /\ UNCHANGED <<main, i, at, M1>>
  BY DEF B!StoreMaximum
<1>2. c \in B!Cols /\ c + 1 \in 0 .. B!N_OUT
  BY <1>1, PoolingSizes DEF PoolingInv, B!TypeOK, B!Cols
<1>3. v \in MatrixValues /\ B!IsBlockMaximum(v, r, c)
  BY <1>2, MaxPoolIsRight DEF PoolingInv
<1> HIDE DEF v
<1>4. B!TypeOK'
  BY <1>1, <1>2, <1>3 DEF PoolingInv, B!TypeOK
<1>5. ASSUME NEW s \in B!Rows, NEW d \in B!Cols, d < col'[s]
      PROVE  B!IsBlockMaximum(result[<<s, d>>], s, d)'
  <2>1. CASE s = r /\ d = c
    <3>1. result'[<<s, d>>] = v
      BY <1>1, <1>2, <2>1 DEF PoolingInv, B!TypeOK
    <3> QED BY <1>1, <1>3, <2>1, <3>1 DEF B!IsBlockMaximum
  <2>2. CASE ~(s = r /\ d = c)
    <3>1. result'[<<s, d>>] = result[<<s, d>>]
      BY <1>1, <1>2, <2>2 DEF PoolingInv, B!TypeOK
    <3>2. d < col[s]
      <4>1. d \in Nat /\ c \in Nat /\ col \in [B!Rows -> 0 .. B!N_OUT]
        BY <1>2, PoolingSizes DEF PoolingInv, B!TypeOK
      <4>2. CASE s = r
        BY <1>1, <1>5, <2>2, <4>1, <4>2
      <4>3. CASE s # r
        BY <1>1, <1>5, <4>1, <4>3
      <4> QED BY <4>2, <4>3
    <3> QED BY <1>1, <3>1, <3>2 DEF PoolingInv, MaximaStored, B!IsBlockMaximum
  <2> QED BY <2>1, <2>2
<1>6. RowsWaited'
  BY <1>1, <1>2 DEF PoolingInv, RowsWaited, B!TypeOK, B!Working
<1> QED BY <1>4, <1>5, <1>6 DEF PoolingInv, MaximaStored

LEMMA RowExits ==
  ASSUME PoolingInv, NEW r \in B!Rows, B!ChildExits(r)
  PROVE  PoolingInv'
<1>1. /\ at[r] = "works" /\ col[r] = B!N_OUT
      /\ at' = [at EXCEPT ![r] = "exited"] /\ UNCHANGED <<main, i, col, result, M1>>
  BY DEF B!ChildExits
<1>2. B!TypeOK'
  BY <1>1 DEF PoolingInv, B!TypeOK
<1>3. MaximaStored'
  BY <1>1 DEF PoolingInv, MaximaStored, B!IsBlockMaximum
<1>4. RowsWaited'
  BY <1>1 DEF PoolingInv, RowsWaited, B!TypeOK, B!Working
<1> QED BY <1>2, <1>3, <1>4 DEF PoolingInv

LEMMA RowForked ==
  ASSUME PoolingInv, B!ForkChild \/ B!ForkFails
  PROVE  PoolingInv'
<1>1. /\ main = "fork" /\ i \in B!Rows
      /\ i' = (i + 1) % B!M_OUT /\ main' = (IF i + 1 = B!M_OUT THEN "wait" ELSE "fork")
      /\ UNCHANGED <<col, result, M1>>
      /\ at' = [at EXCEPT ![i] = "works"] \/ at' = at
  BY PoolingSizes DEF B!ForkChild, B!ForkFails, B!ForkPass, PoolingInv, RowsWaited, B!TypeOK, B!Rows
<1>2. i' \in 0 .. B!M_OUT - 1
  BY <1>1, PoolingSizes DEF B!Rows
<1>3. B!TypeOK'
  BY <1>1, <1>2, PoolingSizes DEF PoolingInv, B!TypeOK
<1>4. MaximaStored'
  BY <1>1 DEF PoolingInv, MaximaStored, B!IsBlockMaximum
<1>5. RowsWaited'
  <2>1. ASSUME main' = "fork", NEW r \in B!Rows, i' <= r PROVE at'[r] = "unborn"
    <3>1. i \in Nat /\ r \in Nat /\ B!M_OUT \in Nat /\ i + 1 < B!M_OUT
      BY <1>1, <2>1, PoolingSizes DEF B!Rows
    <3>2. i' = i + 1
      BY <1>1, <3>1
    <3>3. i <= r /\ r # i
      BY <2>1, <3>1, <3>2
    <3>4. at[r] = "unborn"
      BY <1>1, <3>3 DEF PoolingInv, RowsWaited
    <3>5. at' = at \/ at' = [at EXCEPT ![i] = "works"]
      BY <1>1
    <3> QED BY <3>3, <3>4, <3>5 DEF PoolingInv, B!TypeOK
  <2>2. \A r \in B!Rows : at'[r] = "exited" => at[r] = "exited"
    BY <1>1 DEF PoolingInv, B!TypeOK
  <2>3. i' < B!M_OUT /\ main' # "done"
    BY <1>1, <1>2, PoolingSizes
  <2> QED BY <1>1, <2>1, <2>2, <2>3 DEF PoolingInv, RowsWaited
<1> QED BY <1>3, <1>4, <1>5 DEF PoolingInv

(* The wait that ends the loop leaves no row process behind: as many have    *)
(* exited as there are rows, or there is none left.                          *)
LEMMA LastWait ==
  ASSUME PoolingInv, B!WaitForChild, i + 1 = B!M_OUT
  PROVE  B!Working = {}
<1> SUFFICES ASSUME i < B!Cardinality(B!Exited) PROVE B!Working = {}
  BY DEF B!WaitForChild, B!CanReap
<1> DEFINE E == B!Exited
<1>1. i < Cardinality(E)
  BY SameCardinality
<1>2. B!M_OUT \in Nat /\ i \in Nat
  BY PoolingSizes DEF PoolingInv, B!TypeOK
<1>3. IsFiniteSet(B!Rows) /\ Cardinality(B!Rows) = B!M_OUT
  <2>1. B!M_OUT - 1 \in Int /\ B!M_OUT # 0
    BY PoolingSizes
  <2> QED BY <1>2, <2>1, FS_Interval DEF B!Rows
<1>4. E \subseteq B!Rows
  BY DEF B!Exited
<1>5. Cardinality(E) \in Nat /\ Cardinality(E) <= B!M_OUT
  BY <1>3, <1>4, FS_Subset, FS_CardinalityType
<1>6. Cardinality(E) = Cardinality(B!Rows)
  BY <1>1, <1>2, <1>3, <1>5
<1>7. E = B!Rows
  BY <1>3, <1>4, <1>6, FS_Subset
<1> QED BY <1>7 DEF B!Exited, B!Working

LEMMA RowWaited ==
  ASSUME PoolingInv, B!WaitForChild
  PROVE  PoolingInv'
<1>1. /\ main = "wait" /\ i \in 0 .. B!M_OUT - 1
      /\ i' = i + 1 /\ main' = (IF i + 1 = B!M_OUT THEN "done" ELSE "wait")
      /\ UNCHANGED <<at, col, result, M1>>
  BY PoolingSizes DEF B!WaitForChild, PoolingInv, RowsWaited, B!TypeOK
<1>2. B!TypeOK'
  BY <1>1, PoolingSizes DEF PoolingInv, B!TypeOK
<1>3. MaximaStored'
  BY <1>1 DEF PoolingInv, MaximaStored, B!IsBlockMaximum
<1>4. RowsWaited'
  <2>1. B!Working' = B!Working
    BY <1>1 DEF B!Working
  <2> QED BY <1>1, <2>1, LastWait, PoolingSizes DEF PoolingInv, RowsWaited
<1> QED BY <1>2, <1>3, <1>4 DEF PoolingInv

LEMMA PoolingStep == PoolingInv /\ B!Next => PoolingInv'
  BY StoreMaximumStep, RowExits, RowForked, RowWaited DEF B!Next, B!child

LEMMA PoolingRowsRight == PoolingInv => B!RowsRight
<1> SUFFICES ASSUME PoolingInv, main = "done", NEW r \in B!Rows, at[r] # "unborn", NEW c \in B!Cols
             PROVE  B!IsBlockMaximum(result[<<r, c>>], r, c)
  BY DEF B!RowsRight
<1>1. at[r] = "exited"
  BY DEF PoolingInv, RowsWaited, B!TypeOK, B!Working
<1>2. c < col[r]
  BY <1>1, PoolingSizes DEF PoolingInv, RowsWaited, B!Cols
<1> QED BY <1>2 DEF PoolingInv, MaximaStored

-----------------------------------------------------------------------------
(***************************************************************************)
(* All programs.                                                           *)
(***************************************************************************)
MergeSortInv == SortBase /\ SortInv /\ S!NothingLost

LEMMA MergeSortStep == MergeSortInv /\ S!Next => MergeSortInv'
  BY SortBaseStep, SortInvStep, NothingLostStep DEF MergeSortInv

ProgramsInv ==
  /\ program \in {"crossing", "mergesort", "primes", "pooling", "heapsearch", "cpdir", "download"}
  /\ program = "crossing" => CrossingInv
  /\ program = "mergesort" => MergeSortInv
  /\ program = "primes" => PrimesInv
  /\ program = "pooling" => PoolingInv
  /\ program = "heapsearch" => HeapInv
  /\ program = "cpdir" => CpDirInv
  /\ program = "download" => DownloadInv

LEMMA ProgramsAtRest ==
  ASSUME ProgramsInv, UNCHANGED vars
  PROVE  ProgramsInv'
<1>1. /\ program' = program /\ main' = main /\ i' = i /\ at' = at /\ result' = result
      /\ dir_mutex' = dir_mutex /\ print_mutex' = print_mutex /\ car' = car /\ move' = move /\ log' = log
      /\ num' = num /\ pipe' = pipe /\ total_sum' = total_sum /\ col' = col /\ M1' = M1
      /\ pos' = pos /\ thread_res' = thread_res /\ A' = A /\ made' = made /\ content' = content
      /\ num_urls' = num_urls /\ offset' = offset /\ buffered' = buffered /\ url' = url /\ unread' = unread
  BY DEF vars, crossingOwn, mergeSortOwn, primesOwn, poolingOwn, heapOwn, cpdirOwn, downloadOwn
<1>2. CrossingInv' <=> CrossingInv
  <2>1. X!TypeOK' <=> X!TypeOK
    BY <1>1 DEF X!TypeOK
  <2>2. CarInv' <=> CarInv
    BY <1>1 DEF CarInv
  <2>3. Following' <=> Following
    BY <1>1 DEF Following, X!LinesOf
  <2> QED BY <2>1, <2>2, <2>3 DEF CrossingInv
<1>3. PrimesInv' <=> PrimesInv
  <2>1. P!TypeOK' <=> P!TypeOK
    BY <1>1 DEF P!TypeOK
  <2>2. SearchInv' <=> SearchInv
    BY <1>1 DEF SearchInv
  <2>3. NothingMissed' <=> NothingMissed
    BY <1>1 DEF NothingMissed, cursors, Cursor
  <2> QED BY <2>1, <2>2, <2>3 DEF PrimesInv
<1>4. PoolingInv' <=> PoolingInv
  <2>1. B!TypeOK' <=> B!TypeOK
    BY <1>1 DEF B!TypeOK
  <2>2. MaximaStored' <=> MaximaStored
    BY <1>1 DEF MaximaStored, B!IsBlockMaximum
  <2>3. RowsWaited' <=> RowsWaited
    BY <1>1 DEF RowsWaited, B!Working
  <2> QED BY <2>1, <2>2, <2>3 DEF PoolingInv
<1>5. HeapInv' <=> HeapInv
  <2>1. H!TypeOK' <=> H!TypeOK
    BY <1>1 DEF H!TypeOK
  <2>2. HeapPhases' <=> HeapPhases
    BY <1>1 DEF HeapPhases, H!Idle
  <2>3. ThreadsSearch' <=> ThreadsSearch
    BY <1>1 DEF ThreadsSearch
  <2>4. ThreadsFound' <=> ThreadsFound
    BY <1>1 DEF ThreadsFound
  <2>5. ProcessesSearch' <=> ProcessesSearch
    BY <1>1 DEF ProcessesSearch, ProcessAt
  <2> QED BY <2>1, <2>2, <2>3, <2>4, <2>5 DEF HeapInv
<1>6. CpDirInv' <=> CpDirInv
  BY <1>1 DEF CpDirInv, CpDirTyped, TreeInv, PhaseInv, CopyInv
<1>7. DownloadInv' <=> DownloadInv
  BY <1>1 DEF DownloadInv, D!TypeOK, ChildrenNumbered, NeverAhead, FileCovered, AheadAt, D!HasChild
<1>8. MergeSortInv' <=> MergeSortInv
  <2>0. /\ main' = main /\ i' = i /\ arr' = arr /\ size' = size /\ todo' = todo /\ L' = L /\ R' = R
        /\ failed' = failed /\ unwaited' = unwaited /\ input' = input /\ incomplete' = incomplete
    BY DEF vars, mergeSortOwn
  <2>1. S!TypeOK' <=> S!TypeOK
    BY <2>0 DEF S!TypeOK
  <2>2. RoundInv' <=> RoundInv
    <3>1. (Sorting' <=> Sorting) /\ (Merging' <=> Merging)
      BY <2>0 DEF Sorting, Merging
    <3>2. Count' = Count /\ \A c : HasPair(c)' <=> HasPair(c)
      BY <2>0, <3>1, SamePhase
    <3> QED BY <2>0, <3>1, <3>2 DEF RoundInv, Idling
  <2>3. Shapes' <=> Shapes
    <3>1. (Sorting' <=> Sorting) /\ (Merging' <=> Merging)
      BY <2>0 DEF Sorting, Merging
    <3>2. \A c : First(c)' = First(c) /\ Last(c)' = Last(c)
      BY <2>0, <3>1, SamePhase
    <3> QED BY <2>0, <3>2 DEF Shapes
  <2>4. (S!NothingLost)' <=> S!NothingLost
    BY <2>0 DEF S!NothingLost, S!Superseded, S!NextCell
  <2>5. SortInv' <=> SortInv
    <3>1. (Sorting' <=> Sorting) /\ (Merging' <=> Merging) /\ (\A c : Forked(c)' <=> Forked(c))
      BY <2>0 DEF Sorting, Merging, Forked
    <3>2. Count' = Count /\ \A c : First(c)' = First(c) /\ Last(c)' = Last(c) /\ (HasPair(c)' <=> HasPair(c))
      BY <2>0, <3>1, SamePhase
    <3>3. \A c : HasPair(c)' = HasPair(c)
      BY <2>0, <3>1, <3>2 DEF HasPair
    <3> QED BY <2>0, <3>1, <3>2, <3>3 DEF SortInv
  <2> QED BY <2>1, <2>2, <2>3, <2>4, <2>5 DEF MergeSortInv, SortBase
<1> QED BY <1>1, <1>2, <1>3, <1>4, <1>5, <1>6, <1>7, <1>8 DEF ProgramsInv

(* What each of the programs relies on is an inductive invariant, whichever *)
(* of them runs and with however many workers.                              *)
THEOREM ProgramsInvariant == Spec => []ProgramsInv
<1>1. Init => ProgramsInv
  BY CrossingInit, SortBaseInit, SortInvInit, NothingLostInit, PrimesInit, PoolingInit, HeapInit, CpDirInit, DownloadInit
     DEF Init, ProgramsInv, MergeSortInv
<1>2. ProgramsInv /\ [Next]_vars => ProgramsInv'
  <2> SUFFICES ASSUME ProgramsInv, [Next]_vars PROVE ProgramsInv'
    OBVIOUS
  <2>1. CASE UNCHANGED vars
    BY <2>1, ProgramsAtRest
  <2>2. CASE crossing
    BY <2>2, CrossingStep DEF crossing, ProgramsInv
  <2>3. CASE mergesort
    BY <2>3, MergeSortStep DEF mergesort, ProgramsInv
  <2>4. CASE primes
    BY <2>4, PrimesStep DEF primes, ProgramsInv
  <2>5. CASE pooling
    BY <2>5, PoolingStep DEF pooling, ProgramsInv
  <2>6. CASE heapsearch
    BY <2>6, HeapStep DEF heapsearch, ProgramsInv
  <2>7. CASE cpdir
    BY <2>7, CpDirStep DEF cpdir, ProgramsInv
  <2>8. CASE download
    BY <2>8, DownloadStep DEF download, ProgramsInv
  <2> QED BY <2>1, <2>2, <2>3, <2>4, <2>5, <2>6, <2>7, <2>8 DEF Next, Step
<1> QED BY <1>1, <1>2, PTL DEF Spec

(* Every variable of the program that runs stays in its range, in every     *)
(* program: the cells a child of the merge sort is sent to and the size of  *)
(* its blocks, what is in the pipe of the primes, the offset in the file.   *)
THEOREM ProgramsTypeOK == Spec => []TypeOK
<1>1. ProgramsInv => TypeOK
  <2> SUFFICES ASSUME ProgramsInv PROVE TypeOK
    OBVIOUS
  <2>1. /\ program = "crossing" => X!TypeOK
        /\ program = "mergesort" => S!TypeOK
        /\ program = "primes" => P!TypeOK
        /\ program = "pooling" => B!TypeOK
        /\ program = "heapsearch" => H!TypeOK
        /\ program = "cpdir" => C!TypeOK
        /\ program = "download" => D!TypeOK
    BY CpDirTypeOK DEF ProgramsInv, CrossingInv, MergeSortInv, SortBase, PrimesInv, PoolingInv, HeapInv, DownloadInv
  <2> QED BY <2>1 DEF ProgramsInv, TypeOK
<1> QED BY <1>1, ProgramsInvariant, PTL

(* Crossing: the log has a line for every car that was announced, in the    *)
(* order of each spawner's numbers and with its movement.                   *)
THEOREM ProgramsLogFollowsCars == Spec => []LogFollowsCars
<1>1. ProgramsInv => LogFollowsCars
  BY FollowsCars DEF ProgramsInv, CrossingInv, LogFollowsCars
<1> QED BY <1>1, ProgramsInvariant, PTL

(* Merge sort: two children that run at the same time have no cell in       *)
(* common, be it sections that mergeSort() sorts or pairs of blocks that    *)
(* merge() joins, whatever the length of the array leaves over and          *)
(* whichever forks failed.                                                  *)
THEOREM ProgramsChildrenApart == Spec => []ChildrenApart
<1>1. ProgramsInv => ChildrenApart
  BY SortChildrenApart DEF ProgramsInv, MergeSortInv, ChildrenApart
<1> QED BY <1>1, ProgramsInvariant, PTL

(* Merge sort: no store of any child, in any order, loses or doubles a      *)
(* value: the cells that are not superseded and the copies that merge()     *)
(* made hold, together, what main() filled the array with.                  *)
THEOREM ProgramsNothingLost == Spec => []NothingLost
<1>1. ProgramsInv => NothingLost
  BY DEF ProgramsInv, MergeSortInv, NothingLost
<1> QED BY <1>1, ProgramsInvariant, PTL

(* Merge sort: when a round begins the blocks it merges are in order, and   *)
(* in the end the whole array is, unless a fork has failed: waiting for the *)
(* children of a round is enough, whatever the array's length leaves over.  *)
THEOREM ProgramsRoundsSorted == Spec => []RoundsSorted
<1>1. ProgramsInv => RoundsSorted
  BY SortedRounds DEF ProgramsInv, MergeSortInv, RoundsSorted
<1> QED BY <1>1, ProgramsInvariant, PTL

(* Primes: the sum that main() prints is that of the primes up to           *)
(* ANSWER_UP_TO, whatever nproc is and in whatever order the children write. *)
THEOREM ProgramsSumRight == Spec => []SumRight
<1>1. ProgramsInv => SumRight
  BY PrimesSumRight DEF ProgramsInv, SumRight
<1> QED BY <1>1, ProgramsInvariant, PTL

(* Pooling: a row whose child was born holds the maxima of its blocks when  *)
(* main() prints the result, whichever other forks failed.                  *)
THEOREM ProgramsRowsRight == Spec => []RowsRight
<1>1. ProgramsInv => RowsRight
  BY PoolingRowsRight DEF ProgramsInv, RowsRight
<1> QED BY <1>1, ProgramsInvariant, PTL

(* HeapSearch: every answer that is not -1 is the place of the number       *)
(* looked for, and each search finds it if its precondition holds.          *)
THEOREM ProgramsAnswersRight == Spec => []AnswersRight
<1>1. ProgramsInv => AnswersRight
  BY HeapAnswersRight DEF ProgramsInv, AnswersRight
<1> QED BY <1>1, ProgramsInvariant, PTL

(* CpDir: what the copy lacks in the end, it lacks for want of a directory; *)
(* the directories that were made are a tree from the root on.              *)
THEOREM ProgramsLossIsWholeSubtrees == Spec => []LossIsWholeSubtrees
<1>1. ProgramsInv => LossIsWholeSubtrees
  BY CpDirLosesSubtrees DEF ProgramsInv, LossIsWholeSubtrees
<1> QED BY <1>1, ProgramsInvariant, PTL

(* Download: no line is passed over, wherever the reads cut the lines and   *)
(* the children move the offset, whether or not the limit is reached; and   *)
(* what the child of a line is given is its address, unless it is torn.     *)
THEOREM ProgramsNoAddressSkipped == Spec => []NoAddressSkipped
<1>1. ProgramsInv => NoAddressSkipped
  BY DownloadSkipsNone DEF ProgramsInv, NoAddressSkipped
<1> QED BY <1>1, ProgramsInvariant, PTL

-----------------------------------------------------------------------------
(***************************************************************************)
(* Fork and join: what a step does to the workers that live, to main() and *)
(* to its round.                                                           *)
(***************************************************************************)
ForkJoinStep == [F!ForkJoinNext]_(F!forkJoinVars)

LEMMA WorkerStarts ==
  ASSUME NEW w \in AllWorkers, w \notin Alive, Alive' = Alive \union {w},
         Phase = "works", Phase' = Phase, Round' = Round
  PROVE  ForkJoinStep
  BY DEF ForkJoinStep, F!ForkJoinNext, F!StartWorker

LEMMA WorkerEnds ==
  ASSUME NEW w \in AllWorkers, w \in Alive, Alive' = Alive \ {w}, Phase' = Phase, Round' = Round
  PROVE  ForkJoinStep
  BY DEF ForkJoinStep, F!ForkJoinNext, F!EndWorker

LEMMA MainJoins ==
  ASSUME Alive = {}, Alive' = {}, Phase = "works", Phase' \in {"works", "joined"}
  PROVE  ForkJoinStep
  BY DEF ForkJoinStep, F!ForkJoinNext, F!Join

LEMMA MainLeaves ==
  ASSUME Alive' = Alive, Phase = "works", Phase' = "left", Round' = Round
  PROVE  ForkJoinStep
  BY DEF ForkJoinStep, F!ForkJoinNext, F!GiveUp

LEMMA NobodyChanges ==
  ASSUME Alive' = Alive, Phase' = Phase, Round' = Round
  PROVE  ForkJoinStep
  BY DEF ForkJoinStep, F!forkJoinVars

LEMMA CrossingForkJoin ==
  ASSUME CrossingInv, program = "crossing", program' = program, X!Next
  PROVE  ForkJoinStep
<1>0. at \in [Sources -> X!Labels] /\ main \in {"create", "join", "destroyed"}
  BY DEF CrossingInv, X!TypeOK
<1>1. /\ Alive = {d \in Sources : at[d] \notin {"uncreated", "end"}}
      /\ Alive' = {d \in Sources : at'[d] \notin {"uncreated", "end"}}
  BY DEF Alive
<1>2. main' = main => Phase' = Phase /\ Round' = Round
  BY <1>0 DEF Phase, Round
<1>3. ASSUME NEW d \in Sources, X!CreateSpawner(d) PROVE ForkJoinStep
  <2>1. /\ main = "create" /\ main' \in {"create", "join"} /\ at[d] = "uncreated"
        /\ at' = [at EXCEPT ![d] = "draw"]
    BY <1>3 DEF X!CreateSpawner
  <2>2. d \notin Alive /\ Alive' = Alive \union {d}
    BY <1>0, <1>1, <2>1
  <2>3. Phase = "works" /\ Phase' = Phase /\ Round' = Round
    BY <2>1 DEF Phase, Round
  <2> QED BY <2>2, <2>3, WorkerStarts DEF AllWorkers
<1>4. ASSUME NEW d \in Sources, NEW from, NEW to, X!Goto(d, from, to),
             from \notin {"uncreated", "end"}, to \notin {"uncreated", "end"}
      PROVE  ForkJoinStep
  <2>1. at[d] = from /\ at' = [at EXCEPT ![d] = to] /\ main' = main
    BY <1>4 DEF X!Goto
  <2>2. Alive' = Alive
    BY <1>0, <1>1, <1>4, <2>1
  <2> QED BY <1>2, <2>1, <2>2, NobodyChanges
<1>5. ASSUME NEW d \in Sources, X!SpawnerReturns(d) PROVE ForkJoinStep
  <2>1. at[d] = "draw" /\ at' = [at EXCEPT ![d] = "end"] /\ main' = main
    BY <1>5 DEF X!SpawnerReturns, X!Goto
  <2>2. d \in Alive /\ Alive' = Alive \ {d}
    BY <1>0, <1>1, <2>1
  <2> QED BY <1>2, <2>1, <2>2, WorkerEnds DEF AllWorkers
<1>6. ASSUME X!JoinAndDestroy PROVE ForkJoinStep
  <2>1. main = "join" /\ main' = "destroyed" /\ at' = at /\ \A d \in Sources : at[d] = "end"
    BY <1>6 DEF X!JoinAndDestroy
  <2>2. Alive = {} /\ Alive' = {}
    BY <1>1, <2>1
  <2>3. Phase = "works" /\ Phase' = "joined"
    BY <2>1 DEF Phase
  <2> QED BY <2>2, <2>3, MainJoins
<1>7. ASSUME NEW d \in Sources, X!car_spawner(d) PROVE ForkJoinStep
  <2>1. CASE X!DrawMovement(d)
    BY <1>4, <2>1 DEF X!DrawMovement
  <2>2. CASE X!LockDirection(d)
    BY <1>4, <2>2 DEF X!LockDirection
  <2>3. CASE X!LockPrint(d)
    BY <1>4, <2>3 DEF X!LockPrint
  <2>4. CASE X!PrintMessage(d)
    BY <1>4, <2>4 DEF X!PrintMessage
  <2>5. CASE X!UnlockPrint(d)
    BY <1>4, <2>5 DEF X!UnlockPrint
  <2>6. CASE X!LeaveIntersection(d)
    BY <1>4, <2>6 DEF X!LeaveIntersection
  <2>7. CASE X!SpawnerReturns(d)
    BY <1>5, <2>7
  <2> QED BY <1>7, <2>1, <2>2, <2>3, <2>4, <2>5, <2>6, <2>7 DEF X!car_spawner, X!safe_print
<1> QED BY <1>3, <1>6, <1>7 DEF X!Next

LEMMA SortForkJoin ==
  ASSUME SortBase, SortBase', program = "mergesort", program' = program, S!Next
  PROVE  ForkJoinStep
<1>0. S!TypeOK /\ RoundInv /\ RoundInv'
  BY DEF SortBase
<1>1. /\ Alive = {c \in S!Kids : todo[c] # <<>>}
      /\ Alive' = {c \in S!Kids : todo'[c] # <<>>}
  BY DEF Alive
<1>2. /\ todo \in [S!Kids -> Seq(S!Calls)] /\ i \in S!Kids
      /\ main \in {"fork_sort", "wait_sort", "fork_merge", "wait_merge", "done"}
  BY <1>0 DEF S!TypeOK
<1>3. S!Kids \subseteq AllWorkers
  BY DEF AllWorkers
<1>4. ASSUME NEW c \in S!Kids, S!child(c) PROVE ForkJoinStep
  <2>1. /\ main' = main /\ size' = size /\ todo[c] # <<>>
        /\ \A d \in S!Kids : d # c => todo'[d] = todo[d]
    BY <1>4, ChildEffect DEF S!child
  <2>2. Phase' = Phase /\ Round' = Round
    BY <2>1 DEF Phase, Round
  <2>3. CASE todo'[c] = <<>>
    <3>1. c \in Alive /\ Alive' = Alive \ {c}
      BY <1>1, <2>1, <2>3
    <3> QED BY <1>3, <2>2, <3>1, WorkerEnds
  <2>4. CASE todo'[c] # <<>>
    <3>1. Alive' = Alive
      BY <1>1, <2>1, <2>4
    <3> QED BY <2>2, <3>1, NobodyChanges
  <2> QED BY <2>3, <2>4
<1>5. ASSUME NEW calls, main' \in {main, IF main = "fork_sort" THEN "wait_sort" ELSE "wait_merge"},
             main \in {"fork_sort", "fork_merge"}, size' = size,
             S!Fork(i, calls) \/ todo' = todo
      PROVE  ForkJoinStep
  <2>1. Phase = "works" /\ Phase' = Phase /\ Round' = Round
    BY <1>5 DEF Phase, Round
  <2>2. todo[i] = <<>>
    <3>1. i <= i
      BY <1>2, SortConstants DEF S!Kids
    <3> QED BY <1>0, <1>2, <1>5, <3>1 DEF RoundInv, Idling
  <2>3. CASE todo' = todo
    BY <1>1, <2>1, <2>3, NobodyChanges
  <2>4. CASE todo' = [todo EXCEPT ![i] = calls]
    <3>1. CASE calls = <<>>
      <4>1. Alive' = Alive
        BY <1>1, <1>2, <2>2, <2>4, <3>1
      <4> QED BY <2>1, <4>1, NobodyChanges
    <3>2. CASE calls # <<>>
      <4>1. i \notin Alive /\ Alive' = Alive \union {i}
        BY <1>1, <1>2, <2>2, <2>4, <3>2
      <4> QED BY <1>2, <1>3, <2>1, <4>1, WorkerStarts
    <3> QED BY <3>1, <3>2
  <2> QED BY <1>5, <2>3, <2>4 DEF S!Fork, S!kids
<1>6. CASE S!ForkSort
  BY <1>5, <1>6 DEF S!ForkSort, S!LoopPass
<1>7. CASE S!ForkMerge
  BY <1>5, <1>7 DEF S!ForkMerge, S!LoopPass, S!kids
<1>8. ASSUME NEW s, NEW count, main \in {"wait_sort", "wait_merge"}, todo' = todo,
             S!LoopPass(main, count, S!NextRound(s)),
             i + 1 # count => size' = size
      PROVE  ForkJoinStep
  <2>1. CASE i + 1 # count
    <3>1. main' = main /\ size' = size
      BY <1>8, <2>1 DEF S!LoopPass
    <3>2. Phase' = Phase /\ Round' = Round
      BY <3>1 DEF Phase, Round
    <3> QED BY <1>1, <1>8, <3>2, NobodyChanges
  <2>2. CASE i + 1 = count
    <3>1. main' \in {"fork_merge", "done"} /\ i' = 0
      <4>1. i + 1 \in Nat /\ 1 <= i + 1
        BY <1>2, SortConstants DEF S!Kids
      <4>2. i' = (i + 1) % count /\ main' = S!NextRound(s)
        BY <1>8, <2>2 DEF S!LoopPass
      <4> QED BY <2>2, <4>1, <4>2 DEF S!NextRound
    <3>2. ASSUME NEW c \in S!Kids PROVE todo'[c] = <<>>
      <4>1. 0 <= c
        BY SortConstants DEF S!Kids
      <4> QED BY <1>0, <3>1, <4>1 DEF RoundInv, Idling
    <3>3. Alive = {} /\ Alive' = {}
      BY <1>1, <1>8, <3>2
    <3>4. Phase = "works" /\ Phase' \in {"works", "joined"}
      BY <1>8, <3>1 DEF Phase
    <3> QED BY <3>3, <3>4, MainJoins
  <2> QED BY <2>1, <2>2
<1>9. CASE S!WaitSort
  BY <1>8, <1>9 DEF S!WaitSort, S!LoopPass, S!kids
<1>10. CASE S!WaitMerge
  BY <1>8, <1>10 DEF S!WaitMerge, S!LoopPass, S!kids
<1> QED BY <1>4, <1>6, <1>7, <1>9, <1>10 DEF S!Next, S!parent

LEMMA PrimesForkJoin ==
  ASSUME PrimesInv, program = "primes", program' = program, P!Next
  PROVE  ForkJoinStep
<1>0. /\ at \in [P!Kids -> {"unborn", "starts", "searches", "exited", "killed"}]
      /\ main \in {"fork", "close", "read", "wait", "done", "failed"}
      /\ P!Kids \subseteq AllWorkers
  BY DEF PrimesInv, P!TypeOK, AllWorkers
<1>1. /\ Alive = {c \in P!Kids : at[c] \in {"starts", "searches"}}
      /\ Alive' = {c \in P!Kids : at'[c] \notin {"unborn", "exited", "killed"}}
  BY <1>0 DEF Alive, P!Ended
<1>2. main' \in {"fork", "close", "read", "wait", "done", "failed"} => Round' = Round
  BY <1>0 DEF Round
<1>3. ASSUME NEW c \in P!Kids, NEW label, label \in {"exited", "killed"}, at[c] = "searches",
             at' = [at EXCEPT ![c] = label], main' = main
      PROVE  ForkJoinStep
  <2>1. c \in Alive /\ Alive' = Alive \ {c}
    BY <1>0, <1>1, <1>3
  <2>2. Phase' = Phase /\ Round' = Round
    BY <1>0, <1>2, <1>3 DEF Phase
  <2> QED BY <1>0, <2>1, <2>2, WorkerEnds
<1>4. ASSUME Alive' = Alive, main' = main PROVE ForkJoinStep
  <2>1. Phase' = Phase /\ Round' = Round
    BY <1>0, <1>2, <1>4 DEF Phase
  <2> QED BY <1>4, <2>1, NobodyChanges
<1>5. ASSUME NEW c \in P!Kids, P!child(c) PROVE ForkJoinStep
  <2>1. CASE P!CloseReadEnd(c)
    <3>1. at[c] = "starts" /\ at' = [at EXCEPT ![c] = "searches"] /\ main' = main
      BY <2>1 DEF P!CloseReadEnd
    <3>2. Alive' = Alive
      BY <1>0, <1>1, <3>1
    <3> QED BY <1>4, <3>1, <3>2
  <2>2. CASE P!SkipNumber(c) \/ P!WritePrime(c)
    <3>1. at' = at /\ main' = main
      BY <2>2 DEF P!SkipNumber, P!WritePrime
    <3>2. Alive' = Alive
      BY <1>0, <1>1, <3>1
    <3> QED BY <1>4, <3>1, <3>2
  <2>3. CASE P!DieOfSigpipe(c)
    BY <1>3, <2>3 DEF P!DieOfSigpipe
  <2>4. CASE P!ChildExits(c)
    BY <1>3, <2>4 DEF P!ChildExits
  <2> QED BY <1>5, <2>1, <2>2, <2>3, <2>4 DEF P!child
<1>6. CASE P!ForkChild
  <2>1. /\ main = "fork" /\ main' \in {"fork", "close"} /\ at' = [at EXCEPT ![i] = "starts"]
    BY <1>6 DEF P!ForkChild
  <2>2. i \in P!Kids /\ at[i] = "unborn"
    <3>1. i \in 0 .. nproc /\ i < nproc /\ nproc \in Nat
      BY <2>1, ProgramsAssumption DEF PrimesInv, P!TypeOK, SearchInv, ProgramsAssumption, P!PrimesAssumption
    <3>2. i \in P!Kids /\ i >= i
      BY <3>1 DEF P!Kids
    <3> QED BY <3>2 DEF PrimesInv, SearchInv
  <2>3. i \notin Alive /\ Alive' = Alive \union {i}
    BY <1>0, <1>1, <2>1, <2>2
  <2>4. Phase = "works" /\ Phase' = Phase /\ Round' = Round
    BY <1>2, <2>1 DEF Phase
  <2> QED BY <1>0, <2>2, <2>3, <2>4, WorkerStarts
<1>7. CASE P!ForkFails
  <2>1. main = "fork" /\ main' = "failed" /\ at' = at
    BY <1>7 DEF P!ForkFails
  <2>2. Alive' = Alive /\ Phase = "works" /\ Phase' = "left" /\ Round' = Round
    BY <1>0, <1>1, <1>2, <2>1 DEF Phase
  <2> QED BY <2>2, MainLeaves
<1>8. CASE P!CloseWriteEnd \/ P!ReadPrime \/ P!ReadEndOfFile
  <2>1. /\ main \in {"close", "read"} /\ main' \in {"read", "wait"} /\ at' = at
    BY <1>8 DEF P!CloseWriteEnd, P!ReadPrime, P!ReadEndOfFile
  <2>2. Alive' = Alive /\ Phase' = Phase /\ Round' = Round
    BY <1>0, <1>1, <1>2, <2>1 DEF Phase
  <2> QED BY <2>2, NobodyChanges
<1>9. CASE P!WaitForAll
  <2>1. main = "wait" /\ main' = "done" /\ at' = at /\ \A c \in P!Kids : P!Ended(c)
    BY <1>9 DEF P!WaitForAll
  <2>2. Alive = {} /\ Alive' = {}
    BY <1>1, <2>1 DEF P!Ended
  <2>3. Phase = "works" /\ Phase' = "joined"
    BY <2>1 DEF Phase
  <2> QED BY <2>2, <2>3, MainJoins
<1> QED BY <1>5, <1>6, <1>7, <1>8, <1>9 DEF P!Next, P!parent

LEMMA PoolingForkJoin ==
  ASSUME PoolingInv, PoolingInv', program = "pooling", program' = program, B!Next
  PROVE  ForkJoinStep
<1>0. /\ at \in [B!Rows -> {"unborn", "works", "exited"}]
      /\ main \in {"fork", "wait", "done"}
      /\ B!Rows \subseteq AllWorkers
  BY DEF PoolingInv, B!TypeOK, AllWorkers
<1>1. /\ Alive = {r \in B!Rows : at[r] = "works"}
      /\ Alive' = {r \in B!Rows : at'[r] = "works"}
  BY DEF Alive, B!Working
<1>2. main' \in {"fork", "wait", "done"} => Round' = Round
  BY <1>0 DEF Round
<1>3. ASSUME Alive' = Alive, main' = main PROVE ForkJoinStep
  <2>1. Phase' = Phase /\ Round' = Round
    BY <1>0, <1>2, <1>3 DEF Phase
  <2> QED BY <1>3, <2>1, NobodyChanges
<1>4. ASSUME NEW r \in B!Rows, B!child(r) PROVE ForkJoinStep
  <2>1. CASE B!StoreMaximum(r)
    BY <1>1, <1>3, <2>1 DEF B!StoreMaximum
  <2>2. CASE B!ChildExits(r)
    <3>1. at[r] = "works" /\ at' = [at EXCEPT ![r] = "exited"] /\ main' = main
      BY <2>2 DEF B!ChildExits
    <3>2. r \in Alive /\ Alive' = Alive \ {r}
      BY <1>0, <1>1, <3>1
    <3>3. Phase' = Phase /\ Round' = Round
      BY <1>0, <1>2, <3>1 DEF Phase
    <3> QED BY <1>0, <3>2, <3>3, WorkerEnds
  <2> QED BY <1>4, <2>1, <2>2 DEF B!child
<1>5. ASSUME B!ForkPass PROVE Phase = "works" /\ Phase' = Phase /\ Round' = Round
  <2>1. main = "fork" /\ main' \in {"fork", "wait"}
    BY <1>5 DEF B!ForkPass
  <2> QED BY <1>2, <2>1 DEF Phase
<1>6. CASE B!ForkChild
  <2>1. B!ForkPass /\ at' = [at EXCEPT ![i] = "works"]
    BY <1>6 DEF B!ForkChild
  <2>2. i \in B!Rows /\ at[i] = "unborn"
    <3>1. main = "fork" /\ i \in 0 .. B!M_OUT /\ i < B!M_OUT /\ B!M_OUT \in Int
      BY <2>1, PoolingSizes DEF B!ForkPass, PoolingInv, B!TypeOK, RowsWaited
    <3>2. i \in B!Rows /\ i <= i
      BY <3>1 DEF B!Rows
    <3> QED BY <3>1, <3>2 DEF PoolingInv, RowsWaited
  <2>3. i \notin Alive /\ Alive' = Alive \union {i}
    BY <1>0, <1>1, <2>1, <2>2
  <2> QED BY <1>0, <1>5, <2>1, <2>2, <2>3, WorkerStarts
<1>7. CASE B!ForkFails
  BY <1>1, <1>5, <1>7, NobodyChanges DEF B!ForkFails
<1>8. CASE B!WaitForChild
  <2>1. main = "wait" /\ main' \in {"wait", "done"} /\ at' = at
    BY <1>8 DEF B!WaitForChild
  <2>2. CASE main' = "wait"
    BY <1>1, <1>3, <2>1, <2>2
  <2>3. CASE main' = "done"
    <3>1. Alive' = {}
      BY <1>1, <2>3 DEF PoolingInv, RowsWaited, B!Working
    <3>2. Alive = {} /\ Phase = "works" /\ Phase' = "joined"
      BY <1>1, <2>1, <2>3, <3>1 DEF Phase
    <3> QED BY <3>1, <3>2, MainJoins
  <2> QED BY <2>1, <2>2, <2>3
<1> QED BY <1>4, <1>6, <1>7, <1>8 DEF B!Next

LEMMA HeapForkJoin ==
  ASSUME HeapInv, program = "heapsearch", program' = program, H!Next
  PROVE  ForkJoinStep
<1>0. /\ at \in [H!Workers -> ThreadLabels \union ProcessLabels]
      /\ main \in {"create", "join", "fork", "wait", "done"}
      /\ H!Workers \subseteq AllWorkers
  BY HeapTyped DEF HeapInv, H!TypeOK, AllWorkers
<1>1. /\ Alive = {w \in H!Workers : at[w] \notin {"unborn", "ended"}}
      /\ Alive' = {w \in H!Workers : at'[w] \notin {"unborn", "ended"}}
  BY DEF Alive
<1>2. ASSUME main' = main PROVE Phase' = Phase /\ Round' = Round
  BY <1>0, <1>2 DEF Phase, Round
<1>3. ASSUME NEW w \in H!Workers, NEW from, NEW to, H!Goto(w, from, to), main' = main,
             from \notin {"unborn", "ended"}, to # "unborn"
      PROVE  ForkJoinStep
  <2>1. at[w] = from /\ at' = [at EXCEPT ![w] = to]
    BY <1>3 DEF H!Goto
  <2>2. Phase' = Phase /\ Round' = Round
    BY <1>2, <1>3
  <2>3. CASE to = "ended"
    <3>1. w \in Alive /\ Alive' = Alive \ {w}
      BY <1>0, <1>1, <1>3, <2>1, <2>3
    <3> QED BY <1>0, <2>2, <3>1, WorkerEnds
  <2>4. CASE to # "ended"
    <3>1. Alive' = Alive
      BY <1>0, <1>1, <1>3, <2>1, <2>4
    <3> QED BY <2>2, <3>1, NobodyChanges
  <2> QED BY <2>3, <2>4
<1>4. ASSUME NEW w \in H!Workers, H!searchMinHeapSection(w) \/ H!search(w) PROVE ForkJoinStep
  <2>1. CASE H!LoopTest(w)
    BY <1>3, <2>1 DEF H!LoopTest
  <2>2. CASE H!StoreMatch(w)
    BY <1>3, <2>2 DEF H!StoreMatch
  <2>3. CASE H!NextElement(w)
    BY <1>3, <2>3 DEF H!NextElement
  <2>4. CASE H!FindFirst(w)
    BY <1>3, <2>4 DEF H!FindFirst
  <2>5. CASE H!CheckResult(w)
    BY <1>3, <2>5 DEF H!CheckResult
  <2>6. CASE H!StoreResult(w)
    BY <1>3, <2>6 DEF H!StoreResult
  <2> QED BY <1>4, <2>1, <2>2, <2>3, <2>4, <2>5, <2>6 DEF H!searchMinHeapSection, H!search
<1>5. ASSUME NEW label, label \in {"loops", "searches"}, i \in H!Workers, at[i] = "unborn",
             at' = [at EXCEPT ![i] = label], Phase = "works", Phase' = Phase, Round' = Round
      PROVE  ForkJoinStep
  <2>1. i \notin Alive /\ Alive' = Alive \union {i}
    BY <1>0, <1>1, <1>5
  <2> QED BY <1>0, <1>5, <2>1, WorkerStarts
<1>6. CASE H!CreateThread
  <2>1. main = "create" /\ main' = main /\ at' = [at EXCEPT ![i] = "loops"] /\ i < NUM_THREADS
    BY <1>6 DEF H!CreateThread
  <2>2. i \in H!Workers /\ i >= i
    BY <2>1, HeapWorkers, HeapConstants DEF HeapInv, H!TypeOK
  <2>3. at[i] = "unborn"
    BY <2>1, <2>2 DEF HeapInv, HeapPhases
  <2>4. Phase = "works"
    BY <2>1 DEF Phase
  <2> QED BY <1>2, <1>5, <2>1, <2>2, <2>3, <2>4
<1>7. CASE H!EndCreation
  <2>1. main = "create" /\ main' = "join" /\ at' = at
    BY <1>7 DEF H!EndCreation
  <2>2. Phase' = Phase /\ Round' = Round /\ Alive' = Alive
    BY <1>1, <2>1 DEF Phase, Round
  <2> QED BY <2>2, NobodyChanges
<1>8. CASE H!JoinThreads
  <2>1. main = "join" /\ main' = "fork" /\ H!Idle /\ at' = [w \in H!Workers |-> "unborn"]
    BY <1>8 DEF H!JoinThreads
  <2>2. Alive = {} /\ Alive' = {}
    BY <1>1, <2>1 DEF H!Idle
  <2>3. Phase = "works" /\ Phase' = "works"
    BY <2>1 DEF Phase
  <2> QED BY <2>2, <2>3, MainJoins
<1>9. ASSUME H!ForkPass PROVE main = "fork" /\ Phase = "works" /\ Phase' = Phase /\ Round' = Round
  <2>1. main = "fork" /\ main' \in {"fork", "wait"}
    BY <1>9 DEF H!ForkPass
  <2> QED BY <2>1 DEF Phase, Round
<1>10. CASE H!ForkProcess
  <2>1. H!ForkPass /\ main = "fork" /\ at' = [at EXCEPT ![i] = "searches"]
    BY <1>10 DEF H!ForkProcess, H!ForkPass
  <2>2. i \in H!Workers /\ i >= i
    BY <2>1, HeapWorkers, HeapConstants DEF HeapInv, H!TypeOK, HeapPhases
  <2>3. at[i] = "unborn"
    BY <2>1, <2>2 DEF HeapInv, HeapPhases
  <2> QED BY <1>5, <1>9, <2>1, <2>2, <2>3
<1>11. CASE H!ForkFails
  <2>1. Alive' = Alive
    BY <1>1, <1>11 DEF H!ForkFails
  <2> QED BY <1>9, <1>11, <2>1, NobodyChanges DEF H!ForkFails
<1>12. CASE H!WaitForProcesses
  <2>1. main = "wait" /\ main' = "done" /\ H!Idle /\ at' = at
    BY <1>12 DEF H!WaitForProcesses
  <2>2. Alive = {} /\ Alive' = {}
    BY <1>1, <2>1 DEF H!Idle
  <2>3. Phase = "works" /\ Phase' = "joined"
    BY <2>1 DEF Phase
  <2> QED BY <2>2, <2>3, MainJoins
<1> QED BY <1>4, <1>6, <1>7, <1>8, <1>10, <1>11, <1>12 DEF H!Next, H!parent

LEMMA CpDirForkJoin ==
  ASSUME CpDirInv, CpDirInv', program = "cpdir", program' = program, C!Next
  PROVE  ForkJoinStep
<1>0. /\ at \in [Dirs \union Files -> CopyStates] /\ at' \in [Dirs \union Files -> CopyStates]
      /\ main \in {"mkdirs", "joindirs", "copies", "joincopies", "done"}
      /\ Dirs \union Files \subseteq AllWorkers
  BY DEF CpDirInv, CpDirTyped, AllWorkers
<1>1. /\ Alive = {t \in Dirs \union Files : at[t] \in {"starts", "copies"}}
      /\ Alive' = {t \in Dirs \union Files : at'[t] \in {"starts", "copies"}}
  BY <1>0 DEF Alive, C!Ended, CopyStates
<1>2. ASSUME main' = main PROVE Phase' = Phase /\ Round' = Round
  BY <1>0, <1>2 DEF Phase, Round
<1>3. ASSUME NEW t \in Dirs \union Files, C!thread(t) PROVE ForkJoinStep
  <2>1. /\ main' = main
        /\ \/ C!Advance(t, "starts", "ended") \/ C!Advance(t, "copies", "ended")
           \/ C!Advance(t, "starts", "copies")
    BY <1>3 DEF C!thread, C!MakeDirectory, C!OpenFails, C!OpenCopy, C!CopyContent
  <2>2. CASE C!Advance(t, "starts", "ended") \/ C!Advance(t, "copies", "ended")
    <3>1. t \in Alive /\ Alive' = Alive \ {t}
      BY <1>0, <1>1, <2>2 DEF C!Advance
    <3> QED BY <1>0, <1>2, <2>1, <3>1, WorkerEnds
  <2>3. CASE C!Advance(t, "starts", "copies")
    <3>1. Alive' = Alive
      BY <1>0, <1>1, <2>3 DEF C!Advance
    <3> QED BY <1>2, <2>1, <3>1, NobodyChanges
  <2> QED BY <2>1, <2>2, <2>3
<1>4. ASSUME NEW t \in Dirs \union Files, C!Advance(t, "uncreated", "starts"), main' = main,
             main \in {"mkdirs", "copies"}
      PROVE  ForkJoinStep
  <2>1. t \notin Alive /\ Alive' = Alive \union {t}
    BY <1>0, <1>1, <1>4 DEF C!Advance
  <2>2. Phase = "works"
    BY <1>4 DEF Phase
  <2> QED BY <1>0, <1>2, <1>4, <2>1, <2>2, WorkerStarts
<1>5. CASE C!CreateThread("mkdirs", C!dirList)
  <2>1. i + 1 \in 1 .. Len(C!dirList)
    BY <1>5, Listings DEF C!CreateThread, CpDirInv, CpDirTyped
  <2>2. C!dirList[i + 1] \in Dirs
    BY <2>1, Listings
  <2> QED BY <1>4, <1>5, <2>2 DEF C!CreateThread
<1>6. CASE C!CreateThread("copies", C!fileList)
  <2>1. i + 1 \in 1 .. Len(C!fileList)
    BY <1>6, Listings DEF C!CreateThread, CpDirInv, CpDirTyped
  <2>2. C!fileList[i + 1] \in Files
    BY <2>1, Listings
  <2> QED BY <1>4, <1>6, <2>2 DEF C!CreateThread
<1>7. CASE C!CreatedAll("mkdirs", C!dirList, "joindirs") \/ C!CreatedAll("copies", C!fileList, "joincopies")
  <2>1. /\ at' = at
        /\ (main = "mkdirs" /\ main' = "joindirs") \/ (main = "copies" /\ main' = "joincopies")
    BY <1>7 DEF C!CreatedAll
  <2>2. Alive' = Alive /\ Phase' = Phase /\ Round' = Round
    BY <1>1, <2>1 DEF Phase, Round
  <2> QED BY <2>2, NobodyChanges
<1>8. CASE C!JoinAll("joindirs", Dirs, "copies") \/ C!JoinAll("joincopies", Files, "done")
  <2>1. /\ at' = at
        /\ \/ main = "joindirs" /\ main' = "copies" /\ \A d \in Dirs : at[d] = "ended"
           \/ main = "joincopies" /\ main' = "done" /\ \A f \in Files : at[f] = "ended"
    BY <1>8 DEF C!JoinAll
  <2>2. \A t \in Dirs \union Files : at[t] \in {"uncreated", "ended"}
    BY <2>1 DEF CpDirInv, PhaseInv
  <2>3. Alive = {} /\ Alive' = {}
    BY <1>1, <2>1, <2>2
  <2>4. Phase = "works" /\ Phase' \in {"works", "joined"}
    BY <2>1 DEF Phase
  <2> QED BY <2>3, <2>4, MainJoins
<1> QED BY <1>3, <1>5, <1>6, <1>7, <1>8 DEF C!Next, C!createAllDirectories, C!copyAllFiles

LEMMA DownloadForkJoin ==
  ASSUME DownloadInv, program = "download", program' = program, D!Next
  PROVE  ForkJoinStep
<1>0. /\ at \in [D!Kids -> {"unborn", "downloads", "ended"}]
      /\ main \in {"reads", "waits", "done", "failed"}
      /\ D!Kids \subseteq AllWorkers
  BY DEF DownloadInv, D!TypeOK, AllWorkers
<1>1. /\ Alive = {k \in D!Kids : at[k] = "downloads"}
      /\ Alive' = {k \in D!Kids : at'[k] = "downloads"}
  BY DEF Alive
<1>2. main' \in {"reads", "waits", "done", "failed"} => Round' = Round
  BY <1>0 DEF Round
<1>3. ASSUME at' = at, main \in {"reads", "waits"}, main' \in {"reads", "waits"} PROVE ForkJoinStep
  <2>1. Alive' = Alive /\ Phase' = Phase /\ Round' = Round
    BY <1>1, <1>2, <1>3 DEF Phase
  <2> QED BY <2>1, NobodyChanges
<1>4. CASE D!FillBuffer \/ D!EndOfFile \/ D!LimitReached
  BY <1>3, <1>4 DEF D!FillBuffer, D!EndOfFile, D!LimitReached, D!TakeLine
<1>5. CASE D!ForkChild
  <2>1. main = "reads" /\ main' = main /\ at' = [at EXCEPT ![num_urls] = "downloads"]
    BY <1>5 DEF D!ForkChild, D!TakeLine, D!ForkFor
  <2>2. num_urls \in D!Kids /\ at[num_urls] = "unborn"
    <3>1. num_urls \in 0 .. MAX_URLS /\ num_urls < MAX_URLS /\ MAX_URLS \in Nat
      BY <1>5, ProgramsAssumption
         DEF D!ForkChild, D!ForkFor, DownloadInv, D!TypeOK, ProgramsAssumption, D!DownloadAssumption
    <3>2. num_urls \in D!Kids /\ num_urls >= num_urls
      BY <3>1 DEF D!Kids
    <3> QED BY <3>2 DEF DownloadInv, ChildrenNumbered
  <2>3. num_urls \notin Alive /\ Alive' = Alive \union {num_urls}
    BY <1>0, <1>1, <2>1, <2>2
  <2>4. Phase = "works" /\ Phase' = Phase /\ Round' = Round
    BY <1>2, <2>1 DEF Phase
  <2> QED BY <1>0, <2>2, <2>3, <2>4, WorkerStarts
<1>6. CASE D!ForkFails
  <2>1. main = "reads" /\ main' = "failed" /\ at' = at
    BY <1>6 DEF D!ForkFails, D!TakeLine
  <2>2. Alive' = Alive /\ Phase = "works" /\ Phase' = "left" /\ Round' = Round
    BY <1>1, <1>2, <2>1 DEF Phase
  <2> QED BY <2>2, MainLeaves
<1>7. CASE D!WaitForAll
  <2>1. main = "waits" /\ main' = "done" /\ at' = at /\ \A k \in D!Kids : at[k] # "downloads"
    BY <1>7 DEF D!WaitForAll
  <2>2. Alive = {} /\ Alive' = {} /\ Phase = "works" /\ Phase' = "joined"
    BY <1>1, <2>1 DEF Phase
  <2> QED BY <2>2, MainJoins
<1>8. ASSUME NEW k \in D!Kids, D!ChildExits(k) PROVE ForkJoinStep
  <2>1. at[k] = "downloads" /\ at' = [at EXCEPT ![k] = "ended"] /\ main' = main
    BY <1>8 DEF D!ChildExits
  <2>2. k \in Alive /\ Alive' = Alive \ {k}
    BY <1>0, <1>1, <2>1
  <2>3. Phase' = Phase /\ Round' = Round
    BY <1>0, <1>2, <2>1 DEF Phase
  <2> QED BY <1>0, <2>2, <2>3, WorkerEnds
<1> QED BY <1>4, <1>5, <1>6, <1>7, <1>8 DEF D!Next, D!parent

(* In the beginning no program has a worker. *)
LEMMA ForkJoinStarts == Init => F!ForkJoinInit
<1> SUFFICES ASSUME Init PROVE Phase = "works" /\ Round = 0 /\ Alive = {}
  BY DEF F!ForkJoinInit
<1>1. CASE program = "crossing" /\ X!Init
  BY <1>1 DEF X!Init, Phase, Round, Alive
<1>2. CASE program = "mergesort" /\ S!Init
  BY <1>2 DEF S!Init, Phase, Round, Alive
<1>3. CASE program = "primes" /\ P!Init
  BY <1>3 DEF P!Init, Phase, Round, Alive, P!Ended
<1>4. CASE program = "pooling" /\ B!Init
  BY <1>4 DEF B!Init, Phase, Round, Alive, B!Working
<1>5. CASE program = "heapsearch" /\ H!Init
  BY <1>5 DEF H!Init, Phase, Round, Alive
<1>6. CASE program = "cpdir" /\ C!Init
  BY <1>6 DEF C!Init, Phase, Round, Alive, C!Ended
<1>7. CASE program = "download" /\ D!Init
  BY <1>7 DEF D!Init, Phase, Round, Alive
<1> QED BY <1>1, <1>2, <1>3, <1>4, <1>5, <1>6, <1>7 DEF Init

(* A program that has come to rest keeps its workers' and main()'s state.   *)
LEMMA ForkJoinRests ==
  ASSUME UNCHANGED vars
  PROVE  ForkJoinStep
<1>1. program' = program /\ main' = main /\ at' = at /\ size' = size /\ todo' = todo
  BY DEF vars, crossingOwn, mergeSortOwn
<1>2. Phase' = Phase /\ Round' = Round
  BY <1>1 DEF Phase, Round
<1>3. Alive' = Alive
  BY <1>1 DEF Alive, P!Ended, B!Working, C!Ended
<1> QED BY <1>2, <1>3, NobodyChanges

(* Whatever a program does, it is something that fork and join allows: its  *)
(* main() gets past its waits only when no worker of the round is left,     *)
(* with any number of workers, whoever is slow and whichever forks fail.    *)
THEOREM ProgramsImplementForkJoin == Spec => ImplementsForkJoin
<1>1. ProgramsInv /\ ProgramsInv' /\ [Next]_vars => [F!ForkJoinNext]_(F!forkJoinVars)
  <2> SUFFICES ASSUME ProgramsInv, ProgramsInv', [Next]_vars PROVE ForkJoinStep
    BY DEF ForkJoinStep
  <2>1. CASE UNCHANGED vars
    BY <2>1, ForkJoinRests
  <2>2. CASE crossing
    BY <2>2, CrossingForkJoin DEF crossing, ProgramsInv
  <2>3. CASE mergesort
    BY <2>3, SortForkJoin DEF mergesort, ProgramsInv, MergeSortInv
  <2>4. CASE primes
    BY <2>4, PrimesForkJoin DEF primes, ProgramsInv
  <2>5. CASE pooling
    BY <2>5, PoolingForkJoin DEF pooling, ProgramsInv
  <2>6. CASE heapsearch
    BY <2>6, HeapForkJoin DEF heapsearch, ProgramsInv
  <2>7. CASE cpdir
    BY <2>7, CpDirForkJoin DEF cpdir, ProgramsInv
  <2>8. CASE download
    BY <2>8, DownloadForkJoin DEF download, ProgramsInv
  <2> QED BY <2>1, <2>2, <2>3, <2>4, <2>5, <2>6, <2>7, <2>8 DEF Next, Step
<1> QED BY ForkJoinStarts, <1>1, ProgramsInvariant, PTL DEF Spec, ImplementsForkJoin, F!ForkJoinSpec

=============================================================================
