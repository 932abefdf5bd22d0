---------------------------- MODULE InductionLemmas ----------------------------
(***************************************************************************)
(* What the proofs about the programs need of sets of numbers, and of      *)
(* functions that are defined by recursion: a proof by induction takes the *)
(* smallest counterexample, and a recursive function has its defining      *)
(* equation because some function has it.                                  *)
(***************************************************************************)
EXTENDS Integers, FiniteSets, FiniteSetTheorems, WellFoundedInduction, TLAPS

(* One element more. *)
LEMMA OneMore ==
  ASSUME NEW S0, IsFiniteSet(S0), NEW x, x \notin S0, NEW T, T = S0 \union {x}
  PROVE  IsFiniteSet(T) /\ Cardinality(T) = Cardinality(S0) + 1
  BY FS_AddElement

(* A set of naturals has a smallest element.                                *)
LEMMA SmallestOf ==
  ASSUME NEW T, T \subseteq Nat, T # {}
  PROVE  \E x \in T : \A y \in T : x <= y
<1> DEFINE Below == {ss \in Nat \X Nat : ss[1] < ss[2]}
<1>1. IsWellFoundedOn(Below, Nat)
  BY NatLessThanWellFounded DEF OpToRel
<1>2. PICK x \in T : \A y \in T : ~(<<y, x>> \in Below)
  <2> HIDE DEF Below
  <2> QED BY <1>1, WFMin
<1>3. ASSUME NEW y \in T PROVE x <= y
  <2>1. x \in Nat /\ y \in Nat
    OBVIOUS
  <2>2. ~(y < x)
    BY <1>2, <2>1
  <2> QED BY <2>1, <2>2
<1> QED BY <1>3

(* A finite set of naturals has a largest element.                          *)
LEMMA LargestOf ==
  ASSUME NEW T, T \subseteq Nat, T # {}, IsFiniteSet(T)
  PROVE  \E m \in T : \A x \in T : x <= m
<1> DEFINE HasLargest(U) == \E m \in U : \A x \in U : x <= m
           bad == {s \in Nat : \E U \in SUBSET T : U # {} /\ IsFiniteSet(U) /\ Cardinality(U) = s
                                                /\ ~HasLargest(U)}
<1>1. ASSUME bad # {} PROVE FALSE
  <2>1. PICK s \in bad : \A y \in bad : s <= y
    <3>1. bad \subseteq Nat
      OBVIOUS
    <3> HIDE DEF bad
    <3> QED BY <1>1, <3>1, SmallestOf
  <2>2. PICK U \in SUBSET T : U # {} /\ IsFiniteSet(U) /\ Cardinality(U) = s /\ ~HasLargest(U)
    BY <2>1
  <2>3. PICK u \in U : TRUE
    BY <2>2
  <2> DEFINE V == U \ {u}
  <2>4. IsFiniteSet(V) /\ Cardinality(V) = s - 1 /\ Cardinality(V) \in Nat
    <3>1. IsFiniteSet(V) /\ Cardinality(V) = Cardinality(U) - 1
      BY <2>2, FS_RemoveElement
    <3> QED BY <2>2, <3>1, FS_CardinalityType
  <2>5. V = {} \/ HasLargest(V)
    <3>1. SUFFICES ASSUME V # {}, ~HasLargest(V) PROVE FALSE
      OBVIOUS
    <3>2. V \in SUBSET T
      OBVIOUS
    <3>3. s - 1 \in bad
      BY <2>4, <3>1, <3>2
    <3>4. s \in Nat
      BY <2>1
    <3> QED BY <2>1, <3>3, <3>4
  <2>6. CASE V = {}
    <3>1. U = {u} /\ u \in Nat
      BY <2>6
    <3> QED BY <2>2, <3>1
  <2>7. CASE HasLargest(V)
    <3>1. PICK m \in V : \A x \in V : x <= m
      BY <2>7
    <3>2. m \in Nat /\ u \in Nat /\ U \subseteq Nat /\ \A x \in U : x = u \/ x \in V
      BY <3>1
    <3>3. CASE u <= m
      BY <2>2, <3>1, <3>2, <3>3
    <3>4. CASE m <= u
      <4>1. \A x \in U : x <= u
        BY <3>1, <3>2, <3>4
      <4> QED BY <2>2, <4>1
    <3> QED BY <3>2, <3>3, <3>4
  <2> QED BY <2>5, <2>6, <2>7
<1>2. Cardinality(T) \in Nat
  BY FS_CardinalityType
<1>3. HasLargest(T)
  BY <1>1, <1>2
<1> QED BY <1>3

(* Fun computes a function from itself: what it gives at x depends on the     *)
(* values at arguments with a smaller measure only.                          *)
Recursive(Dom, Val, mu, Fun) ==
  /\ Val # {} /\ mu \in [Dom -> Nat] /\ Fun \in [[Dom -> Val] -> [Dom -> Val]]
  /\ \A g, h \in [Dom -> Val] : \A x \in Dom :
       (\A y \in Dom : mu[y] < mu[x] => g[y] = h[y]) => Fun[g][x] = Fun[h][x]

(* Then there is such a function. *)
LEMMA Recursion ==
  ASSUME NEW Dom, NEW Val, NEW mu, NEW Fun, Recursive(Dom, Val, mu, Fun)
  PROVE  \E f \in [Dom -> Val] : f = Fun[f]
<1>0. PICK v0 \in Val : TRUE
  BY DEF Recursive
<1> USE DEF Recursive
<1> DEFINE Upto(g, m) == g \in [Dom -> Val] /\ \A x \in Dom : mu[x] < m => g[x] = Fun[g][x]
<1>1. ASSUME NEW m \in Nat, NEW g, NEW h, Upto(g, m), Upto(h, m), NEW x \in Dom, mu[x] < m
      PROVE  g[x] = h[x]
  <2> DEFINE T == {s \in Nat : \E z \in Dom : s = mu[z] /\ s < m /\ g[z] # h[z]}
  <2>1. SUFFICES ASSUME T # {} PROVE FALSE
    BY <1>1
  <2>2. PICK s \in T : \A t \in T : s <= t
    <3>1. T \subseteq Nat
      OBVIOUS
    <3> HIDE DEF T
    <3> QED BY <2>1, <3>1, SmallestOf
  <2>3. PICK z \in Dom : s = mu[z] /\ s < m /\ g[z] # h[z]
    BY <2>2
  <2>4. ASSUME NEW y \in Dom, mu[y] < mu[z] PROVE g[y] = h[y]
    <3>1. mu[y] \in Nat /\ mu[y] < m /\ s \in Nat
      BY <2>3, <2>4
    <3>2. ~(s <= mu[y])
      BY <2>3, <2>4, <3>1
    <3>3. mu[y] \notin T
      BY <2>2, <3>2
    <3> QED BY <3>1, <3>3
  <2>5. Fun[g][z] = Fun[h][z]
    BY <1>1, <2>4
  <2> QED BY <1>1, <2>3, <2>5
<1>2. ASSUME NEW m \in Nat PROVE \E g : Upto(g, m)
  <2> DEFINE T == {k \in Nat : ~\E g : Upto(g, k)}
  <2>1. SUFFICES ASSUME T # {} PROVE FALSE
    OBVIOUS
  <2>2. PICK k \in T : \A j \in T : k <= j
    <3>1. T \subseteq Nat
      OBVIOUS
    <3> HIDE DEF T
    <3> QED BY <2>1, <3>1, SmallestOf
  <2>3. k # 0
    <3>1. Upto([x \in Dom |-> v0], 0)
      OBVIOUS
    <3> HIDE DEF Upto
    <3> QED BY <2>2, <3>1
  <2>4. k - 1 \in Nat /\ ~(k <= k - 1)
    BY <2>3
  <2>5. PICK g : Upto(g, k - 1)
    <3> HIDE DEF Upto
    <3> QED BY <2>2, <2>4
  <2>6. Fun[g] \in [Dom -> Val]
    BY <2>5
  <2>7. ASSUME NEW x \in Dom, mu[x] < k PROVE Fun[g][x] = Fun[Fun[g]][x]
    <3>1. ASSUME NEW y \in Dom, mu[y] < mu[x] PROVE g[y] = Fun[g][y]
      <4>1. mu[y] < k - 1
        BY <2>2, <2>7, <3>1
      <4> QED BY <2>5, <4>1
    <3>2. g \in [Dom -> Val]
      BY <2>5
    <3> QED BY <2>6, <3>1, <3>2
  <2>8. Upto(Fun[g], k)
    BY <2>6, <2>7
  <2> HIDE DEF Upto
  <2> QED BY <2>2, <2>8
<1> DEFINE G(m) == CHOOSE g : Upto(g, m)
           f == [x \in Dom |-> G(mu[x] + 1)[x]]
<1>3. ASSUME NEW m \in Nat PROVE Upto(G(m), m)
  <2> HIDE DEF Upto
  <2> QED BY <1>2
<1>4. ASSUME NEW k \in Nat, NEW m \in Nat, k <= m, NEW g, Upto(g, m) PROVE Upto(g, k)
  BY <1>4
<1> HIDE DEF G
<1>5. f \in [Dom -> Val]
  <2>1. ASSUME NEW x \in Dom PROVE G(mu[x] + 1)[x] \in Val
    <3>1. Upto(G(mu[x] + 1), mu[x] + 1)
      <4> HIDE DEF Upto
      <4> QED BY <1>3
    <3> QED BY <3>1
  <2> QED BY <2>1
<1>6. ASSUME NEW x \in Dom PROVE f[x] = Fun[f][x]
  <2> DEFINE g == G(mu[x] + 1)
  <2>0. mu[x] \in Nat /\ mu[x] + 1 \in Nat
    OBVIOUS
  <2>1. Upto(g, mu[x] + 1)
    <3> HIDE DEF Upto
    <3> QED BY <1>3, <2>0
  <2>2. f[x] = Fun[g][x] /\ g \in [Dom -> Val]
    BY <2>0, <2>1
  <2>3. ASSUME NEW y \in Dom, mu[y] < mu[x] PROVE f[y] = g[y]
    <3>1. mu[y] + 1 \in Nat /\ mu[y] + 1 <= mu[x] + 1 /\ mu[y] < mu[y] + 1
      BY <2>3
    <3>2. Upto(g, mu[y] + 1)
      <4> HIDE DEF Upto, g
      <4> QED BY <1>4, <2>0, <2>1, <3>1
    <3>3. Upto(G(mu[y] + 1), mu[y] + 1)
      <4> HIDE DEF Upto
      <4> QED BY <1>3, <3>1
    <3>4. G(mu[y] + 1)[y] = g[y]
      <4> HIDE DEF Upto, g
      <4> QED BY <1>1, <3>1, <3>2, <3>3
    <3> QED BY <3>4
  <2> HIDE DEF f, g
  <2> QED BY <1>5, <2>2, <2>3
<1>7. f = Fun[f]
  <2>1. Fun[f] \in [Dom -> Val]
    BY <1>5
  <2> HIDE DEF f
  <2> QED BY <1>5, <1>6, <2>1
<1> QED BY <1>5, <1>7

(* Multiples of a length are in the order of their factors. *)
LEMMA MultiplesGrow ==
  ASSUME NEW a \in Nat, NEW b \in Nat, a <= b, NEW s \in Nat
  PROVE  a * s <= b * s /\ a * s \in Nat /\ b * s \in Nat /\ (a + 1) * s = a * s + s
<1>1. a * s <= b * s
  OBVIOUS
<1>2. a * s \in Nat /\ b * s \in Nat
  OBVIOUS
<1>3. (a + 1) * s = a * s + s
  OBVIOUS
<1> QED BY <1>1, <1>2, <1>3

(* What holds for nothing, and for one element more, holds for every part   *)
(* of a finite set.                                                        *)
LEMMA FiniteInduction ==
  ASSUME NEW D, IsFiniteSet(D), NEW Good, {} \in Good,
         \A U \in SUBSET D : \A x \in U : U \ {x} \in Good => U \in Good
  PROVE  \A U \in SUBSET D : U \in Good
<1> DEFINE bad == {c \in Nat : \E U \in SUBSET D : Cardinality(U) = c /\ U \notin Good}
<1>1. ASSUME bad # {} PROVE FALSE
  <2>1. PICK c \in bad : \A d \in bad : c <= d
    <3>1. bad \subseteq Nat
      OBVIOUS
    <3> HIDE DEF bad
    <3> QED BY <1>1, <3>1, SmallestOf
  <2>2. PICK U \in SUBSET D : Cardinality(U) = c /\ U \notin Good
    BY <2>1
  <2>3. PICK x \in U : TRUE
    BY <2>2
  <2>4. IsFiniteSet(U)
    BY FS_Subset
  <2>5. Cardinality(U \ {x}) = c - 1 /\ Cardinality(U \ {x}) \in Nat /\ U \ {x} \in SUBSET D
    BY <2>2, <2>4, FS_RemoveElement, FS_CardinalityType
  <2>6. U \ {x} \notin Good
    BY <2>2
  <2>7. c - 1 \in bad /\ c \in Nat
    BY <2>1, <2>5, <2>6
  <2> QED BY <2>1, <2>7
<1>2. \A U \in SUBSET D : Cardinality(U) \in Nat
  BY FS_Subset, FS_CardinalityType
<1> QED BY <1>1, <1>2

(* What holds of 0, and of the next number, holds of every number.         *)
LEMMA NumberInduction ==
  ASSUME NEW Good, 0 \in Good, \A m \in Nat : m \in Good => m + 1 \in Good
  PROVE  \A m \in Nat : m \in Good
<1> DEFINE bad == {m \in Nat : m \notin Good}
<1>1. ASSUME bad # {} PROVE FALSE
  <2>1. PICK m \in bad : \A k \in bad : m <= k
    <3>1. bad \subseteq Nat
      OBVIOUS
    <3> HIDE DEF bad
    <3> QED BY <1>1, <3>1, SmallestOf
  <2>2. m \in Nat /\ m # 0 /\ m \notin Good
    BY <2>1
  <2>3. m - 1 \in Nat /\ (m - 1) + 1 = m /\ ~(m <= m - 1)
    BY <2>2
  <2>4. m - 1 \in Good
    BY <2>1, <2>3
  <2> QED BY <2>2, <2>3, <2>4
<1> QED BY <1>1

===============================================================================
