------------------------------ MODULE Pooling -------------------------------
(***************************************************************************)
(* hw5/Q2/max_pooling.c: a child per row of the result computes the        *)
(* maxima of that row's blocks into shared memory; main() waits as often   *)
(* as it tried to fork and then copies the result.                         *)
(***************************************************************************)
EXTENDS Naturals, FiniteSets

CONSTANTS
  M, N,     \* rows and columns of the matrix
  K, L,     \* rows and columns of a block
  Values    \* what a cell of the matrix may hold

PoolingAssumption ==
  /\ M \in Nat \ {0} /\ N \in Nat \ {0} /\ K \in Nat \ {0} /\ L \in Nat \ {0}
  /\ Values \subseteq Nat

VARIABLES
  main,     \* where main() stands
  i,        \* its loop index: the next row to fork for, then the waits done
  at,       \* at[r]: where the child of row r stands
  col,      \* col[r]: the column it computes next
  result,   \* the shared memory
  M1        \* the matrix

poolingVars == <<main, i, at, col, result, M1>>

M_OUT == (M + K - 1) \div K
N_OUT == (N + L - 1) \div L
Rows  == 0 .. M_OUT - 1
Cols  == 0 .. N_OUT - 1
Cells == (0 .. M - 1) \X (0 .. N - 1)

TypeOK ==
  /\ main \in {"fork", "wait", "done"}
  /\ i \in 0 .. M_OUT
  /\ at \in [Rows -> {"unborn", "works", "exited"}]
  /\ col \in [Rows -> 0 .. N_OUT]
  /\ result \in [Rows \X Cols -> Values \union {0}]
  /\ M1 \in [Cells -> Values]

(* shm_open does not truncate: what a killed run left is still there.       *)
Init ==
  /\ main = "fork" /\ i = 0
  /\ at = [r \in Rows |-> "unborn"]
  /\ col = [r \in Rows |-> 0]
  /\ M1 \in [Cells -> Values]
  /\ \E old \in Values \union {0} : result = [rc \in Rows \X Cols |-> old]

-----------------------------------------------------------------------------
Smaller(a, b) == IF a < b THEN a ELSE b

(* Mutant: the last row of the block is left out.                           *)
Window_ShortOfRow(r, c) ==
  {ab \in Cells : /\ r * K <= ab[1] /\ ab[1] < Smaller(M, r * K + K - 1)
                  /\ c * L <= ab[2] /\ ab[2] < Smaller(N, c * L + L)}

(* The cells max_pool looks at for cell (r, c) of the result. *)
Window(r, c) ==
  {ab \in Cells : /\ r * K <= ab[1] /\ ab[1] < Smaller(M, r * K + K)
                  /\ c * L <= ab[2] /\ ab[2] < Smaller(N, c * L + L)}

max_pool(r, c) ==
  CHOOSE v \in {M1[ab] : ab \in Window(r, c) \union {<<r * K, c * L>>}} :
    \A ab \in Window(r, c) : M1[ab] <= v

(* The child of row r. *)
StoreMaximum(r) ==
  /\ at[r] = "works" /\ col[r] < N_OUT
  /\ result' = [result EXCEPT ![<<r, col[r]>>] = max_pool(r, col[r])]
  /\ col' = [col EXCEPT ![r] = @ + 1]
  /\ UNCHANGED <<main, i, at, M1>>

ChildExits(r) ==
  /\ at[r] = "works" /\ col[r] = N_OUT
  /\ at' = [at EXCEPT ![r] = "exited"]
  /\ UNCHANGED <<main, i, col, result, M1>>

child(r) == StoreMaximum(r) \/ ChildExits(r)

-----------------------------------------------------------------------------
(* main() does not look at what fork() returns to it. *)
ForkPass ==
  /\ main = "fork"
  /\ i' = (i + 1) % M_OUT
  /\ main' = IF i + 1 = M_OUT THEN "wait" ELSE "fork"
  /\ UNCHANGED <<col, result, M1>>

ForkChild == ForkPass /\ at' = [at EXCEPT ![i] = "works"]
ForkFails == ForkPass /\ UNCHANGED at

Working == {r \in Rows : at[r] = "works"}
Exited  == {r \in Rows : at[r] = "exited"}

(* wait(NULL) takes a child that has exited and was not waited for yet; it  *)
(* fails at once when there is no child at all.                             *)
(* Mutant: does not block.                                                  *)
CanReap_Always == TRUE
CanReap == i < Cardinality(Exited) \/ Working = {}

WaitForChild ==
  /\ main = "wait"
  /\ CanReap
  /\ i' = i + 1
  /\ main' = IF i + 1 = M_OUT THEN "done" ELSE "wait"
  /\ UNCHANGED <<at, col, result, M1>>

Next == ForkChild \/ ForkFails \/ WaitForChild \/ \E r \in Rows : child(r)

Spec == Init /\ [][Next]_poolingVars

-----------------------------------------------------------------------------
(***************************************************************************)
(* Properties.                                                             *)
(***************************************************************************)
AtRest == main = "done" /\ Working = {}

IsBlockMaximum(v, r, c) ==
  LET block == {ab \in Cells : ab[1] \div K = r /\ ab[2] \div L = c}
  IN  /\ \A ab \in block : M1[ab] <= v
      /\ \E ab \in block : M1[ab] = v

(* When main() copies the result, every row for which it got a child holds  *)
(* the maxima of its blocks, those cut short by the border included: waits  *)
(* for children that were never born are not spent on those that work.      *)
RowsRight ==
  main = "done" =>
    \A r \in Rows : at[r] # "unborn" => \A c \in Cols : IsBlockMaximum(result[<<r, c>>], r, c)

=============================================================================
