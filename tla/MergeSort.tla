------------------------------ MODULE MergeSort ------------------------------
(***************************************************************************)
(* hw5/Q3/merge.c: parMergeSort forks a child per section of an array in   *)
(* shared memory, waits for all of them, then forks children that merge    *)
(* pairs of blocks, round by round, until one block is left.  Nothing but  *)
(* waitpid keeps a child from the cells of another.                        *)
(***************************************************************************)
EXTENDS Integers, Sequences, FiniteSets

CONSTANTS
  N,       \* the cells of the array
  M,       \* the sections sorted in parallel
  Values   \* what main() may fill a cell with

(* With fewer cells than sections chunk_size is 0 and line 88 divides by it. *)
MergeSortAssumption == N \in Nat /\ M \in 1 .. N /\ Values \subseteq Int

VARIABLES
  arr,    \* the array in shared memory
  size,   \* chunk_size, then the length of the blocks of this round
  pc,     \* where the parent stands
  i,      \* the index of its loop: the next child to fork or to wait for
  todo,   \* todo[c]: the calls of merge that child c has to finish before it exits
  L, R,   \* L[c], R[c]: what c has not taken yet from the copies of its two halves
  failed,    \* the children of this round that could not be forked (their pid is -1)
  unwaited,  \* the children of this round that exist and were not waited for
  input,     \* history: what main() filled the array with
  incomplete \* history: some fork has failed

kids == <<todo, L, R>>
pids == <<failed, unwaited, incomplete>>
mergeSortVars == <<arr, size, pc, i, kids, pids, input>>

Cells == 0 .. N - 1
Kids  == 0 .. M - 1
Calls == [l : Cells, m : Cells, r : Cells]

TypeOK ==
  /\ arr \in [Cells -> Values] /\ input \in [Cells -> Values]
  /\ size \in 1 .. 2 * N
  /\ pc \in {"fork_sort", "wait_sort", "fork_merge", "wait_merge", "done"}
  /\ i \in Kids
  /\ todo \in [Kids -> Seq(Calls)]
  /\ L \in [Kids -> Seq(Values)] /\ R \in [Kids -> Seq(Values)]
  /\ failed \subseteq Kids /\ unwaited \subseteq Kids /\ failed \intersect unwaited = {}
  /\ incomplete \in BOOLEAN

Init ==
  /\ input \in [Cells -> Values] /\ arr = input
  /\ size = N \div M
  /\ pc = "fork_sort" /\ i = 0
  /\ todo = [c \in Kids |-> <<>>]
  /\ L = [c \in Kids |-> <<>>] /\ R = [c \in Kids |-> <<>>]
  /\ failed = {} /\ unwaited = {} /\ incomplete = FALSE

-----------------------------------------------------------------------------
(* The calls of merge that mergeSort(arr, l, r) makes, in order.            *)
mergeSort[section \in Cells \X Cells] ==
  LET l == section[1]
      r == section[2]
      m == l + (r - l) \div 2
  IN  IF l < r
      THEN mergeSort[<<l, m>>] \o mergeSort[<<m + 1, r>>] \o <<[l |-> l, m |-> m, r |-> r]>>
      ELSE <<>>

(* merge(), in child c: malloc and memcpy of both halves ...                *)
(* Mutant: the right half is copied from arr[m] on.                         *)
CopyHalves_OffByOne(c) ==
  /\ todo[c] # <<>> /\ L[c] = <<>> /\ R[c] = <<>>
  /\ LET call == Head(todo[c])
     IN  /\ L' = [L EXCEPT ![c] = [k \in 1 .. call.m - call.l + 1 |-> arr[call.l + k - 1]]]
         /\ R' = [R EXCEPT ![c] = [k \in 1 .. call.r - call.m |-> arr[call.m + k - 1]]]
  /\ UNCHANGED <<arr, size, pc, i, todo, pids, input>>

CopyHalves(c) ==
  /\ todo[c] # <<>> /\ L[c] = <<>> /\ R[c] = <<>>
  /\ LET call == Head(todo[c])
     IN  /\ L' = [L EXCEPT ![c] = [k \in 1 .. call.m - call.l + 1 |-> arr[call.l + k - 1]]]
         /\ R' = [R EXCEPT ![c] = [k \in 1 .. call.r - call.m |-> arr[call.m + k]]]
  /\ UNCHANGED <<arr, size, pc, i, todo, pids, input>>

(* ... then one store per pass of one of its loops, to this cell.           *)
NextCell(c) == Head(todo[c]).r + 1 - Len(L[c]) - Len(R[c])

LeftIsNext(c) == L[c] # <<>> /\ (R[c] # <<>> => Head(L[c]) <= Head(R[c]))

Store(c) ==
  /\ L[c] # <<>> \/ R[c] # <<>>
  /\ IF LeftIsNext(c)
     THEN /\ arr' = [arr EXCEPT ![NextCell(c)] = Head(L[c])]
          /\ L' = [L EXCEPT ![c] = Tail(@)] /\ UNCHANGED R
     ELSE /\ arr' = [arr EXCEPT ![NextCell(c)] = Head(R[c])]
          /\ R' = [R EXCEPT ![c] = Tail(@)] /\ UNCHANGED L
  /\ todo' = IF NextCell(c) = Head(todo[c]).r THEN [todo EXCEPT ![c] = Tail(@)] ELSE todo
  /\ UNCHANGED <<size, pc, i, pids, input>>

child(c) == CopyHalves(c) \/ Store(c)

-----------------------------------------------------------------------------
(* parMergeSort(): a loop of `count` passes that ends at `to`.              *)
LoopPass(from, count, to) ==
  /\ pc = from
  /\ i' = (i + 1) % count
  /\ pc' = IF i + 1 = count THEN to ELSE from

(* A fork that fails leaves a pid of -1, and nobody looks.                  *)
Fork(c, calls) ==
  \/ /\ todo' = [todo EXCEPT ![c] = calls]
     /\ unwaited' = unwaited \union {c}
     /\ UNCHANGED <<L, R, failed, incomplete>>
  \/ /\ failed' = failed \union {c} /\ incomplete' = TRUE
     /\ UNCHANGED <<kids, unwaited>>

(* waitpid(pid): a child that was waited for already does not block, and    *)
(* the pid -1 takes any child that has exited, if there is one left at all. *)
Waitpid(c) ==
  /\ IF c \in failed
     THEN IF unwaited = {} THEN UNCHANGED unwaited
          ELSE \E d \in unwaited : todo[d] = <<>> /\ unwaited' = unwaited \ {d}
     ELSE todo[c] = <<>> /\ unwaited' = unwaited \ {c}
  /\ UNCHANGED incomplete

(* The array of pids is a new one in each round.                            *)
ForgetFailed(count) == failed' = IF i + 1 = count THEN {} ELSE failed

SectionStart(c) == c * size
SectionEnd(c)   == IF c = M - 1 THEN N - 1 ELSE (c + 1) * size - 1

(* Mutant: a section ends where the next one starts.                        *)
ForkSort_Overlapping ==
  /\ LoopPass("fork_sort", M, "wait_sort")
  /\ Fork(i, mergeSort[<<SectionStart(i), IF i = M - 1 THEN N - 1 ELSE (i + 1) * size>>])
  /\ UNCHANGED <<arr, size, input>>

ForkSort ==
  /\ LoopPass("fork_sort", M, "wait_sort")
  /\ Fork(i, mergeSort[<<SectionStart(i), SectionEnd(i)>>])
  /\ UNCHANGED <<arr, size, input>>

(* Where the parent goes when a round's blocks have length s.               *)
NextRound(s) == IF s < N THEN "fork_merge" ELSE "done"

(* Mutant: waits for the last child only.                                   *)
WaitSort_LastOnly ==
  /\ LoopPass("wait_sort", M, NextRound(size))
  /\ IF i = M - 1 THEN Waitpid(i) ELSE UNCHANGED <<unwaited, incomplete>>
  /\ ForgetFailed(M)
  /\ UNCHANGED <<arr, size, kids, input>>

WaitSort ==
  /\ LoopPass("wait_sort", M, NextRound(size))
  /\ Waitpid(i)
  /\ ForgetFailed(M)
  /\ UNCHANGED <<arr, size, kids, input>>

num_merges == (N + 2 * size - 1) \div (2 * size)
Left  == i * 2 * size
Mid   == Left + size - 1
Right == IF Left + 2 * size - 1 < N - 1 THEN Left + 2 * size - 1 ELSE N - 1

ForkMerge ==
  /\ LoopPass("fork_merge", num_merges, "wait_merge")
  /\ IF Mid < Right
     THEN Fork(i, <<[l |-> Left, m |-> Mid, r |-> Right]>>)
     ELSE UNCHANGED <<kids, pids>>
  /\ UNCHANGED <<arr, size, input>>

WaitMerge ==
  /\ LoopPass("wait_merge", num_merges, NextRound(2 * size))
  /\ IF Left + size - 1 < N - 1 THEN Waitpid(i) ELSE UNCHANGED <<unwaited, incomplete>>
  /\ ForgetFailed(num_merges)
  /\ size' = IF i + 1 = num_merges THEN 2 * size ELSE size
  /\ UNCHANGED <<arr, kids, input>>

parent == ForkSort \/ WaitSort \/ ForkMerge \/ WaitMerge

Next == parent \/ (\E c \in Kids : child(c))

Spec == Init /\ [][Next]_mergeSortVars

-----------------------------------------------------------------------------
(***************************************************************************)
(* Properties.                                                             *)
(***************************************************************************)
AtRest == pc = "done" /\ \A c \in Kids : todo[c] = <<>>

(* The cells child c may still read or write.                               *)
Territory(c) == UNION {todo[c][k].l .. todo[c][k].r : k \in DOMAIN todo[c]}

(* Children that run at the same time have no cell in common, whether they  *)
(* sort sections or merge blocks, and whatever N leaves over.               *)
ChildrenApart ==
  \A c, d \in Kids : c # d => Territory(c) \intersect Territory(d) = {}

(* Cells whose value is superseded: the copies in L and R count for them.   *)
Superseded ==
  UNION {IF L[c] = <<>> /\ R[c] = <<>> THEN {} ELSE NextCell(c) .. Head(todo[c]).r : c \in Kids}

(* How often v waits in the copies H of all children.                       *)
Waiting(H, v) ==
  Cardinality({ck \in Kids \X (1 .. N) : ck[2] \in DOMAIN H[ck[1]] /\ H[ck[1]][ck[2]] = v})

(* No store of any child, in any order, loses or doubles a value, whichever *)
(* forks have failed.                                                       *)
NothingLost ==
  \A v \in Values :
    Cardinality({k \in Cells : input[k] = v})
      = Cardinality({k \in Cells \ Superseded : arr[k] = v}) + Waiting(L, v) + Waiting(R, v)

(* When a round begins the blocks it merges are sorted, and in the end the  *)
(* whole array is, as long as no fork has failed: every child a round       *)
(* relies on had finished, and N need not be a multiple of M.               *)
RoundsSorted ==
  ~incomplete /\ ((pc = "fork_merge" /\ i = 0) \/ pc = "done") =>
    \A k \in Cells : (k + 1) \in Cells /\ (k + 1) % size # 0 => arr[k] <= arr[k + 1]

=============================================================================
