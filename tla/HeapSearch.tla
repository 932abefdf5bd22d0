----------------------------- MODULE HeapSearch -----------------------------
(***************************************************************************)
(* hw2/A-HeapSearch: main() looks for q in the array A three times: with   *)
(* the recursive search of normal.c, with threads that share an atomic     *)
(* result (multi-thread.c), and with processes that share a plain one      *)
(* (multi-process.c).                                                      *)
(***************************************************************************)
EXTENDS Integers, FiniteSets

CONSTANTS
  n,               \* the length of the array
  Values, q,       \* what is in it, and what is looked for
  NUM_THREADS, NUM_PROCESSES

HeapSearchAssumption ==
  /\ n \in Nat \ {0} /\ NUM_THREADS \in Nat \ {0} /\ NUM_PROCESSES \in Nat \ {0}
  /\ Values \subseteq Int /\ q \in Int

VARIABLES
  main,        \* where main() stands
  i,           \* its loop index
  at,          \* at[w]: where thread or process w stands
  pos,         \* pos[w]: its loop index
  result,      \* the result of the search that runs
  thread_res,  \* what the threads left in result
  A

heapVars == <<main, i, at, pos, result, thread_res, A>>

Cells   == 0 .. n - 1
Workers == 0 .. (IF NUM_THREADS > NUM_PROCESSES THEN NUM_THREADS ELSE NUM_PROCESSES) - 1

TypeOK ==
  /\ main \in {"create", "join", "fork", "wait", "done"}
  /\ i \in 0 .. NUM_THREADS + NUM_PROCESSES
  /\ at \in [Workers -> {"unborn", "loops", "compares", "searches", "checks", "stores", "ended"}]
  /\ pos \in [Workers -> 0 .. n + 1]
  /\ result \in {-1} \union Cells /\ thread_res \in {-1} \union Cells
  /\ A \in [Cells -> Values]

Init ==
  /\ A \in [Cells -> Values]
  /\ main = "create" /\ i = 0
  /\ at = [w \in Workers |-> "unborn"]
  /\ pos = [w \in Workers |-> 0]
  /\ result = -1 /\ thread_res = -1

Goto(w, from, to) == at[w] = from /\ at' = [at EXCEPT ![w] = to]

-----------------------------------------------------------------------------
(* normal.c: whether the subtree at index has q, for a heap. *)
findInMinHeap[index \in 0 .. 2 * n] ==
  /\ index < n /\ A[index] <= q
  /\ A[index] = q \/ findInMinHeap[2 * index + 1] \/ findInMinHeap[2 * index + 2]

-----------------------------------------------------------------------------
(* multi-thread.c *)
threadSection == (n + NUM_THREADS - 1) \div NUM_THREADS
threadStart(w) == w * threadSection
threadEnd(w) == IF threadStart(w) + threadSection > n THEN n ELSE threadStart(w) + threadSection

LoopTest(w) ==
  /\ Goto(w, "loops", IF pos[w] < threadEnd(w) /\ result = -1 THEN "compares" ELSE "ended")
  /\ UNCHANGED <<main, i, pos, result, thread_res, A>>

StoreMatch(w) ==
  /\ Goto(w, "compares", "ended")
  /\ A[pos[w]] = q
  /\ result' = pos[w]
  /\ UNCHANGED <<main, i, pos, thread_res, A>>

(* A cell above q at an even distance from the start takes the cell behind  *)
(* it along, which nobody compares then.                                    *)
Skips(w) == A[pos[w]] > q /\ (pos[w] - threadStart(w)) % 2 = 0

NextElement(w) ==
  /\ Goto(w, "compares", "loops")
  /\ A[pos[w]] # q
  /\ pos' = [pos EXCEPT ![w] = @ + (IF Skips(w) THEN 2 ELSE 1)]
  /\ UNCHANGED <<main, i, result, thread_res, A>>

searchMinHeapSection(w) == LoopTest(w) \/ StoreMatch(w) \/ NextElement(w)

CreateThread ==
  /\ main = "create" /\ i < NUM_THREADS /\ threadStart(i) < n
  /\ at' = [at EXCEPT ![i] = "loops"]
  /\ pos' = [pos EXCEPT ![i] = threadStart(i)]
  /\ i' = i + 1
  /\ UNCHANGED <<main, result, thread_res, A>>

EndCreation ==
  /\ main = "create" /\ (i = NUM_THREADS \/ threadStart(i) >= n)
  /\ main' = "join"
  /\ UNCHANGED <<i, at, pos, result, thread_res, A>>

Idle == \A w \in Workers : at[w] \in {"unborn", "ended"}

(* find_mt prints its answer, and find_mp begins with a result of its own.  *)
JoinThreads ==
  /\ main = "join" /\ Idle
  /\ thread_res' = result /\ result' = -1
  /\ main' = "fork" /\ i' = 0
  /\ at' = [w \in Workers |-> "unborn"]
  /\ UNCHANGED <<pos, A>>

-----------------------------------------------------------------------------
(* multi-process.c *)
processSection == n \div NUM_PROCESSES

(* Mutant: the last process stops where all sections are equally long.      *)
processEnd_Equal(w) == (w + 1) * processSection

processEnd(w) == IF w = NUM_PROCESSES - 1 THEN n ELSE (w + 1) * processSection

Matches(w) == {k \in pos[w] .. processEnd(w) - 1 : A[k] = q}

(* search() reads only A, which nobody changes, up to its first match.      *)
FindFirst(w) ==
  /\ at[w] = "searches"
  /\ IF Matches(w) = {}
     THEN Goto(w, "searches", "ended") /\ UNCHANGED pos
     ELSE /\ Goto(w, "searches", "checks")
          /\ \E k \in Matches(w) :
               /\ \A m \in Matches(w) : k <= m
               /\ pos' = [pos EXCEPT ![w] = k]
  /\ UNCHANGED <<main, i, result, thread_res, A>>

(* The result is read without a lock, ...                                   *)
CheckResult(w) ==
  /\ Goto(w, "checks", IF result = -1 \/ pos[w] < result THEN "stores" ELSE "ended")
  /\ UNCHANGED <<main, i, pos, result, thread_res, A>>

(* ... and may have changed when it is stored.                              *)
StoreResult(w) ==
  /\ Goto(w, "stores", "ended")
  /\ result' = pos[w]
  /\ UNCHANGED <<main, i, pos, thread_res, A>>

search(w) == FindFirst(w) \/ CheckResult(w) \/ StoreResult(w)

ForkPass ==
  /\ main = "fork"
  /\ i' = i + 1
  /\ main' = IF i + 1 = NUM_PROCESSES THEN "wait" ELSE "fork"
  /\ UNCHANGED <<result, thread_res, A>>

ForkProcess ==
  /\ ForkPass
  /\ at' = [at EXCEPT ![i] = "searches"]
  /\ pos' = [pos EXCEPT ![i] = i * processSection]

(* Nobody looks at a pid of -1: the section is not searched.                *)
ForkFails == ForkPass /\ UNCHANGED <<at, pos>>

(* As many waits as sections; those without a child to wait for fail.       *)
WaitForProcesses ==
  /\ main = "wait" /\ Idle
  /\ main' = "done"
  /\ UNCHANGED <<i, at, pos, result, thread_res, A>>

parent == CreateThread \/ EndCreation \/ JoinThreads \/ ForkProcess \/ ForkFails \/ WaitForProcesses

Next == parent \/ \E w \in Workers : searchMinHeapSection(w) \/ search(w)

Spec == Init /\ [][Next]_heapVars

-----------------------------------------------------------------------------
(***************************************************************************)
(* Properties.                                                             *)
(***************************************************************************)
AtRest == main = "done" /\ Idle

Has(r) == r # -1
QinA   == \E k \in Cells : A[k] = q
IsHeap == \A k \in Cells \ {0} : A[(k - 1) \div 2] <= A[k]

(* What the searches print: the processes find q whenever it is in a        *)
(* section that got one, whatever becomes of their unlocked result; the     *)
(* threads never report an element that is not there, and miss one only in  *)
(* an array with larger ones (whose neighbours they skip); the recursive    *)
(* search is right about heaps.                                             *)
AnswersRight ==
  main = "done" =>
    /\ Has(result) => A[result] = q
    /\ (\A w \in 0 .. NUM_PROCESSES - 1 : at[w] = "ended") => (Has(result) <=> QinA)
    /\ Has(thread_res) => A[thread_res] = q
    /\ (\A k \in Cells : A[k] <= q) => (Has(thread_res) <=> QinA)
    /\ IsHeap => (findInMinHeap[0] <=> QinA)

=============================================================================
