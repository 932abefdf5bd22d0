------------------------------- MODULE Programs -------------------------------
(***************************************************************************)
(* The programs that start threads or processes and wait for them, side by *)
(* side: each behaviour is a run of one of the seven, chosen at the        *)
(* beginning.  The variables of the others keep the value Unused; main, i  *)
(* and at stand for where main() is, its loop index and where its workers  *)
(* are, in all of them.                                                    *)
(***************************************************************************)
EXTENDS Integers, Sequences, FiniteSets

CONSTANTS
  Sources, CAR_COUNT_PER_SPAWNER, NoThread,                         \* Crossing
  SortCells, SortSections, SortValues,                              \* MergeSort
  ANSWER_UP_TO, nproc, PipeSize,                                    \* Primes
  MatrixRows, MatrixCols, BlockRows, BlockCols, MatrixValues,       \* Pooling
  HeapCells, HeapValues, Wanted, NUM_THREADS, NUM_PROCESSES,        \* HeapSearch
  Dirs, Files, Root, Entries,                                       \* CpDir
  NumChars, Newlines, BlockSize, URL_SIZE, MAX_URLS                 \* Download

VARIABLES
  program, main, i, at,
  dir_mutex, print_mutex, car, move, log,                                   \* Crossing
  arr, size, todo, L, R, failed, unwaited, input, incomplete,               \* MergeSort
  num, pipe, total_sum,                                                     \* Primes
  col, result, M1,                                                          \* Pooling
  pos, thread_res, A,                                                       \* HeapSearch
  made, content,                                                            \* CpDir
  num_urls, offset, buffered, url, unread                                   \* Download

crossingOwn  == <<dir_mutex, print_mutex, car, move, log>>
mergeSortOwn == <<arr, size, todo, L, R, failed, unwaited, input, incomplete>>
primesOwn    == <<num, pipe, total_sum>>
poolingOwn   == <<col, M1>>
heapOwn      == <<pos, thread_res, A>>
cpdirOwn     == <<made, content>>
downloadOwn  == <<num_urls, offset, buffered, url, unread>>

vars == <<program, main, i, at, result, crossingOwn, mergeSortOwn, primesOwn, poolingOwn,
          heapOwn, cpdirOwn, downloadOwn>>

X == INSTANCE Crossing WITH pc <- at
S == INSTANCE MergeSort WITH
       pc <- main, N <- SortCells, M <- SortSections, Values <- SortValues
P == INSTANCE Primes
B == INSTANCE Pooling WITH
       M <- MatrixRows, N <- MatrixCols, K <- BlockRows, L <- BlockCols, Values <- MatrixValues
H == INSTANCE HeapSearch WITH n <- HeapCells, Values <- HeapValues, q <- Wanted
C == INSTANCE CpDir
D == INSTANCE Download

ASSUME ProgramsAssumption ==
  /\ X!CrossingAssumption /\ S!MergeSortAssumption /\ P!PrimesAssumption
  /\ B!PoolingAssumption /\ H!HeapSearchAssumption /\ C!CpDirAssumption /\ D!DownloadAssumption

-----------------------------------------------------------------------------
Unused == "unused"

NoCrossing  == /\ dir_mutex = Unused /\ print_mutex = Unused /\ car = Unused
               /\ move = Unused /\ log = Unused
NoMergeSort == /\ arr = Unused /\ size = Unused /\ todo = Unused /\ L = Unused /\ R = Unused
               /\ failed = Unused /\ unwaited = Unused /\ input = Unused /\ incomplete = Unused
NoPrimes    == num = Unused /\ pipe = Unused /\ total_sum = Unused
NoPooling   == col = Unused /\ M1 = Unused
NoHeap      == pos = Unused /\ thread_res = Unused /\ A = Unused
NoCpDir     == made = Unused /\ content = Unused
NoDownload  == /\ num_urls = Unused /\ offset = Unused /\ buffered = Unused
               /\ url = Unused /\ unread = Unused

Init ==
  \/ /\ program = "crossing" /\ X!Init /\ i = Unused /\ result = Unused
     /\ NoMergeSort /\ NoPrimes /\ NoPooling /\ NoHeap /\ NoCpDir /\ NoDownload
  \/ /\ program = "mergesort" /\ S!Init /\ at = Unused /\ result = Unused
     /\ NoCrossing /\ NoPrimes /\ NoPooling /\ NoHeap /\ NoCpDir /\ NoDownload
  \/ /\ program = "primes" /\ P!Init /\ result = Unused
     /\ NoCrossing /\ NoMergeSort /\ NoPooling /\ NoHeap /\ NoCpDir /\ NoDownload
  \/ /\ program = "pooling" /\ B!Init
     /\ NoCrossing /\ NoMergeSort /\ NoPrimes /\ NoHeap /\ NoCpDir /\ NoDownload
  \/ /\ program = "heapsearch" /\ H!Init
     /\ NoCrossing /\ NoMergeSort /\ NoPrimes /\ NoPooling /\ NoCpDir /\ NoDownload
  \/ /\ program = "cpdir" /\ C!Init /\ result = Unused
     /\ NoCrossing /\ NoMergeSort /\ NoPrimes /\ NoPooling /\ NoHeap /\ NoDownload
  \/ /\ program = "download" /\ D!Init /\ i = Unused /\ result = Unused
     /\ NoCrossing /\ NoMergeSort /\ NoPrimes /\ NoPooling /\ NoHeap /\ NoCpDir

crossing ==
  /\ program = "crossing" /\ X!Next
  /\ UNCHANGED <<program, i, result, mergeSortOwn, primesOwn, poolingOwn, heapOwn, cpdirOwn,
                 downloadOwn>>
mergesort ==
  /\ program = "mergesort" /\ S!Next
  /\ UNCHANGED <<program, at, result, crossingOwn, primesOwn, poolingOwn, heapOwn, cpdirOwn,
                 downloadOwn>>
primes ==
  /\ program = "primes" /\ P!Next
  /\ UNCHANGED <<program, result, crossingOwn, mergeSortOwn, poolingOwn, heapOwn, cpdirOwn,
                 downloadOwn>>
pooling ==
  /\ program = "pooling" /\ B!Next
  /\ UNCHANGED <<program, crossingOwn, mergeSortOwn, primesOwn, heapOwn, cpdirOwn, downloadOwn>>
heapsearch ==
  /\ program = "heapsearch" /\ H!Next
  /\ UNCHANGED <<program, crossingOwn, mergeSortOwn, primesOwn, poolingOwn, cpdirOwn, downloadOwn>>
cpdir ==
  /\ program = "cpdir" /\ C!Next
  /\ UNCHANGED <<program, result, crossingOwn, mergeSortOwn, primesOwn, poolingOwn, heapOwn,
                 downloadOwn>>
download ==
  /\ program = "download" /\ D!Next
  /\ UNCHANGED <<program, i, result, crossingOwn, mergeSortOwn, primesOwn, poolingOwn, heapOwn,
                 cpdirOwn>>

Step == crossing \/ mergesort \/ primes \/ pooling \/ heapsearch \/ cpdir \/ download

(* main() and all its workers have ended. *)
AtRest ==
  CASE program = "crossing"   -> X!AtRest
    [] program = "mergesort"  -> S!AtRest
    [] program = "primes"     -> P!AtRest
    [] program = "pooling"    -> B!AtRest
    [] program = "heapsearch" -> H!AtRest
    [] program = "cpdir"      -> C!AtRest
    [] program = "download"   -> D!AtRest

Next == Step \/ (AtRest /\ UNCHANGED vars)

Spec == Init /\ [][Next]_vars

(* The kernel runs some thread or process that can run.  No more is needed: *)
(* none of the programs polls.                                              *)
FairSpec == Spec /\ WF_vars(Step)

-----------------------------------------------------------------------------
(***************************************************************************)
(* The workers that have started and not ended, what main() does and in    *)
(* which round of workers it is: how each program implements ForkJoin.     *)
(***************************************************************************)
Alive ==
  CASE program = "crossing"   -> {d \in Sources : at[d] \notin {"uncreated", "end"}}
    [] program = "mergesort"  -> {c \in S!Kids : todo[c] # <<>>}
    [] program = "primes"     -> {c \in P!Kids : ~P!Ended(c)}
    [] program = "pooling"    -> B!Working
    [] program = "heapsearch" -> {w \in H!Workers : at[w] \notin {"unborn", "ended"}}
    [] program = "cpdir"      -> {t \in DOMAIN at : ~C!Ended(t)}
    [] program = "download"   -> {k \in D!Kids : at[k] = "downloads"}

Phase ==
  CASE main \in {"done", "destroyed"} -> "joined"
    [] main = "failed" -> "left"
    [] OTHER -> "works"

Round ==
  CASE main \in {"fork_merge", "wait_merge"} -> size
    [] main \in {"fork", "wait"} /\ program = "heapsearch" -> 1
    [] main \in {"copies", "joincopies"} -> 1
    [] OTHER -> 0

AllWorkers ==
  Sources \union S!Kids \union P!Kids \union B!Rows \union H!Workers \union Dirs \union Files
    \union D!Kids

F == INSTANCE ForkJoin WITH
       Workers <- AllWorkers, phase <- Phase, alive <- Alive, round <- Round

(* Every program starts its workers, and goes on to the next round or to    *)
(* its result, whoever is slow and whichever forks fail, only when all of   *)
(* them have ended: a step of any of them is a step of ForkJoin.            *)
ImplementsForkJoin == F!ForkJoinSpec

(* Nobody waits for ever: for a mutex, for a full pipe or its end, for a    *)
(* child that was never born, or with a file that never seems to end.       *)
ProgramsEnd == <>AtRest

TypeOK ==
  CASE program = "crossing"   -> X!TypeOK
    [] program = "mergesort"  -> S!TypeOK
    [] program = "primes"     -> P!TypeOK
    [] program = "pooling"    -> B!TypeOK
    [] program = "heapsearch" -> H!TypeOK
    [] program = "cpdir"      -> C!TypeOK
    [] program = "download"   -> D!TypeOK

(* The properties of the single programs, as their modules state them.      *)
LogFollowsCars      == program = "crossing" => X!LogFollowsCars
ChildrenApart       == program = "mergesort" => S!ChildrenApart
NothingLost         == program = "mergesort" => S!NothingLost
RoundsSorted        == program = "mergesort" => S!RoundsSorted
SumRight            == program = "primes" => P!SumRight
RowsRight           == program = "pooling" => B!RowsRight
AnswersRight        == program = "heapsearch" => H!AnswersRight
LossIsWholeSubtrees == program = "cpdir" => C!LossIsWholeSubtrees
NoAddressSkipped    == program = "download" => D!NoAddressSkipped

=============================================================================
