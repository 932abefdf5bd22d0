-------------------------------- MODULE Mlfq --------------------------------
(***************************************************************************)
(* hw3/multi_level_sched.c: three queues; a turn in the first is           *)
(* q1_quantum long, one in the second q2_quantum, one in the third goes on *)
(* to the end; turns in the last two stop when a process arrives.  A step  *)
(* is one pass of the outer loop.                                          *)
(* Queues are never compacted: front[k] counts what has left queue k, and  *)
(* the rear is its length.  A process is its index, which is also its id.  *)
(***************************************************************************)
EXTENDS Integers, FiniteSets, SequencesExt

CONSTANTS
  n,                       \* the number of processes
  Bursts, Arrivals,        \* what the user may enter
  q1_quantum, q2_quantum

MlfqAssumption ==
  /\ n \in Nat \ {0}
  /\ Bursts \subseteq Nat /\ Arrivals \subseteq Nat
  /\ q1_quantum \in Nat \ {0} /\ q2_quantum \in Nat \ {0}

VARIABLES
  arrival_time, burst_time,
  remaining_time, rem_after_interrupt,
  in_q,             \* in_q[k]: the processes whose flag for queue k is set
  queue, front,
  time,
  finished,         \* the processes marked as finished (and as completed)
  completed,        \* the counter
  state             \* "runs" or "done"

inputs   == <<arrival_time, burst_time>>
mlfqVars == <<inputs, remaining_time, rem_after_interrupt, in_q, queue, front, time, finished,
              completed, state>>

Ids    == 1 .. n
Levels == 1 .. 3

TypeOK ==
  /\ arrival_time \in [Ids -> Arrivals] /\ burst_time \in [Ids -> Bursts]
  /\ remaining_time \in [Ids -> Int] /\ \A p \in Ids : remaining_time[p] <= burst_time[p]
  /\ rem_after_interrupt \in [Ids -> Nat]
  /\ in_q \in [Levels -> SUBSET Ids]
  /\ queue \in [Levels -> Seq(Ids)] /\ \A k \in Levels : Len(queue[k]) <= n
  /\ \A k \in Levels : front[k] \in 0 .. Len(queue[k])
  /\ time \in Nat
  /\ finished \subseteq Ids /\ completed \in 0 .. n
  /\ state \in {"runs", "done"}

Init ==
  /\ arrival_time \in [Ids -> Arrivals] /\ burst_time \in [Ids -> Bursts]
  /\ remaining_time = burst_time
  /\ rem_after_interrupt = [p \in Ids |-> 0]
  /\ in_q = [k \in Levels |-> {}]
  /\ queue = [k \in Levels |-> <<>>] /\ front = [k \in Levels |-> 0]
  /\ time = 0 /\ finished = {} /\ completed = 0
  /\ state = "runs"

-----------------------------------------------------------------------------
(***************************************************************************)
(* The loop over all processes that begins each pass.  A process that has  *)
(* arrived and is not finished is put into the first queue, by the next    *)
(* pass into the second and by a third into the last, whether it has had a *)
(* turn in between or not.                                                 *)
(***************************************************************************)
Enters(p, k) ==
  CASE k = 1 -> p \notin in_q[1]
    [] k = 2 -> p \in in_q[1] /\ p \notin in_q[2] /\ p \notin in_q[3]
    [] k = 3 -> p \in in_q[1] /\ p \in in_q[2] /\ p \notin in_q[3]

Entrants(k) == {p \in Ids \ finished : arrival_time[p] <= time /\ Enters(p, k)}

FlagsNow == [k \in Levels |-> in_q[k] \union Entrants(k)]

(* The processes in T in the order of their index. *)
ByIndex(T) ==
  CHOOSE s \in [1 .. Cardinality(T) -> T] : \A j, m \in DOMAIN s : j < m => s[j] < s[m]

QueueNow == [k \in Levels |-> queue[k] \o ByIndex(Entrants(k))]

Waiting(k) == front[k] < Len(QueueNow[k])
get_top(k) == QueueNow[k][front[k] + 1]

(* Mutant: a lower queue may run although a higher one is not empty. *)
Pass_AnyQueue(k) ==
  /\ state = "runs" /\ completed < n
  /\ Waiting(k)
  /\ in_q' = FlagsNow /\ queue' = QueueNow
  /\ UNCHANGED <<inputs, state>>

(* A pass that finds queue k to be the first that is not empty. *)
Pass(k) ==
  /\ state = "runs" /\ completed < n
  /\ Waiting(k) /\ \A j \in 1 .. k - 1 : ~Waiting(j)
  /\ in_q' = FlagsNow /\ queue' = QueueNow
  /\ UNCHANGED <<inputs, state>>

(* The first of the next `units` units of time in which somebody arrives.   *)
Arrives(u) == \E r \in Ids \ finished : arrival_time[r] = time + u /\ r \notin FlagsNow[1]
Interrupted(units) == \E u \in 0 .. units - 1 : Arrives(u)
time_used(units) == Min({u \in 0 .. units - 1 : Arrives(u)})

(* Mutant: a process that has ended is counted and not marked. *)
Count_Unmarked(p, left) ==
  /\ finished' = finished
  /\ completed' = IF left = 0 THEN completed + 1 ELSE completed

(* p is marked as finished if it has nothing left to do. *)
Count(p, left) ==
  /\ finished' = IF left = 0 THEN finished \union {p} ELSE finished
  /\ completed' = IF left = 0 THEN completed + 1 ELSE completed

(* p leaves queue k and runs.  What rem_after_interrupt says replaces both  *)
(* the quantum and the time p still needs.                                  *)
Run(k, p, work_for) ==
  LET exec_time == IF rem_after_interrupt[p] > 0 THEN rem_after_interrupt[p]
                   ELSE Min({remaining_time[p], work_for})
  IN  /\ front' = [front EXCEPT ![k] = @ + 1]
      /\ remaining_time' = [remaining_time EXCEPT ![p] = @ - exec_time]
      /\ rem_after_interrupt' = [rem_after_interrupt EXCEPT ![p] = 0]
      /\ time' = time + exec_time
      /\ Count(p, remaining_time[p] - exec_time)

RunQueue1 == Pass(1) /\ Run(1, get_top(1), q1_quantum)

(* The head of a lower queue has nothing left: it is counted, and stays.    *)
StaleHead(k) ==
  /\ Pass(k) /\ remaining_time[get_top(k)] <= 0
  /\ completed' = completed + 1
  /\ UNCHANGED <<remaining_time, rem_after_interrupt, front, time, finished>>

RunQueue2 ==
  /\ Pass(2) /\ remaining_time[get_top(2)] > 0 /\ ~Interrupted(q2_quantum)
  /\ Run(2, get_top(2), q2_quantum)

(* Somebody arrives before the end of the turn.  Only a process that needed *)
(* strictly less leaves the queue.                                          *)
InterruptQueue2 ==
  /\ Pass(2) /\ remaining_time[get_top(2)] > 0 /\ Interrupted(q2_quantum)
  /\ LET p    == get_top(2)
         used == time_used(q2_quantum)
     IN  IF remaining_time[p] < used
         THEN /\ time' = time + remaining_time[p]
              /\ remaining_time' = [remaining_time EXCEPT ![p] = 0]
              /\ rem_after_interrupt' = [rem_after_interrupt EXCEPT ![p] = 0]
              /\ front' = [front EXCEPT ![2] = @ + 1]
              /\ Count(p, 0)
         ELSE /\ time' = time + used
              /\ remaining_time' = [remaining_time EXCEPT ![p] = @ - used]
              /\ rem_after_interrupt' = [rem_after_interrupt EXCEPT ![p] = @ + q2_quantum - used]
              /\ UNCHANGED <<front, finished, completed>>

RunQueue3 ==
  /\ Pass(3) /\ remaining_time[get_top(3)] > 0
  /\ LET work_for == remaining_time[get_top(3)]
     IN  ~Interrupted(work_for) /\ Run(3, get_top(3), work_for)

(* The turn stops before its end, so that p is not finished by it and the   *)
(* branch for that is dead.                                                 *)
InterruptQueue3 ==
  /\ Pass(3) /\ remaining_time[get_top(3)] > 0
  /\ LET p        == get_top(3)
         work_for == remaining_time[p]
     IN  /\ Interrupted(work_for)
         /\ time' = time + time_used(work_for)
         /\ remaining_time' = [remaining_time EXCEPT ![p] = @ - time_used(work_for)]
         /\ rem_after_interrupt' = [rem_after_interrupt EXCEPT ![p] = @ + time_used(work_for)]
  /\ UNCHANGED <<front, finished, completed>>

(* Nobody is in a queue: nothing changes, not even the clock. *)
NobodyToRun ==
  /\ state = "runs" /\ completed < n /\ \A k \in Levels : ~Waiting(k)
  /\ UNCHANGED mlfqVars

Finish ==
  /\ state = "runs" /\ completed >= n
  /\ state' = "done"
  /\ UNCHANGED <<inputs, remaining_time, rem_after_interrupt, in_q, queue, front, time, finished,
                 completed>>

Next ==
  \/ RunQueue1
  \/ StaleHead(2) \/ InterruptQueue2 \/ RunQueue2
  \/ StaleHead(3) \/ InterruptQueue3 \/ RunQueue3
  \/ NobodyToRun \/ Finish

Spec == Init /\ [][Next]_mlfqVars

-----------------------------------------------------------------------------
(***************************************************************************)
(* Properties.                                                             *)
(***************************************************************************)
AtRest == state = "done"
AllAtZero == \A p \in Ids : arrival_time[p] = 0

(* The clock shows the CPU time handed out, through quanta, interrupts and  *)
(* the corrections after them (163-164, 174-175, 225-226, 263-264), and who *)
(* is marked as finished has had its whole burst (167, 230, 269).           *)
TimeIsWork ==
  /\ time = FoldFunctionOnSet(+, 0, burst_time, Ids) - FoldFunctionOnSet(+, 0, remaining_time, Ids)
  /\ \A p \in finished : remaining_time[p] = 0

(* A process that ended in another queue, or took more than it needed, may  *)
(* be found at the head of queue k, and be counted on each pass (133-138,   *)
(* 198-202).                                                                *)
Stale(k) == front[k] < Len(queue[k]) /\ remaining_time[queue[k][front[k] + 1]] <= 0

Used(p) == burst_time[p] - remaining_time[p]

(* What that may cost: the counter is ahead of the processes marked as      *)
(* finished, so that the loop ends before all are, only when such a head is *)
(* the first in any queue; and by then everybody who has arrived has had    *)
(* the whole of its turn in the first queue.                                *)
CutShortByStaleHead ==
  \/ completed = Cardinality(finished)
  \/ /\ completed > Cardinality(finished)
     /\ \E k \in 2 .. 3 : Stale(k) /\ \A j \in 1 .. k - 1 : front[j] = Len(queue[j])
     /\ \A p \in Ids : arrival_time[p] <= time => Used(p) >= Min({burst_time[p], q1_quantum})

(* When all arrive together, nobody gets a second turn before everybody has *)
(* had the first, nor a third before everybody has had the second: although *)
(* the passes put every process into all three queues, whatever it still    *)
(* needs (94-114, 120-249).                                                 *)
LevelsInOrder ==
  LET Within(p, units) == Used(p) >= Min({burst_time[p], units})
  IN  AllAtZero =>
        \A p, r \in Ids :
          /\ Used(p) > q1_quantum => Within(r, q1_quantum)
          /\ Used(p) > q1_quantum + q2_quantum => Within(r, q1_quantum + q2_quantum)

=============================================================================
