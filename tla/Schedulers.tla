----------------------------- MODULE Schedulers -----------------------------
(***************************************************************************)
(* hw3: the four scheduling simulators with one queue.  sjf.c runs the     *)
(* shortest job first, srtf.c the one with the shortest remaining time,    *)
(* HRRN.c the one with the highest response ratio, rr_priority.c the first *)
(* of the highest priority, a quantum at a time.  A step is one decision.  *)
(***************************************************************************)
EXTENDS Integers, FiniteSets, SequencesExt

CONSTANTS
  n,                             \* the number of processes
  Bursts, Arrivals, Priorities,  \* what the user may enter
  quantum

SchedulersAssumption ==
  /\ n \in Nat \ {0} /\ quantum \in Nat \ {0}
  /\ Bursts \subseteq Nat /\ Arrivals \subseteq Nat /\ Priorities \subseteq Int

VARIABLES
  policy,        \* which of the programs this is
  arrival_time, burst_time, priority,
  processes,     \* the array of processes (their ids), as it was sorted
  remaining,     \* remaining[p]: the time p still needs
  completed,     \* the processes that are marked as completed
  waiting_time,
  chart,         \* chart[t]: who had the CPU in the t-th unit of time; 0 if nobody
  state          \* "runs", "done", or "crashed"

inputs       == <<policy, arrival_time, burst_time, priority, processes>>
schedulerVars == <<inputs, remaining, completed, waiting_time, chart, state>>

Ids  == 1 .. n
time == Len(chart)

TypeOK ==
  /\ policy \in {"sjf", "srtf", "hrrn", "rr"}
  /\ arrival_time \in [Ids -> Arrivals \union {0}] /\ burst_time \in [Ids -> Bursts]
  /\ priority \in [Ids -> Priorities \union {0}]
  /\ processes \in [Ids -> Ids] /\ {processes[k] : k \in Ids} = Ids
  /\ remaining \in [Ids -> Nat] /\ \A p \in Ids : remaining[p] <= burst_time[p]
  /\ completed \subseteq Ids
  /\ waiting_time \in [Ids -> Int]
  /\ chart \in Seq(Ids \union {0})
  /\ state \in {"runs", "done", "crashed"}

-----------------------------------------------------------------------------
(* The sort routines, on arrays of ids. *)
(* Mutant: swap() without its temporary copy. *)
Exchanged_Twice(s, j, k) == [s EXCEPT ![j] = s[k]]

Exchanged(s, j, k) == [s EXCEPT ![j] = s[k], ![k] = s[j]]

(* sjf(): selection sort by burst; all arrivals are 0.  Least is the first  *)
(* of the shortest from j on.                                               *)
Least(t, j) ==
  CHOOSE k \in j .. n : /\ \A m \in j .. n : burst_time[t[k]] <= burst_time[t[m]]
                        /\ \A m \in j .. k - 1 : burst_time[t[k]] < burst_time[t[m]]
Select(t, j) == Exchanged(t, j, Least(t, j))

selection_sort(s) == FoldLeft(Select, s, [j \in 1 .. n - 1 |-> j])

(* HRRN.c and rr_priority.c: every pair in the wrong order is exchanged;    *)
(* it is by ascending keys.                                                 *)
Compare(t, key, j, k) == IF key[t[j]] > key[t[k]] THEN Exchanged(t, j, k) ELSE t
Settle(t, key, j) ==
  FoldLeft(LAMBDA u, k : Compare(u, key, j, k), t, [k \in 1 .. n - j |-> j + k])

exchange_sort(s, key) ==
  FoldLeft(LAMBDA t, j : Settle(t, key, j), s, [j \in 1 .. n - 1 |-> j])

Descending(key) == [p \in DOMAIN key |-> -key[p]]

Unsorted == [k \in Ids |-> k]
Idle(t)  == [k \in 1 .. t |-> 0]

(* In srtf.c a burst of 0 is counted down below 0 for ever.                 *)
Init ==
  /\ policy \in {"sjf", "srtf", "hrrn", "rr"}
  /\ burst_time \in [Ids -> IF policy = "srtf" THEN Bursts \ {0} ELSE Bursts]
  /\ arrival_time \in [Ids -> IF policy \in {"srtf", "hrrn"} THEN Arrivals ELSE {0}]
  /\ priority \in [Ids -> IF policy = "rr" THEN Priorities ELSE {0}]
  /\ processes = CASE policy = "sjf"  -> selection_sort(Unsorted)
                   [] policy = "srtf" -> Unsorted
                   [] policy = "hrrn" -> exchange_sort(Unsorted, arrival_time)
                   [] policy = "rr"   -> exchange_sort(Unsorted, Descending(priority))
  /\ remaining = burst_time
  /\ completed = {}
  /\ waiting_time = [p \in Ids |-> 0]
  /\ chart = IF policy = "hrrn" THEN Idle(arrival_time[processes[1]]) ELSE <<>>
  /\ state = "runs"

-----------------------------------------------------------------------------
(* The first in the array of those processes in S whose key is lowest.      *)
FirstBest(S, key) ==
  LET Best == {p \in S : \A r \in S : key[p] <= key[r]}
  IN  processes[CHOOSE k \in Ids : /\ processes[k] \in Best
                                   /\ \A m \in 1 .. k - 1 : processes[m] \notin Best]

Arrived(t) == {p \in Ids \ completed : arrival_time[p] <= t}

(* Mutant: waiting is counted from the start of the clock. *)
Run_FromZero(p, units, done) ==
  /\ chart' = chart \o [k \in 1 .. units |-> p]
  /\ remaining' = [remaining EXCEPT ![p] = IF @ > units THEN @ - units ELSE 0]
  /\ completed' = IF done THEN completed \union {p} ELSE completed
  /\ waiting_time' =
       IF done THEN [waiting_time EXCEPT ![p] = time + units - burst_time[p]] ELSE waiting_time
  /\ UNCHANGED <<inputs, state>>

(* p gets the CPU for `units`, and is completed if done holds.              *)
Run(p, units, done) ==
  /\ chart' = chart \o [k \in 1 .. units |-> p]
  /\ remaining' = [remaining EXCEPT ![p] = IF @ > units THEN @ - units ELSE 0]
  /\ completed' = IF done THEN completed \union {p} ELSE completed
  /\ waiting_time' =
       IF done THEN [waiting_time EXCEPT ![p] = time + units - arrival_time[p] - burst_time[p]]
       ELSE waiting_time
  /\ UNCHANGED <<inputs, state>>

Ready(pol) == policy = pol /\ state = "runs"

(* sjf.c, main: the array in its order. *)
sjf ==
  /\ Ready("sjf") /\ completed # Ids
  /\ LET p == processes[Cardinality(completed) + 1] IN Run(p, burst_time[p], TRUE)

(* Mutant: a job that runs is not preempted by one that needs less.         *)
srtf_NotPreemptive ==
  /\ Ready("srtf") /\ Arrived(time) # {}
  /\ LET p == IF chart # <<>> /\ Last(chart) \in Ids \ completed
              THEN Last(chart) ELSE FirstBest(Arrived(time), remaining)
     IN  Run(p, 1, remaining[p] = 1)

srtf ==
  /\ Ready("srtf") /\ Arrived(time) # {}
  /\ LET p == FirstBest(Arrived(time), remaining) IN Run(p, 1, remaining[p] = 1)

srtf_idle ==
  /\ Ready("srtf") /\ completed # Ids /\ Arrived(time) = {}
  /\ chart' = Append(chart, 0)
  /\ UNCHANGED <<inputs, remaining, completed, waiting_time, state>>

sum_burst_time == FoldFunctionOnSet(+, 0, burst_time, Ids)
(* The division is between integers: the ratio is cut to a whole number.    *)
Ratio == [p \in Arrived(time) |-> (burst_time[p] + time - arrival_time[p]) \div burst_time[p]]

hrrn ==
  /\ Ready("hrrn") /\ time < sum_burst_time
  /\ Arrived(time) # {} /\ \A p \in Arrived(time) : burst_time[p] # 0
  /\ LET p == FirstBest(Arrived(time), Descending(Ratio)) IN Run(p, burst_time[p], TRUE)

(* Nobody is ready: the index of the process to run is not initialised.  It *)
(* may be that of any process, or lead outside the array.                   *)
hrrn_no_candidate ==
  /\ Ready("hrrn") /\ time < sum_burst_time
  /\ Arrived(time) = {}
  /\ \/ \E p \in Ids : Run(p, burst_time[p], TRUE)
     \/ /\ state' = "crashed"
        /\ UNCHANGED <<inputs, remaining, completed, waiting_time, chart>>

(* The ratio of a burst of 0 divides by it. *)
hrrn_divides_by_zero ==
  /\ Ready("hrrn") /\ time < sum_burst_time
  /\ \E p \in Arrived(time) : burst_time[p] = 0
  /\ state' = "crashed"
  /\ UNCHANGED <<inputs, remaining, completed, waiting_time, chart>>

(* Mutant: processes that are finished are not passed over. *)
FirstUnfinished_Any == processes[1]

(* rr_with_priority: always the first in the array that is not finished.    *)
FirstUnfinished ==
  processes[CHOOSE k \in Ids : /\ processes[k] \notin completed
                               /\ \A m \in 1 .. k - 1 : processes[m] \in completed]

rr ==
  /\ Ready("rr") /\ completed # Ids
  /\ LET p == FirstUnfinished
         execution_time == IF remaining[p] > quantum THEN quantum ELSE remaining[p]
     IN  IF remaining[p] > 0
         THEN Run(p, execution_time, remaining[p] = execution_time)
         ELSE UNCHANGED schedulerVars

Finished == IF policy = "hrrn" THEN time >= sum_burst_time ELSE completed = Ids

Finish ==
  /\ state = "runs" /\ Finished
  /\ state' = "done"
  /\ UNCHANGED <<inputs, remaining, completed, waiting_time, chart>>

Next ==
  \/ sjf \/ srtf \/ srtf_idle \/ hrrn \/ hrrn_no_candidate \/ hrrn_divides_by_zero \/ rr
  \/ Finish

Spec == Init /\ [][Next]_schedulerVars

-----------------------------------------------------------------------------
(***************************************************************************)
(* Properties.                                                             *)
(***************************************************************************)
AtRest == state \in {"done", "crashed"}

(* The units of time in which p had the CPU. *)
Units(p) == {t \in 1 .. time : chart[t] = p}

(* The last unit of time in which p had the CPU. *)
LastUnit(p) == Max(Units(p))

(* While work is left, some process has arrived: the inputs on which HRRN.c *)
(* never uses the index it has not initialised, nor stops before the end.   *)
Gapless ==
  \A S \in (SUBSET Ids) \ {Ids} :
     \E p \in Ids \ S : arrival_time[p] <= FoldFunctionOnSet(+, 0, burst_time, S)

(* What the tables say is what the simulation did: a process counted as     *)
(* completed had the CPU for its whole burst, in units after its arrival,   *)
(* and its waiting time is the number of units in between that it did not   *)
(* have (sjf.c 63-65, srtf.c 61-70, HRRN.c 71-78, rr_priority.c 70-85).     *)
(* When the simulation is over, everybody who needs the CPU is completed.   *)
TimesAddUp ==
  (policy = "hrrn" => Gapless) =>
     /\ \A p \in completed : burst_time[p] > 0 =>
          /\ Cardinality(Units(p)) = burst_time[p]
          /\ \A t \in Units(p) : t > arrival_time[p]
          /\ waiting_time[p] =
               Cardinality({t \in arrival_time[p] + 1 .. LastUnit(p) : chart[t] # p})
     /\ state = "done" => \A p \in Ids : burst_time[p] > 0 => p \in completed

(* The schedule in which a process earlier in `order` always goes before a  *)
(* later one: every process takes the first free units after its arrival.   *)
TotalCompletion(order) ==
  LET horizon == Max({arrival_time[p] : p \in Ids}) + sum_burst_time
      FirstUnit(taken, p) == Min({t \in arrival_time[p] + 1 .. horizon : t \notin taken})
      Take(slots, p) == [taken |-> slots.taken \union {FirstUnit(slots.taken, p)},
                         last |-> FirstUnit(slots.taken, p)]
      Place(acc, p) ==
        LET slots == FoldLeft(Take, [taken |-> acc.taken, last |-> 0],
                              [k \in 1 .. burst_time[p] |-> p])
        IN  [taken |-> slots.taken, total |-> acc.total + slots.last]
  IN  FoldLeft(Place, [taken |-> {}, total |-> 0], order).total

Orders == {o \in [Ids -> Ids] : \A p \in Ids : \E k \in Ids : o[k] = p}

(* The shortest job first, and the shortest remaining time first, are       *)
(* optimal: no other schedule, with preemption or without, has a smaller    *)
(* total turnaround time.  (Any schedule is at least as slow as the one     *)
(* that prefers processes in the order in which it completes them.)         *)
ShortestFirstOptimal ==
  state = "done" /\ policy \in {"sjf", "srtf"} =>
    LET turnaround == [p \in Ids |-> waiting_time[p] + burst_time[p] + arrival_time[p]]
    IN  \A order \in Orders :
          FoldFunctionOnSet(+, 0, turnaround, Ids) <= TotalCompletion(order)

=============================================================================
