----------------------------- MODULE Simulators -----------------------------
(***************************************************************************)
(* The scheduling simulators of hw3, side by side: each behaviour is a run *)
(* of one of them on one input.  The variables the chosen one does not     *)
(* have keep the value Unused.                                             *)
(***************************************************************************)
EXTENDS Integers

CONSTANTS
  n,                                                  \* the number of processes
  Bursts, Arrivals, Priorities, quantum,              \* Schedulers
  MlfqBursts, MlfqArrivals, q1_quantum, q2_quantum    \* Mlfq

VARIABLES
  program, arrival_time, burst_time, completed, state,
  policy, priority, processes, remaining, waiting_time, chart,           \* Schedulers
  remaining_time, rem_after_interrupt, in_q, queue, front, time, finished  \* Mlfq

shared        == <<arrival_time, burst_time, completed, state>>
schedulersOwn == <<policy, priority, processes, remaining, waiting_time, chart>>
mlfqOwn       == <<remaining_time, rem_after_interrupt, in_q, queue, front, time, finished>>
vars          == <<program, shared, schedulersOwn, mlfqOwn>>

S == INSTANCE Schedulers
Q == INSTANCE Mlfq WITH Bursts <- MlfqBursts, Arrivals <- MlfqArrivals

ASSUME SimulatorsAssumption == S!SchedulersAssumption /\ Q!MlfqAssumption

-----------------------------------------------------------------------------
Unused == "unused"

Init ==
  \/ /\ program = "schedulers" /\ S!Init
     /\ remaining_time = Unused /\ rem_after_interrupt = Unused /\ in_q = Unused
     /\ queue = Unused /\ front = Unused /\ time = Unused /\ finished = Unused
  \/ /\ program = "mlfq" /\ Q!Init
     /\ policy = Unused /\ priority = Unused /\ processes = Unused
     /\ remaining = Unused /\ waiting_time = Unused /\ chart = Unused

schedulers == program = "schedulers" /\ S!Next /\ UNCHANGED <<program, mlfqOwn>>
mlfq       == program = "mlfq" /\ Q!Next /\ UNCHANGED <<program, schedulersOwn>>

Step == schedulers \/ mlfq

AtRest == state \in {"done", "crashed"}

Next == Step \/ (AtRest /\ UNCHANGED vars)

Spec == Init /\ [][Next]_vars

(* The programs are sequential: they go on as long as they can. *)
FairSpec == Spec /\ WF_vars(Step)

-----------------------------------------------------------------------------
(***************************************************************************)
(* Properties: those of the two modules, each for its own program.         *)
(***************************************************************************)
Of(name, P) == program = name => P

TypeOK == IF program = "mlfq" THEN Q!TypeOK ELSE S!TypeOK

(* What the tables and the clock say is what the simulation did.            *)
TimesAddUp == IF program = "mlfq" THEN Q!TimeIsWork ELSE S!TimesAddUp

(* sjf.c and srtf.c are optimal in their total turnaround time.             *)
ShortestFirstOptimal == Of("schedulers", S!ShortestFirstOptimal)

(* multi_level_sched.c ends early only over an entry nothing is left of, and *)
(* not before everybody who is there has had its first turn.                *)
CutShortByStaleHead == Of("mlfq", Q!CutShortByStaleHead)

(* multi_level_sched.c gives turns level by level.                          *)
LevelsInOrder == Of("mlfq", Q!LevelsInOrder)

(* Every simulation ends on the inputs it can deal with: no burst of 0 for  *)
(* rr_priority.c, and for multi_level_sched.c processes that arrive         *)
(* together, as it waits for ever where nobody is in a queue (251-252).     *)
SchedulersEnd ==
  /\ (program = "mlfq" /\ Q!AllAtZero) ~> AtRest
  /\ (program = "schedulers" /\ \A p \in S!Ids : burst_time[p] > 0) ~> AtRest

=============================================================================
