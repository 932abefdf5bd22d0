------------------------------ MODULE Pipeline ------------------------------
(***************************************************************************)
(* hw4/Q1/Q1.c: one thread per product takes it through assembly, quality  *)
(* check and packaging.  Machines and inter-stage buffers are counting     *)
(* semaphores; the post that frees a buffer slot is wrapped in a mutex.    *)
(* Every semaphore or mutex operation of a thread is one action: that is   *)
(* where the threads interleave.  printf and sleep change no shared state. *)
(***************************************************************************)
EXTENDS Naturals, FiniteSets

CONSTANTS
  Products,                     \* one thread each
  NUM_ASSEMBLY_MACHINES, NUM_QUALITY_CHECK_MACHINES, NUM_PACKAGING_MACHINES,
  BUFFER_SIZE_1, BUFFER_SIZE_2,
  NoThread                      \* owner of a free mutex

ASSUME PipelineAssumption ==
  /\ IsFiniteSet(Products) /\ Products # {}
  /\ NoThread \notin Products
  /\ NUM_ASSEMBLY_MACHINES \in Nat \ {0}
  /\ NUM_QUALITY_CHECK_MACHINES \in Nat \ {0}
  /\ NUM_PACKAGING_MACHINES \in Nat \ {0}
  /\ BUFFER_SIZE_1 \in Nat \ {0}
  /\ BUFFER_SIZE_2 \in Nat \ {0}

VARIABLES
  sem,     \* value of each semaphore
  owner,   \* owner of each mutex
  pc,      \* where each product's thread stands
  main     \* where main() stands

vars == <<sem, owner, pc, main>>

Semaphores ==
  {"assembly_machines", "buffer1", "quality_machines", "buffer2", "packaging_machines"}

Mutexes == {"m1", "m2"}

(* The values sem_init gives the semaphores. *)
Units ==
  [s \in Semaphores |->
     CASE s = "assembly_machines"  -> NUM_ASSEMBLY_MACHINES
       [] s = "buffer1"            -> BUFFER_SIZE_1
       [] s = "quality_machines"   -> NUM_QUALITY_CHECK_MACHINES
       [] s = "buffer2"            -> BUFFER_SIZE_2
       [] s = "packaging_machines" -> NUM_PACKAGING_MACHINES]

Labels ==
  {"uncreated", "start", "assembling", "placed1", "queued1",
   "lock1", "dequeue1", "unlock1", "checking", "placed2", "queued2",
   "lock2", "dequeue2", "unlock2", "packaging", "end"}

TypeOK ==
  /\ sem \in [Semaphores -> Nat] /\ \A s \in Semaphores : sem[s] <= Units[s]
  /\ owner \in [Mutexes -> Products \union {NoThread}]
  /\ pc \in [Products -> Labels]
  /\ main \in {"create", "join", "destroyed"}

Init ==
  /\ sem = Units
  /\ owner = [m \in Mutexes |-> NoThread]
  /\ pc = [p \in Products |-> "uncreated"]
  /\ main = "create"

-----------------------------------------------------------------------------
(* The primitives: each moves thread p from one label to the next.          *)

Goto(p, from, to) ==
  /\ pc[p] = from
  /\ pc' = [pc EXCEPT ![p] = to]
  /\ UNCHANGED main

(* Mutant: takes a unit without waiting for one.                            *)
sem_wait_unguarded(p, s, from, to) ==
  /\ Goto(p, from, to)
  /\ sem' = [sem EXCEPT ![s] = @ - 1]
  /\ UNCHANGED owner

sem_wait(p, s, from, to) ==
  /\ Goto(p, from, to)
  /\ sem[s] > 0
  /\ sem' = [sem EXCEPT ![s] = @ - 1]
  /\ UNCHANGED owner

sem_post(p, s, from, to) ==
  /\ Goto(p, from, to)
  /\ sem' = [sem EXCEPT ![s] = @ + 1]
  /\ UNCHANGED owner

mutex_lock(p, m, from, to) ==
  /\ Goto(p, from, to)
  /\ owner[m] = NoThread
  /\ owner' = [owner EXCEPT ![m] = p]
  /\ UNCHANGED sem

mutex_unlock(p, m, from, to) ==
  /\ Goto(p, from, to)
  /\ owner' = [owner EXCEPT ![m] = NoThread]
  /\ UNCHANGED sem

-----------------------------------------------------------------------------
(* assembly() *)
AcquireAssembly(p) == sem_wait(p, "assembly_machines", "start", "assembling")
(* Mutant: puts the product down without looking for a free slot.           *)
TakeBuffer1_NoWait(p) == Goto(p, "assembling", "placed1") /\ UNCHANGED <<sem, owner>>

TakeBuffer1(p)     == sem_wait(p, "buffer1", "assembling", "placed1")
ReleaseAssembly(p) == sem_post(p, "assembly_machines", "placed1", "queued1")

assembly(p) == AcquireAssembly(p) \/ TakeBuffer1(p) \/ ReleaseAssembly(p)

(* quality_check() *)
AcquireQuality(p) == sem_wait(p, "quality_machines", "queued1", "lock1")
LockM1(p)         == mutex_lock(p, "m1", "lock1", "dequeue1")
(* Mutant: posts the other buffer.                                          *)
LeaveBuffer1_Wrong(p) == sem_post(p, "buffer2", "dequeue1", "unlock1")

LeaveBuffer1(p)   == sem_post(p, "buffer1", "dequeue1", "unlock1")
UnlockM1(p)       == mutex_unlock(p, "m1", "unlock1", "checking")
TakeBuffer2(p)    == sem_wait(p, "buffer2", "checking", "placed2")
(* Mutant: forgets to post the machine.                                     *)
ReleaseQuality_Forgets(p) == Goto(p, "placed2", "queued2") /\ UNCHANGED <<sem, owner>>

ReleaseQuality(p) == sem_post(p, "quality_machines", "placed2", "queued2")

quality_check(p) ==
  \/ AcquireQuality(p) \/ LockM1(p) \/ LeaveBuffer1(p)
  \/ UnlockM1(p) \/ TakeBuffer2(p) \/ ReleaseQuality(p)

(* packaging() *)
AcquirePackaging(p) == sem_wait(p, "packaging_machines", "queued2", "lock2")
LockM2(p)           == mutex_lock(p, "m2", "lock2", "dequeue2")
LeaveBuffer2(p)     == sem_post(p, "buffer2", "dequeue2", "unlock2")
UnlockM2(p)         == mutex_unlock(p, "m2", "unlock2", "packaging")
(* Mutant: the thread never returns.                                        *)
ReleasePackaging_Loops(p) == sem_post(p, "packaging_machines", "packaging", "start")

ReleasePackaging(p) == sem_post(p, "packaging_machines", "packaging", "end")

packaging(p) ==
  \/ AcquirePackaging(p) \/ LockM2(p) \/ LeaveBuffer2(p)
  \/ UnlockM2(p) \/ ReleasePackaging(p)

product(p) == assembly(p) \/ quality_check(p) \/ packaging(p)

-----------------------------------------------------------------------------
(* main(): create every thread, join them all, then destroy the semaphores. *)

CreateThread(p) ==
  /\ main = "create"
  /\ pc[p] = "uncreated"
  /\ pc' = [pc EXCEPT ![p] = "start"]
  /\ main' = IF \E q \in Products \ {p} : pc[q] = "uncreated" THEN "create" ELSE "join"
  /\ UNCHANGED <<sem, owner>>

JoinAllAndDestroy ==
  /\ main = "join"
  /\ \A p \in Products : pc[p] = "end"
  /\ main' = "destroyed"
  /\ UNCHANGED <<sem, owner, pc>>

(* The process has exited: stuttering that is not a deadlock. *)
Exited == main = "destroyed" /\ UNCHANGED vars

Next ==
  \/ \E p \in Products : CreateThread(p) \/ product(p)
  \/ JoinAllAndDestroy
  \/ Exited

Spec == Init /\ [][Next]_vars

(* Every thread the kernel can run is eventually run. *)
Fairness ==
  /\ \A p \in Products : WF_vars(product(p)) /\ WF_vars(CreateThread(p))
  /\ WF_vars(JoinAllAndDestroy)

FairSpec == Spec /\ Fairness

-----------------------------------------------------------------------------
(***************************************************************************)
(* Safety.                                                                 *)
(***************************************************************************)

(* The labels at which a thread has taken a unit of s and not posted it.    *)
HeldAt ==
  [s \in Semaphores |->
     CASE s = "assembly_machines"  -> {"assembling", "placed1"}
       [] s = "buffer1"            -> {"placed1", "queued1", "lock1", "dequeue1"}
       [] s = "quality_machines"   -> {"lock1", "dequeue1", "unlock1", "checking", "placed2"}
       [] s = "buffer2"            -> {"placed2", "queued2", "lock2", "dequeue2"}
       [] s = "packaging_machines" -> {"lock2", "dequeue2", "unlock2", "packaging"}]

Holders(s) == {p \in Products : pc[p] \in HeldAt[s]}

(* No unit of a machine or of a buffer is ever lost or made up: what a      *)
(* semaphore counts as free and what the products hold always add up to     *)
(* the value sem_init gave it, wherever the threads stand.                  *)
Conservation == \A s \in Semaphores : sem[s] + Cardinality(Holders(s)) = Units[s]

(* m1 and m2 are owned by exactly the thread inside the section they guard. *)
LockedAt == [m \in Mutexes |-> IF m = "m1" THEN {"dequeue1", "unlock1"}
                                           ELSE {"dequeue2", "unlock2"}]

OwnerInside ==
  \A m \in Mutexes, p \in Products : owner[m] = p <=> pc[p] \in LockedAt[m]

(* The condition under which the thread of p can take its next step.        *)
CanRun(p) ==
  /\ pc[p] \notin {"uncreated", "end"}
  /\ pc[p] = "start"      => sem["assembly_machines"] > 0
  /\ pc[p] = "assembling" => sem["buffer1"] > 0
  /\ pc[p] = "queued1"    => sem["quality_machines"] > 0
  /\ pc[p] = "lock1"      => owner["m1"] = NoThread
  /\ pc[p] = "checking"   => sem["buffer2"] > 0
  /\ pc[p] = "queued2"    => sem["packaging_machines"] > 0
  /\ pc[p] = "lock2"      => owner["m2"] = NoThread

(* Holding a machine while waiting for the next buffer, or a buffer while   *)
(* waiting for the next machine, never closes a cycle: as long as some      *)
(* created product is not through, some thread can take a step.             *)
NeverStuck ==
  (\E p \in Products : pc[p] \notin {"uncreated", "end"}) => \E p \in Products : CanRun(p)

(***************************************************************************)
(* The pipeline implements the staged line: the two buffers and the three  *)
(* machine pools are its five places.                                      *)
(***************************************************************************)
Route == <<"assembly_machines", "buffer1", "quality_machines", "buffer2",
           "packaging_machines">>

(* The last place entered by a thread that stands at label l ...           *)
PlaceAt ==
  [l \in Labels |->
     CASE l \in {"uncreated", "start"}                    -> 0
       [] l = "assembling"                                -> 1
       [] l \in {"placed1", "queued1"}                    -> 2
       [] l \in {"lock1", "dequeue1", "unlock1", "checking"}  -> 3
       [] l \in {"placed2", "queued2"}                    -> 4
       [] l \in {"lock2", "dequeue2", "unlock2", "packaging"} -> 5
       [] l = "end"                                       -> 6]

(* ... and the labels at which it has not yet posted the place before.      *)
StraddlingLabels == {"placed1", "lock1", "dequeue1", "placed2", "lock2", "dequeue2"}

atBar == [p \in Products |-> PlaceAt[pc[p]]]
straddlesBar == [p \in Products |-> pc[p] \in StraddlingLabels]

Line == INSTANCE StagedLine
  WITH Items <- Products, Places <- 5, Capacity <- [k \in 1 .. 5 |-> Units[Route[k]]],
       at <- atBar, straddles <- straddlesBar

(* Every step of the semaphores, mutexes and threads is a step of the line. *)
ImplementsLine == Line!LineSafety

(* With the kernel's scheduling it is also live, by the line's own fairness: *)
(* every product is shipped.                                                *)
ImplementsLiveLine == Line!LineSpec

=============================================================================
