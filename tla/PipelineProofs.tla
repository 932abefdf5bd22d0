--------------------------- MODULE PipelineProofs ---------------------------
(***************************************************************************)
(* For any number of products, machines and buffer slots: the semaphores   *)
(* account for every unit, the mutexes exclude, and the threads are never  *)
(* stuck.                                                                  *)
(***************************************************************************)
EXTENDS Pipeline, FiniteSetTheorems, TLAPS

(* TypeOK, but for how far a semaphore can count: that takes Conservation. *)
Typed ==
  /\ sem \in [Semaphores -> Nat]
  /\ owner \in [Mutexes -> Products \union {NoThread}]
  /\ pc \in [Products -> Labels]
  /\ main \in {"create", "join", "destroyed"}

PipelineInv == Typed /\ Conservation /\ OwnerInside

-----------------------------------------------------------------------------
(* Every pool starts with at least one unit, and every route label lies in  *)
(* exactly the sections the code puts it in.                                *)
LEMMA UnitsPositive == Units \in [Semaphores -> Nat \ {0}]
  BY PipelineAssumption DEF Units, Semaphores

LEMMA HeldAtValues ==
  /\ HeldAt["assembly_machines"] = {"assembling", "placed1"}
  /\ HeldAt["buffer1"] = {"placed1", "queued1", "lock1", "dequeue1"}
  /\ HeldAt["quality_machines"] = {"lock1", "dequeue1", "unlock1", "checking", "placed2"}
  /\ HeldAt["buffer2"] = {"placed2", "queued2", "lock2", "dequeue2"}
  /\ HeldAt["packaging_machines"] = {"lock2", "dequeue2", "unlock2", "packaging"}
  BY DEF HeldAt, Semaphores

LEMMA HoldersFinite ==
  ASSUME NEW s
  PROVE  IsFiniteSet(Holders(s)) /\ Cardinality(Holders(s)) \in Nat
<1>1. Holders(s) \subseteq Products
  BY DEF Holders
<1>2. IsFiniteSet(Holders(s))
  BY <1>1, FS_Subset, PipelineAssumption
<1>3. QED
  BY <1>2, FS_CardinalityType

-----------------------------------------------------------------------------
(* A thread that moves between labels that hold the same units changes no   *)
(* set of holders; sem_wait adds it to one, sem_post removes it from one.   *)
SameUnits(t, from, to) == from \in HeldAt[t] <=> to \in HeldAt[t]

LEMMA HoldersUnchanged ==
  ASSUME Typed, NEW p \in Products, NEW from, NEW to, Goto(p, from, to),
         NEW t, SameUnits(t, from, to)
  PROVE  Holders(t)' = Holders(t)
  BY DEF Typed, Goto, SameUnits, Holders

LEMMA WaitConserves ==
  ASSUME Typed, Conservation, NEW p \in Products, NEW s \in Semaphores,
         NEW from, NEW to, sem_wait(p, s, from, to),
         from \notin HeldAt[s], to \in HeldAt[s],
         \A t \in Semaphores \ {s} : SameUnits(t, from, to)
  PROVE  Conservation'
<1>1. Holders(s)' = Holders(s) \union {p} /\ p \notin Holders(s)
  BY DEF Typed, sem_wait, Goto, Holders
<1>2. Cardinality(Holders(s)') = Cardinality(Holders(s)) + 1
  BY <1>1, HoldersFinite, FS_AddElement
<1>3. sem'[s] + Cardinality(Holders(s)') = Units[s]
  BY <1>2, HoldersFinite, UnitsPositive DEF Typed, Conservation, sem_wait
<1>4. ASSUME NEW t \in Semaphores \ {s}
      PROVE  sem'[t] + Cardinality(Holders(t)') = Units[t]
  <2>1. Holders(t)' = Holders(t)
    BY HoldersUnchanged DEF sem_wait
  <2>2. sem'[t] = sem[t]
    BY DEF Typed, sem_wait
  <2>3. QED
    BY <2>1, <2>2 DEF Conservation
<1>5. QED
  BY <1>3, <1>4 DEF Conservation, Units

LEMMA PostConserves ==
  ASSUME Typed, Conservation, NEW p \in Products, NEW s \in Semaphores,
         NEW from, NEW to, sem_post(p, s, from, to),
         from \in HeldAt[s], to \notin HeldAt[s],
         \A t \in Semaphores \ {s} : SameUnits(t, from, to)
  PROVE  Conservation'
<1>1. Holders(s)' = Holders(s) \ {p} /\ p \in Holders(s)
  BY DEF Typed, sem_post, Goto, Holders
<1>2. Cardinality(Holders(s)') = Cardinality(Holders(s)) - 1
  BY <1>1, HoldersFinite, FS_RemoveElement
<1>3. sem'[s] + Cardinality(Holders(s)') = Units[s]
  BY <1>2, HoldersFinite, UnitsPositive DEF Typed, Conservation, sem_post
<1>4. ASSUME NEW t \in Semaphores \ {s}
      PROVE  sem'[t] + Cardinality(Holders(t)') = Units[t]
  <2>1. Holders(t)' = Holders(t)
    BY HoldersUnchanged DEF sem_post
  <2>2. sem'[t] = sem[t]
    BY DEF Typed, sem_post
  <2>3. QED
    BY <2>1, <2>2 DEF Conservation
<1>5. QED
  BY <1>3, <1>4 DEF Conservation, Units

LEMMA MutexStepConserves ==
  ASSUME Typed, Conservation, NEW p \in Products, NEW from, NEW to,
         Goto(p, from, to), UNCHANGED sem,
         \A t \in Semaphores : SameUnits(t, from, to)
  PROVE  Conservation'
  BY HoldersUnchanged DEF Conservation

-----------------------------------------------------------------------------
LEMMA InitInv == Init => PipelineInv
<1> SUFFICES ASSUME Init PROVE PipelineInv
  OBVIOUS
<1>1. Typed
  BY UnitsPositive, PipelineAssumption DEF Init, Typed, Labels
<1>2. Conservation
  <2>1. ASSUME NEW s \in Semaphores PROVE Holders(s) = {}
    BY HeldAtValues DEF Init, Holders, Semaphores
  <2>2. QED
    BY <2>1, FS_EmptySet, UnitsPositive DEF Init, Conservation
<1>3. OwnerInside
  BY PipelineAssumption DEF Init, OwnerInside, LockedAt, Mutexes
<1>4. QED
  BY <1>1, <1>2, <1>3 DEF PipelineInv

LEMMA NextType == Typed /\ [Next]_vars => Typed'
<1> SUFFICES ASSUME Typed, [Next]_vars PROVE Typed'
  OBVIOUS
<1> USE DEF Typed, Labels, Semaphores, Mutexes, Goto
<1>1. ASSUME NEW p \in Products, assembly(p) PROVE Typed'
  BY <1>1 DEF assembly, AcquireAssembly, TakeBuffer1, ReleaseAssembly, sem_wait, sem_post
<1>2. ASSUME NEW p \in Products, quality_check(p) PROVE Typed'
  BY <1>2 DEF quality_check, AcquireQuality, LockM1, LeaveBuffer1, UnlockM1,
     TakeBuffer2, ReleaseQuality, sem_wait, sem_post, mutex_lock, mutex_unlock
<1>3. ASSUME NEW p \in Products, packaging(p) PROVE Typed'
  BY <1>3 DEF packaging, AcquirePackaging, LockM2, LeaveBuffer2, UnlockM2,
     ReleasePackaging, sem_wait, sem_post, mutex_lock, mutex_unlock
<1>4. ASSUME NEW p \in Products, CreateThread(p) PROVE Typed'
  BY <1>4 DEF CreateThread
<1>5. CASE JoinAllAndDestroy
  BY <1>5 DEF JoinAllAndDestroy
<1>6. CASE UNCHANGED vars
  BY <1>6 DEF vars
<1>7. QED
  BY <1>1, <1>2, <1>3, <1>4, <1>5, <1>6 DEF Next, product, Exited

LEMMA NextConservation == Typed /\ Conservation /\ [Next]_vars => Conservation'
<1> SUFFICES ASSUME Typed, Conservation, [Next]_vars PROVE Conservation'
  OBVIOUS
<1> USE HeldAtValues DEF SameUnits, Semaphores
<1>1. ASSUME NEW p \in Products, assembly(p) PROVE Conservation'
  <2>1. CASE AcquireAssembly(p)
    BY <2>1, WaitConserves DEF AcquireAssembly
  <2>2. CASE TakeBuffer1(p)
    BY <2>2, WaitConserves DEF TakeBuffer1
  <2>3. CASE ReleaseAssembly(p)
    BY <2>3, PostConserves DEF ReleaseAssembly
  <2>4. QED
    BY <1>1, <2>1, <2>2, <2>3 DEF assembly
<1>2. ASSUME NEW p \in Products, quality_check(p) PROVE Conservation'
  <2>1. CASE AcquireQuality(p)
    BY <2>1, WaitConserves DEF AcquireQuality
  <2>2. CASE LockM1(p)
    BY <2>2, MutexStepConserves DEF LockM1, mutex_lock
  <2>3. CASE LeaveBuffer1(p)
    BY <2>3, PostConserves DEF LeaveBuffer1
  <2>4. CASE UnlockM1(p)
    BY <2>4, MutexStepConserves DEF UnlockM1, mutex_unlock
  <2>5. CASE TakeBuffer2(p)
    BY <2>5, WaitConserves DEF TakeBuffer2
  <2>6. CASE ReleaseQuality(p)
    BY <2>6, PostConserves DEF ReleaseQuality
  <2>7. QED
    BY <1>2, <2>1, <2>2, <2>3, <2>4, <2>5, <2>6 DEF quality_check
<1>3. ASSUME NEW p \in Products, packaging(p) PROVE Conservation'
  <2>1. CASE AcquirePackaging(p)
    BY <2>1, WaitConserves DEF AcquirePackaging
  <2>2. CASE LockM2(p)
    BY <2>2, MutexStepConserves DEF LockM2, mutex_lock
  <2>3. CASE LeaveBuffer2(p)
    BY <2>3, PostConserves DEF LeaveBuffer2
  <2>4. CASE UnlockM2(p)
    BY <2>4, MutexStepConserves DEF UnlockM2, mutex_unlock
  <2>5. CASE ReleasePackaging(p)
    BY <2>5, PostConserves DEF ReleasePackaging
  <2>6. QED
    BY <1>3, <2>1, <2>2, <2>3, <2>4, <2>5 DEF packaging
<1>4. ASSUME NEW p \in Products, CreateThread(p) PROVE Conservation'
  <2>1. \A t \in Semaphores : Holders(t)' = Holders(t)
    BY <1>4 DEF CreateThread, Typed, Holders
  <2>2. QED
    BY <1>4, <2>1 DEF CreateThread, Conservation
<1>5. CASE JoinAllAndDestroy
  BY <1>5 DEF JoinAllAndDestroy, Conservation, Holders
<1>6. CASE UNCHANGED vars
  BY <1>6 DEF vars, Conservation, Holders
<1>7. QED
  BY <1>1, <1>2, <1>3, <1>4, <1>5, <1>6 DEF Next, product, Exited

LEMMA NextOwner == Typed /\ OwnerInside /\ [Next]_vars => OwnerInside'
<1> SUFFICES ASSUME Typed, OwnerInside, [Next]_vars PROVE OwnerInside'
  OBVIOUS
<1> USE PipelineAssumption DEF Typed, OwnerInside, LockedAt, Mutexes, Goto
<1>1. ASSUME NEW p \in Products, assembly(p) PROVE OwnerInside'
  BY <1>1 DEF assembly, AcquireAssembly, TakeBuffer1, ReleaseAssembly, sem_wait, sem_post
<1>2. ASSUME NEW p \in Products, quality_check(p) PROVE OwnerInside'
  <2>1. CASE AcquireQuality(p)
    BY <2>1 DEF AcquireQuality, sem_wait
  <2>2. CASE LockM1(p)
    BY <2>2 DEF LockM1, mutex_lock
  <2>3. CASE LeaveBuffer1(p)
    BY <2>3 DEF LeaveBuffer1, sem_post
  <2>4. CASE UnlockM1(p)
    BY <2>4 DEF UnlockM1, mutex_unlock
  <2>5. CASE TakeBuffer2(p) \/ ReleaseQuality(p)
    BY <2>5 DEF TakeBuffer2, ReleaseQuality, sem_wait, sem_post
  <2>6. QED
    BY <1>2, <2>1, <2>2, <2>3, <2>4, <2>5 DEF quality_check
<1>3. ASSUME NEW p \in Products, packaging(p) PROVE OwnerInside'
  <2>1. CASE AcquirePackaging(p)
    BY <2>1 DEF AcquirePackaging, sem_wait
  <2>2. CASE LockM2(p)
    BY <2>2 DEF LockM2, mutex_lock
  <2>3. CASE LeaveBuffer2(p)
    BY <2>3 DEF LeaveBuffer2, sem_post
  <2>4. CASE UnlockM2(p)
    BY <2>4 DEF UnlockM2, mutex_unlock
  <2>5. CASE ReleasePackaging(p)
    BY <2>5 DEF ReleasePackaging, sem_post
  <2>6. QED
    BY <1>3, <2>1, <2>2, <2>3, <2>4, <2>5 DEF packaging
<1>4. ASSUME NEW p \in Products, CreateThread(p) PROVE OwnerInside'
  BY <1>4 DEF CreateThread
<1>5. CASE JoinAllAndDestroy
  BY <1>5 DEF JoinAllAndDestroy
<1>6. CASE UNCHANGED vars
  BY <1>6 DEF vars
<1>7. QED
  BY <1>1, <1>2, <1>3, <1>4, <1>5, <1>6 DEF Next, product, Exited

(* The inductive invariant: types, unit accounting and mutex ownership hold *)
(* in every reachable state of Q1.c's threads.                              *)
THEOREM PipelineInvariant == Spec => []PipelineInv
<1>1. PipelineInv /\ [Next]_vars => PipelineInv'
  BY NextType, NextConservation, NextOwner DEF PipelineInv
<1>2. QED
  BY InitInv, <1>1, PTL DEF Spec

(* Every semaphore counts the units that are free, never more than it was   *)
(* given, every mutex is free or owned by one product, and every thread     *)
(* stands at a statement of its routine.                                    *)
THEOREM PipelineTypeOK == Spec => []TypeOK
<1>1. PipelineInv => TypeOK
  <2> SUFFICES ASSUME PipelineInv, NEW s \in Semaphores PROVE sem[s] <= Units[s]
    BY DEF PipelineInv, Typed, TypeOK
  <2>1. sem[s] \in Nat /\ sem[s] + Cardinality(Holders(s)) = Units[s]
    BY DEF PipelineInv, Typed, Conservation
  <2>2. Cardinality(Holders(s)) \in Nat
    BY HoldersFinite
  <2> QED BY <2>1, <2>2
<1>2. QED
  BY <1>1, PipelineInvariant, PTL

(* sem_wait and sem_post never lose or invent a machine or a buffer slot.   *)
THEOREM UnitsAreConserved == Spec => []Conservation
<1>1. PipelineInv => Conservation
  BY DEF PipelineInv
<1>2. QED
  BY <1>1, PipelineInvariant, PTL

-----------------------------------------------------------------------------
(* Walking the line from its end back to its start: if nobody can run then  *)
(* every pool is full, and so nobody waits for it.                          *)
LEMMA FreeIfUnheld ==
  ASSUME Conservation, NEW s \in Semaphores, Holders(s) = {}, Typed
  PROVE  sem[s] > 0
<1>1. sem[s] + Cardinality(Holders(s)) = Units[s]
  BY DEF Conservation
<1>2. Cardinality(Holders(s)) = 0
  BY FS_EmptySet
<1>3. sem[s] \in Nat /\ Units[s] \in Nat \ {0}
  BY UnitsPositive DEF Typed
<1>4. QED
  BY <1>1, <1>2, <1>3

LEMMA InvNeverStuck == PipelineInv => NeverStuck
<1> SUFFICES ASSUME PipelineInv, \A p \in Products : ~CanRun(p)
             PROVE  \A p \in Products : pc[p] \in {"uncreated", "end"}
  BY DEF NeverStuck
<1> USE DEF PipelineInv
<1>1. \A p \in Products : pc[p] \notin {"placed1", "dequeue1", "unlock1", "placed2",
                                        "dequeue2", "unlock2", "packaging"}
  BY DEF CanRun
<1>2. owner["m1"] = NoThread /\ owner["m2"] = NoThread
  BY <1>1 DEF Typed, OwnerInside, LockedAt, Mutexes
<1>3. \A p \in Products : pc[p] \notin {"lock1", "lock2"}
  BY <1>2 DEF CanRun
<1>4. sem["packaging_machines"] > 0
  <2>1. Holders("packaging_machines") = {}
    BY <1>1, <1>3, HeldAtValues DEF Holders
  <2>2. QED
    BY <2>1, FreeIfUnheld DEF Semaphores
<1>5. \A p \in Products : pc[p] # "queued2"
  BY <1>4 DEF CanRun
<1>6. sem["buffer2"] > 0
  <2>1. Holders("buffer2") = {}
    BY <1>1, <1>3, <1>5, HeldAtValues DEF Holders
  <2>2. QED
    BY <2>1, FreeIfUnheld DEF Semaphores
<1>7. \A p \in Products : pc[p] # "checking"
  BY <1>6 DEF CanRun
<1>8. sem["quality_machines"] > 0
  <2>1. Holders("quality_machines") = {}
    BY <1>1, <1>3, <1>7, HeldAtValues DEF Holders
  <2>2. QED
    BY <2>1, FreeIfUnheld DEF Semaphores
<1>9. \A p \in Products : pc[p] # "queued1"
  BY <1>8 DEF CanRun
<1>10. sem["buffer1"] > 0
  <2>1. Holders("buffer1") = {}
    BY <1>1, <1>3, <1>9, HeldAtValues DEF Holders
  <2>2. QED
    BY <2>1, FreeIfUnheld DEF Semaphores
<1>11. \A p \in Products : pc[p] # "assembling"
  BY <1>10 DEF CanRun
<1>12. sem["assembly_machines"] > 0
  <2>1. Holders("assembly_machines") = {}
    BY <1>1, <1>11, HeldAtValues DEF Holders
  <2>2. QED
    BY <2>1, FreeIfUnheld DEF Semaphores
<1>13. \A p \in Products : pc[p] # "start"
  BY <1>12 DEF CanRun
<1>14. QED
  BY <1>1, <1>3, <1>5, <1>7, <1>9, <1>11, <1>13 DEF Typed, Labels

(* The pipeline cannot deadlock, for any number of products and any pools:  *)
(* while a created product is not through, some thread can take a step.     *)
THEOREM PipelineNeverStuck == Spec => []NeverStuck
  BY PipelineInvariant, InvNeverStuck, PTL

-----------------------------------------------------------------------------
(* The staged line: what stands on place k are the holders of its units, so *)
(* a positive semaphore is a place with room.                               *)
LEMMA PlaceAtValues ==
  /\ PlaceAt["uncreated"] = 0 /\ PlaceAt["start"] = 0
  /\ PlaceAt["assembling"] = 1
  /\ PlaceAt["placed1"] = 2 /\ PlaceAt["queued1"] = 2
  /\ PlaceAt["lock1"] = 3 /\ PlaceAt["dequeue1"] = 3
  /\ PlaceAt["unlock1"] = 3 /\ PlaceAt["checking"] = 3
  /\ PlaceAt["placed2"] = 4 /\ PlaceAt["queued2"] = 4
  /\ PlaceAt["lock2"] = 5 /\ PlaceAt["dequeue2"] = 5
  /\ PlaceAt["unlock2"] = 5 /\ PlaceAt["packaging"] = 5
  /\ PlaceAt["end"] = 6
  BY DEF PlaceAt, Labels

LEMMA LineCardinality == \A S : Line!Cardinality(S) = Cardinality(S)
  BY DEF Cardinality, Line!Cardinality

LEMMA StandingIsHolding ==
  ASSUME NEW k \in 1 .. 5, NEW here \in Labels
  PROVE  (PlaceAt[here] = k \/ (here \in StraddlingLabels /\ PlaceAt[here] = k + 1))
         <=> here \in HeldAt[Route[k]]
<1>1. ASSUME NEW l \in Labels
      PROVE  (PlaceAt[l] = 1 \/ (l \in StraddlingLabels /\ PlaceAt[l] = 2))
             <=> l \in HeldAt["assembly_machines"]
  BY PlaceAtValues, HeldAtValues DEF Labels, StraddlingLabels
<1>2. ASSUME NEW l \in Labels
      PROVE  (PlaceAt[l] = 2 \/ (l \in StraddlingLabels /\ PlaceAt[l] = 3))
             <=> l \in HeldAt["buffer1"]
  BY PlaceAtValues, HeldAtValues DEF Labels, StraddlingLabels
<1>3. ASSUME NEW l \in Labels
      PROVE  (PlaceAt[l] = 3 \/ (l \in StraddlingLabels /\ PlaceAt[l] = 4))
             <=> l \in HeldAt["quality_machines"]
  BY PlaceAtValues, HeldAtValues DEF Labels, StraddlingLabels
<1>4. ASSUME NEW l \in Labels
      PROVE  (PlaceAt[l] = 4 \/ (l \in StraddlingLabels /\ PlaceAt[l] = 5))
             <=> l \in HeldAt["buffer2"]
  BY PlaceAtValues, HeldAtValues DEF Labels, StraddlingLabels
<1>5. ASSUME NEW l \in Labels
      PROVE  (PlaceAt[l] = 5 \/ (l \in StraddlingLabels /\ PlaceAt[l] = 6))
             <=> l \in HeldAt["packaging_machines"]
  BY PlaceAtValues, HeldAtValues DEF Labels, StraddlingLabels
<1>6. QED
  BY <1>1, <1>2, <1>3, <1>4, <1>5 DEF Route

LEMMA OccupantsAreHolders ==
  ASSUME Typed, NEW k \in 1 .. 5
  PROVE  Line!Occupants(k) = Holders(Route[k])
<1>1. ASSUME NEW p \in Products
      PROVE  (atBar[p] = k \/ (straddlesBar[p] /\ atBar[p] = k + 1))
             <=> pc[p] \in HeldAt[Route[k]]
  BY StandingIsHolding DEF Typed, atBar, straddlesBar
<1>2. QED
  BY <1>1 DEF Line!Occupants, Holders

LEMMA RoomIfPositive ==
  ASSUME Typed, Conservation, NEW k \in 1 .. 5, sem[Route[k]] > 0
  PROVE  Cardinality(Line!Occupants(k)) < Units[Route[k]]
<1>1. Route[k] \in Semaphores
  BY DEF Route, Semaphores
<1>2. sem[Route[k]] + Cardinality(Holders(Route[k])) = Units[Route[k]]
  BY <1>1 DEF Conservation
<1>3. sem[Route[k]] \in Nat /\ Units[Route[k]] \in Nat
  BY <1>1, UnitsPositive DEF Typed
<1>4. QED
  BY <1>2, <1>3, HoldersFinite, OccupantsAreHolders

(* What a step from one label to the next does to the mapped variables.     *)
LEMMA BarStep ==
  ASSUME Typed, NEW p \in Products, NEW from, NEW to, Goto(p, from, to)
  PROVE  /\ atBar[p] = PlaceAt[from]
         /\ atBar' = [atBar EXCEPT ![p] = PlaceAt[to]]
         /\ PlaceAt[from] = PlaceAt[to] => atBar' = atBar
         /\ straddlesBar[p] <=> from \in StraddlingLabels
         /\ to \in StraddlingLabels => straddlesBar' = [straddlesBar EXCEPT ![p] = TRUE]
         /\ to \notin StraddlingLabels => straddlesBar' = [straddlesBar EXCEPT ![p] = FALSE]
         /\ (from \in StraddlingLabels <=> to \in StraddlingLabels)
            => straddlesBar' = straddlesBar
<1>1. pc[p] = from /\ pc' = [pc EXCEPT ![p] = to]
  BY DEF Goto
<1>2. /\ atBar[p] = PlaceAt[from]
      /\ atBar' = [atBar EXCEPT ![p] = PlaceAt[to]]
      /\ PlaceAt[from] = PlaceAt[to] => atBar' = atBar
  BY <1>1 DEF Typed, atBar
<1>3. straddlesBar[p] <=> from \in StraddlingLabels
  BY <1>1 DEF straddlesBar
<1>4. ASSUME to \in StraddlingLabels
      PROVE  straddlesBar' = [straddlesBar EXCEPT ![p] = TRUE]
  BY <1>1, <1>4 DEF Typed, straddlesBar
<1>5. ASSUME to \notin StraddlingLabels
      PROVE  straddlesBar' = [straddlesBar EXCEPT ![p] = FALSE]
  <2>1. (pc'[p] \in StraddlingLabels) = FALSE
    BY <1>1, <1>5 DEF Typed
  <2>2. \A q \in Products \ {p} : pc'[q] = pc[q]
    BY <1>1 DEF Typed
  <2>3. QED
    BY <2>1, <2>2 DEF straddlesBar
<1>6. ASSUME from \in StraddlingLabels <=> to \in StraddlingLabels
      PROVE  straddlesBar' = straddlesBar
  <2>1. \A q \in Products : (pc'[q] \in StraddlingLabels) = (pc[q] \in StraddlingLabels)
    BY <1>1, <1>6 DEF Typed
  <2>2. QED
    BY <2>1 DEF straddlesBar
<1>7. QED
  BY <1>2, <1>3, <1>4, <1>5, <1>6

(* A product that takes a unit of place k enters it; one that posts the     *)
(* unit of the place behind it gives that place up.                         *)
LEMMA WaitEnters ==
  ASSUME Typed, Conservation, NEW p \in Products, NEW k \in 1 .. 5,
         NEW from, NEW to, sem_wait(p, Route[k], from, to),
         PlaceAt[from] = k - 1, from \notin StraddlingLabels,
         PlaceAt[to] = k, to \in StraddlingLabels <=> k > 1
  PROVE  Line!Enter(p)
<1>1. Cardinality(Line!Occupants(k)) < Units[Route[k]]
  BY RoomIfPositive DEF sem_wait
<1>2. atBar[p] = k - 1 /\ ~straddlesBar[p]
  BY BarStep DEF sem_wait
<1>3. atBar' = [atBar EXCEPT ![p] = atBar[p] + 1]
  BY <1>2, BarStep DEF sem_wait
<1>4. straddlesBar' = [straddlesBar EXCEPT ![p] = atBar[p] > 0]
  <2>1. CASE k > 1
    <3>1. (atBar[p] > 0) = TRUE
      BY <1>2, <2>1
    <3>2. QED
      BY <2>1, <3>1, BarStep DEF sem_wait
  <2>2. CASE ~(k > 1)
    <3>1. (atBar[p] > 0) = FALSE
      BY <1>2, <2>2
    <3>2. QED
      BY <2>2, <3>1, BarStep DEF sem_wait
  <2>3. QED
    BY <2>1, <2>2
<1>5. Cardinality(Line!Occupants(atBar[p] + 1)) < [i \in 1 .. 5 |-> Units[Route[i]]][atBar[p] + 1]
  BY <1>1, <1>2
<1>6. QED
  BY <1>2, <1>3, <1>4, <1>5, LineCardinality DEF Line!Enter

LEMMA PostGivesUp ==
  ASSUME Typed, NEW p \in Products, NEW from, NEW to, Goto(p, from, to),
         from \in StraddlingLabels, to \notin StraddlingLabels,
         PlaceAt[from] = PlaceAt[to]
  PROVE  Line!GiveUpPrevious(p)
<1>1. straddlesBar[p] /\ straddlesBar' = [straddlesBar EXCEPT ![p] = FALSE]
  BY BarStep
<1>2. atBar' = atBar
  BY BarStep
<1>3. QED
  BY <1>1, <1>2 DEF Line!GiveUpPrevious

LEMMA InPlaceStutters ==
  ASSUME Typed, NEW p \in Products, NEW from, NEW to, Goto(p, from, to),
         from \in StraddlingLabels <=> to \in StraddlingLabels,
         PlaceAt[from] = PlaceAt[to]
  PROVE  UNCHANGED Line!lineVars
  BY BarStep DEF Line!lineVars

LEMMA LastPostShips ==
  ASSUME Typed, NEW p \in Products, ReleasePackaging(p)
  PROVE  Line!Ship(p)
<1> USE PlaceAtValues DEF ReleasePackaging, sem_post, StraddlingLabels
<1>1. Goto(p, "packaging", "end")
  OBVIOUS
<1>2. atBar[p] = 5 /\ atBar' = [atBar EXCEPT ![p] = 6]
  BY <1>1, BarStep
<1>3. ~straddlesBar[p] /\ straddlesBar' = straddlesBar
  BY <1>1, BarStep
<1>4. QED
  BY <1>2, <1>3 DEF Line!Ship

LEMMA InitRefines == Init => Line!LineInit
<1> SUFFICES ASSUME Init PROVE Line!LineInit
  OBVIOUS
<1>1. atBar = [p \in Products |-> 0]
  BY PlaceAtValues DEF Init, atBar
<1>2. \A p \in Products : (pc[p] \in StraddlingLabels) = FALSE
  BY DEF Init, StraddlingLabels
<1>3. straddlesBar = [p \in Products |-> FALSE]
  BY <1>2 DEF straddlesBar
<1>4. QED
  BY <1>1, <1>3 DEF Line!LineInit

LEMMA StepRefines ==
  ASSUME PipelineInv, [Next]_vars
  PROVE  [Line!LineNext]_(Line!lineVars)
<1> USE PlaceAtValues DEF PipelineInv, StraddlingLabels
<1>1. ASSUME NEW p \in Products, assembly(p)
      PROVE  Line!Enter(p) \/ Line!GiveUpPrevious(p)
  <2>1. CASE AcquireAssembly(p)
    <3>1. sem_wait(p, Route[1], "start", "assembling")
      BY <2>1 DEF AcquireAssembly, Route
    <3>2. QED
      BY <3>1, WaitEnters
  <2>2. CASE TakeBuffer1(p)
    <3>1. sem_wait(p, Route[2], "assembling", "placed1")
      BY <2>2 DEF TakeBuffer1, Route
    <3>2. QED
      BY <3>1, WaitEnters
  <2>3. CASE ReleaseAssembly(p)
    BY <2>3, PostGivesUp DEF ReleaseAssembly, sem_post
  <2>4. QED
    BY <1>1, <2>1, <2>2, <2>3 DEF assembly
<1>2. ASSUME NEW p \in Products, quality_check(p)
      PROVE  Line!Enter(p) \/ Line!GiveUpPrevious(p) \/ UNCHANGED Line!lineVars
  <2>1. CASE AcquireQuality(p)
    <3>1. sem_wait(p, Route[3], "queued1", "lock1")
      BY <2>1 DEF AcquireQuality, Route
    <3>2. QED
      BY <3>1, WaitEnters
  <2>2. CASE LockM1(p)
    BY <2>2, InPlaceStutters DEF LockM1, mutex_lock
  <2>3. CASE LeaveBuffer1(p)
    BY <2>3, PostGivesUp DEF LeaveBuffer1, sem_post
  <2>4. CASE UnlockM1(p)
    BY <2>4, InPlaceStutters DEF UnlockM1, mutex_unlock
  <2>5. CASE TakeBuffer2(p)
    <3>1. sem_wait(p, Route[4], "checking", "placed2")
      BY <2>5 DEF TakeBuffer2, Route
    <3>2. QED
      BY <3>1, WaitEnters
  <2>6. CASE ReleaseQuality(p)
    BY <2>6, PostGivesUp DEF ReleaseQuality, sem_post
  <2>7. QED
    BY <1>2, <2>1, <2>2, <2>3, <2>4, <2>5, <2>6 DEF quality_check
<1>3. ASSUME NEW p \in Products, packaging(p)
      PROVE  \/ Line!Enter(p) \/ Line!GiveUpPrevious(p) \/ Line!Ship(p)
             \/ UNCHANGED Line!lineVars
  <2>1. CASE AcquirePackaging(p)
    <3>1. sem_wait(p, Route[5], "queued2", "lock2")
      BY <2>1 DEF AcquirePackaging, Route
    <3>2. QED
      BY <3>1, WaitEnters
  <2>2. CASE LockM2(p)
    BY <2>2, InPlaceStutters DEF LockM2, mutex_lock
  <2>3. CASE LeaveBuffer2(p)
    BY <2>3, PostGivesUp DEF LeaveBuffer2, sem_post
  <2>4. CASE UnlockM2(p)
    BY <2>4, InPlaceStutters DEF UnlockM2, mutex_unlock
  <2>5. CASE ReleasePackaging(p)
    BY <2>5, LastPostShips
  <2>6. QED
    BY <1>3, <2>1, <2>2, <2>3, <2>4, <2>5 DEF packaging
<1>4. ASSUME NEW p \in Products, CreateThread(p) PROVE UNCHANGED Line!lineVars
  BY <1>4 DEF CreateThread, Typed, Line!lineVars, atBar, straddlesBar
<1>5. CASE JoinAllAndDestroy
  BY <1>5 DEF JoinAllAndDestroy, Line!lineVars, atBar, straddlesBar
<1>6. CASE UNCHANGED vars
  BY <1>6 DEF vars, Line!lineVars, atBar, straddlesBar
<1>7. QED
  BY <1>1, <1>2, <1>3, <1>4, <1>5, <1>6
     DEF Next, product, Exited, Line!LineNext

(* The threads of Q1.c implement the staged line: no place ever holds more  *)
(* than its machines or slots, and a product is never between two places.   *)
THEOREM PipelineImplementsLine == Spec => ImplementsLine
<1>1. PipelineInv /\ [Next]_vars => [Line!LineNext]_(Line!lineVars)
  BY StepRefines
<1>2. QED
  BY InitRefines, <1>1, PipelineInvariant, PTL DEF Spec, ImplementsLine, Line!LineSafety

=============================================================================
