------------------------------- MODULE Crossing -------------------------------
(***************************************************************************)
(* hw4/Q3/Q3.c: one thread per direction sends its cars over the           *)
(* intersection one after the other.  A car owns the mutex of the          *)
(* direction it comes from, announces its movement under print_mutex, and  *)
(* is on the intersection until it gives the first mutex back.             *)
(***************************************************************************)
EXTENDS Naturals, Sequences, FiniteSets

CONSTANTS
  Sources,                \* the directions cars come from
  CAR_COUNT_PER_SPAWNER,
  NoThread                \* owner of a free mutex

CrossingAssumption ==
  /\ Sources # {} /\ IsFiniteSet(Sources)
  /\ CAR_COUNT_PER_SPAWNER \in Nat \ {0}
  /\ NoThread \notin Sources

VARIABLES
  dir_mutex,    \* dir_mutex[d]: owner of the mutex of direction d
  print_mutex,  \* its owner
  pc,           \* where the spawner of each direction stands
  car,          \* car[d]: the id of its current car
  move,         \* move[d]: the movement drawn for that car
  main,         \* where main() stands
  log           \* history: the announcements, in the order they were printed

locks == <<dir_mutex, print_mutex>>
crossingVars == <<locks, pc, car, move, main, log>>

Movement == {"right", "straight", "left"}
Announcement == [id : 0 .. CAR_COUNT_PER_SPAWNER - 1, from : Sources, move : Movement]
Labels == {"uncreated", "draw", "lock", "lockprint", "print", "unlockprint", "cross", "end"}

TypeOK ==
  /\ dir_mutex \in [Sources -> Sources \union {NoThread}]
  /\ print_mutex \in Sources \union {NoThread}
  /\ pc \in [Sources -> Labels]
  /\ car \in [Sources -> 0 .. CAR_COUNT_PER_SPAWNER]
  /\ move \in [Sources -> Movement]
  /\ main \in {"create", "join", "destroyed"}
  /\ log \in Seq(Announcement)

Init ==
  /\ dir_mutex = [d \in Sources |-> NoThread] /\ print_mutex = NoThread
  /\ pc = [d \in Sources |-> "uncreated"]
  /\ car = [d \in Sources |-> 0]
  /\ move = [d \in Sources |-> "right"]
  /\ main = "create"
  /\ log = <<>>

-----------------------------------------------------------------------------
Goto(d, from, to) ==
  /\ pc[d] = from
  /\ pc' = [pc EXCEPT ![d] = to]
  /\ UNCHANGED main

(* Mutant: one car too many.                                                *)
DrawMovement_OneMore(d) ==
  /\ car[d] <= CAR_COUNT_PER_SPAWNER
  /\ Goto(d, "draw", "lock")
  /\ \E m \in Movement : move' = [move EXCEPT ![d] = m]
  /\ UNCHANGED <<locks, car, log>>

(* car_spawner: the next car's movement is rand() % 3. *)
DrawMovement(d) ==
  /\ car[d] < CAR_COUNT_PER_SPAWNER
  /\ Goto(d, "draw", "lock")
  /\ \E m \in Movement : move' = [move EXCEPT ![d] = m]
  /\ UNCHANGED <<locks, car, log>>

SpawnerReturns(d) ==
  /\ car[d] = CAR_COUNT_PER_SPAWNER
  /\ Goto(d, "draw", "end")
  /\ UNCHANGED <<locks, car, move, log>>

(* turn_right, go_straight and turn_left differ in the movement only. *)
LockDirection(d) ==
  /\ Goto(d, "lock", "lockprint")
  /\ dir_mutex[d] = NoThread
  /\ dir_mutex' = [dir_mutex EXCEPT ![d] = d]
  /\ UNCHANGED <<print_mutex, car, move, log>>

(* safe_print *)
LockPrint(d) ==
  /\ Goto(d, "lockprint", "print")
  /\ print_mutex = NoThread
  /\ print_mutex' = d
  /\ UNCHANGED <<dir_mutex, car, move, log>>

PrintMessage(d) ==
  /\ Goto(d, "print", "unlockprint")
  /\ log' = Append(log, [id |-> car[d], from |-> d, move |-> move[d]])
  /\ UNCHANGED <<locks, car, move>>

(* Mutant: the print mutex is not given back.                               *)
UnlockPrint_Not(d) == Goto(d, "unlockprint", "cross") /\ UNCHANGED <<locks, car, move, log>>

UnlockPrint(d) ==
  /\ Goto(d, "unlockprint", "cross")
  /\ print_mutex' = NoThread
  /\ UNCHANGED <<dir_mutex, car, move, log>>

(* Mutant: the next car gets the same id.                                   *)
LeaveIntersection_SameCar(d) ==
  /\ Goto(d, "cross", "draw")
  /\ dir_mutex' = [dir_mutex EXCEPT ![d] = NoThread]
  /\ UNCHANGED <<print_mutex, car, move, log>>

(* The car is over when its sleep ends. *)
LeaveIntersection(d) ==
  /\ Goto(d, "cross", "draw")
  /\ dir_mutex' = [dir_mutex EXCEPT ![d] = NoThread]
  /\ car' = [car EXCEPT ![d] = @ + 1]
  /\ UNCHANGED <<print_mutex, move, log>>

safe_print(d) == LockPrint(d) \/ PrintMessage(d) \/ UnlockPrint(d)
car_spawner(d) ==
  \/ DrawMovement(d) \/ LockDirection(d) \/ safe_print(d)
  \/ LeaveIntersection(d) \/ SpawnerReturns(d)

(* main() *)
CreateSpawner(d) ==
  /\ main = "create" /\ pc[d] = "uncreated"
  /\ pc' = [pc EXCEPT ![d] = "draw"]
  /\ main' = IF \E e \in Sources \ {d} : pc[e] = "uncreated" THEN "create" ELSE "join"
  /\ UNCHANGED <<locks, car, move, log>>

JoinAndDestroy ==
  /\ main = "join" /\ main' = "destroyed"
  /\ \A d \in Sources : pc[d] = "end"
  /\ UNCHANGED <<locks, pc, car, move, log>>

Next ==
  \/ \E d \in Sources : CreateSpawner(d) \/ car_spawner(d)
  \/ JoinAndDestroy

Spec == Init /\ [][Next]_crossingVars

-----------------------------------------------------------------------------
(***************************************************************************)
(* Properties.                                                             *)
(***************************************************************************)

AtRest == main = "destroyed" /\ \A d \in Sources : pc[d] = "end"

(* Where the announcements of direction d stand in the log. *)
LinesOf(d) == {k \in DOMAIN log : log[k].from = d}

Announced == {"unlockprint", "cross"}

(* However the announcements of the directions mix, those of one direction  *)
(* are its cars 0, 1, ... in order, each once; the last of them is the car  *)
(* that is on the intersection, announced with the movement it makes.       *)
LogFollowsCars ==
  \A d \in Sources :
    /\ Cardinality(LinesOf(d)) = car[d] + (IF pc[d] \in Announced THEN 1 ELSE 0)
    /\ \A k \in LinesOf(d) :
         /\ log[k].id = Cardinality({j \in LinesOf(d) : j < k})
         /\ pc[d] \in Announced /\ log[k].id = car[d] => log[k].move = move[d]

=============================================================================
