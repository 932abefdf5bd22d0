------------------------------- MODULE Agents -------------------------------
(***************************************************************************)
(* hw4/Q4/Q4.c: one thread per agent walks its path over a shared grid, a  *)
(* renderer thread draws the grid whenever it changed, main() joins the    *)
(* agents and frees the grid.  maplock guards the grid.  The input (grid,  *)
(* starting cells, paths) is any input with agents on distinct free cells. *)
(***************************************************************************)
EXTENDS Integers, Sequences, FiniteSets

CONSTANTS
  Agents,        \* the agents; NUM_AGENTS of them
  MAP_SIZE,
  Moves,         \* the letters paths are made of: "U", "D", "L", "R" or another
  MaxPath,       \* bound: the longest path of an input
  MaxObstacles,  \* bound: the most blocked cells of an input
  Renderer,      \* the renderer thread
  None           \* owner of the free mutex, content of uninitialised memory

ASSUME AgentsAssumption ==
  /\ IsFiniteSet(Agents) /\ Renderer \notin Agents /\ None \notin Agents \union {Renderer}
  /\ MAP_SIZE \in Nat \ {0} /\ MaxPath \in Nat /\ MaxObstacles \in Nat

VARIABLES
  map,       \* the grid: "." free, "O" an agent, "X" blocked
  maplock,   \* owner of the mutex
  pos,       \* current_x, current_y of each agent
  i,         \* i[a]: index of a's next move
  pc, rpc,   \* where each agent and the renderer stand
  prev_map,  \* what the renderer drew last
  main,      \* where main() stands
  path,      \* input: the moves of each agent, without the closing 'S'
  obstacles, \* history: the cells blocked in the input
  ghosts     \* history: agents that found their starting cell taken

walk  == <<pos, i>>
input == <<path, obstacles>>
vars  == <<map, maplock, walk, pc, rpc, prev_map, main, input, ghosts>>

Cells == (0 .. MAP_SIZE - 1) \X (0 .. MAP_SIZE - 1)
Grids == [Cells -> {".", "O", "X"}]
Paths == UNION {[1 .. n -> Moves] : n \in 0 .. MaxPath}

Labels ==
  {"uncreated", "start", "place", "placed", "tolock", "try", "mark", "unlock", "returned"}

TypeOK ==
  /\ map \in Grids
  /\ maplock \in Agents \union {Renderer, None}
  /\ pos \in [Agents -> Cells]
  /\ path \in [Agents -> Paths] /\ obstacles \subseteq Cells
  /\ i \in [Agents -> Nat] /\ \A a \in Agents : i[a] \in 1 .. Len(path[a]) + 1
  /\ pc \in [Agents -> Labels]
  /\ rpc \in {"uncreated", "tolock", "render", "unlock"}
  /\ prev_map \in Grids \union {None}
  /\ main \in {"create", "join", "destroyed", "freed", "exited"}
  /\ ghosts \subseteq Agents

Init ==
  /\ obstacles \in {S \in SUBSET Cells : Cardinality(S) <= MaxObstacles}
  /\ map = [c \in Cells |-> IF c \in obstacles THEN "X" ELSE "."]
  /\ pos \in {f \in [Agents -> Cells \ obstacles] :
                \A a, b \in Agents : a # b => f[a] # f[b]}
  /\ path \in [Agents -> Paths]
  /\ i = [a \in Agents |-> 1]
  /\ maplock = None
  /\ pc = [a \in Agents |-> "uncreated"] /\ rpc = "uncreated"
  /\ prev_map \in {None, map}   \* malloc leaves it uninitialised
  /\ main = "create"
  /\ ghosts = {}

-----------------------------------------------------------------------------
Lock(t) == maplock = None /\ maplock' = t
Unlock  == maplock' = None

AgentGoes(a, from, to) ==
  /\ main # "exited"
  /\ pc[a] = from
  /\ pc' = [pc EXCEPT ![a] = to]
  /\ UNCHANGED <<rpc, prev_map, main, input>>

RendererGoes(from, to) ==
  /\ main # "exited"
  /\ rpc = from /\ rpc' = to
  /\ UNCHANGED <<map, walk, pc, main, input, ghosts>>

(* new_x, new_y of a move, which may lie outside the grid.                  *)
Target(c, m) ==
  CASE m = "U" -> <<c[1] - 1, c[2]>>
    [] m = "D" -> <<c[1] + 1, c[2]>>
    [] m = "L" -> <<c[1], c[2] - 1>>
    [] m = "R" -> <<c[1], c[2] + 1>>
    [] OTHER   -> c

NewCell(a) == Target(pos[a], path[a][i[a]])

(* Mutant: no test for '.'.                                                 *)
CanEnter_Anything(c)  == c \in Cells

(* The bounds test and the test for '.'.                                     *)
CanEnter(c) == c \in Cells /\ map[c] = "."

-----------------------------------------------------------------------------
(* agent() *)
LockToPlace(a) ==
  /\ AgentGoes(a, "start", "place")
  /\ Lock(a)
  /\ UNCHANGED <<map, walk, ghosts>>

PlaceAgent(a) ==
  /\ AgentGoes(a, "place", "placed")
  /\ IF map[pos[a]] = "."
     THEN map' = [map EXCEPT ![pos[a]] = "O"] /\ UNCHANGED ghosts
     ELSE ghosts' = ghosts \union {a} /\ UNCHANGED map
  /\ UNCHANGED <<maplock, walk>>

UnlockPlaced(a) ==
  /\ AgentGoes(a, "placed", "tolock")
  /\ Unlock
  /\ UNCHANGED <<map, walk, ghosts>>

(* Mutant: moves without the lock.                                          *)
LockToMove_Not(a) ==
  /\ i[a] <= Len(path[a])
  /\ AgentGoes(a, "tolock", "try")
  /\ UNCHANGED <<map, maplock, walk, ghosts>>

LockToMove(a) ==
  /\ i[a] <= Len(path[a])
  /\ AgentGoes(a, "tolock", "try")
  /\ Lock(a)
  /\ UNCHANGED <<map, walk, ghosts>>

StayPut(a) ==
  /\ AgentGoes(a, "try", "unlock")
  /\ ~CanEnter(NewCell(a))
  /\ UNCHANGED <<map, maplock, walk, ghosts>>

(* Mutant: leaves its mark behind.                                          *)
ClearOldCell_Not(a) ==
  /\ AgentGoes(a, "try", "mark")
  /\ CanEnter(NewCell(a))
  /\ UNCHANGED <<map, maplock, walk, ghosts>>

ClearOldCell(a) ==
  /\ AgentGoes(a, "try", "mark")
  /\ CanEnter(NewCell(a))
  /\ map' = [map EXCEPT ![pos[a]] = "."]
  /\ UNCHANGED <<maplock, walk, ghosts>>

MarkNewCell(a) ==
  /\ AgentGoes(a, "mark", "unlock")
  /\ map' = [map EXCEPT ![NewCell(a)] = "O"]
  /\ pos' = [pos EXCEPT ![a] = NewCell(a)]
  /\ UNCHANGED <<maplock, i, ghosts>>

(* Mutant: tries the same move until it succeeds, and then again.           *)
UnlockMoved_SameMove(a) ==
  /\ AgentGoes(a, "unlock", "tolock")
  /\ Unlock
  /\ UNCHANGED <<map, walk, ghosts>>

(* Mutant: counts the move twice.                                           *)
UnlockMoved_Skips(a) ==
  /\ AgentGoes(a, "unlock", "tolock")
  /\ Unlock
  /\ i' = [i EXCEPT ![a] = @ + 2]
  /\ UNCHANGED <<map, pos, ghosts>>

UnlockMoved(a) ==
  /\ AgentGoes(a, "unlock", "tolock")
  /\ Unlock
  /\ i' = [i EXCEPT ![a] = @ + 1]
  /\ UNCHANGED <<map, pos, ghosts>>

Return(a) ==
  /\ i[a] > Len(path[a])
  /\ AgentGoes(a, "tolock", "returned")
  /\ UNCHANGED <<map, maplock, walk, ghosts>>

Acquire(a) == LockToPlace(a) \/ LockToMove(a)
Proceed(a) ==
  \/ PlaceAgent(a) \/ UnlockPlaced(a) \/ StayPut(a) \/ ClearOldCell(a)
  \/ MarkNewCell(a) \/ UnlockMoved(a) \/ Return(a)

agent(a) == Acquire(a) \/ Proceed(a)

-----------------------------------------------------------------------------
(* renderer(): a destroyed mutex no longer keeps it out.                    *)
(* Mutant: draws without the lock.                                          *)
RendererLock_Not ==
  /\ RendererGoes("tolock", "render")
  /\ UNCHANGED <<maplock, prev_map>>

RendererLock ==
  /\ RendererGoes("tolock", "render")
  /\ IF main \in {"destroyed", "freed"} THEN UNCHANGED maplock ELSE Lock(Renderer)
  /\ UNCHANGED prev_map

(* areEqual, the drawing and the copy to prev_map: one pass over the grid,  *)
(* or over whatever is there once main() has freed it.                      *)
Render ==
  /\ RendererGoes("render", "unlock")
  /\ prev_map' \in (IF main = "freed" THEN {map, None} ELSE {map})
  /\ UNCHANGED maplock

RendererUnlock ==
  /\ RendererGoes("unlock", "tolock")
  /\ Unlock
  /\ UNCHANGED prev_map

renderer == RendererLock \/ Render \/ RendererUnlock

-----------------------------------------------------------------------------
(* main() *)
MainGoes(from, to) == main = from /\ main' = to

CreateRenderer ==
  /\ main = "create" /\ rpc = "uncreated" /\ rpc' = "tolock"
  /\ UNCHANGED <<map, maplock, walk, pc, prev_map, main, input, ghosts>>

CreateAgent(a) ==
  /\ main = "create" /\ rpc # "uncreated"
  /\ pc[a] = "uncreated" /\ pc' = [pc EXCEPT ![a] = "start"]
  /\ main' = IF \E b \in Agents \ {a} : pc[b] = "uncreated" THEN "create" ELSE "join"
  /\ UNCHANGED <<map, maplock, walk, rpc, prev_map, input, ghosts>>

JoinAgents ==
  /\ MainGoes("join", "destroyed")
  /\ \A a \in Agents : pc[a] = "returned"
  /\ UNCHANGED <<map, maplock, walk, pc, rpc, prev_map, input, ghosts>>

FreeMap ==
  /\ MainGoes("destroyed", "freed")
  /\ UNCHANGED <<map, maplock, walk, pc, rpc, prev_map, input, ghosts>>

Exit ==
  /\ MainGoes("freed", "exited")
  /\ UNCHANGED <<map, maplock, walk, pc, rpc, prev_map, input, ghosts>>

Exited == main = "exited" /\ UNCHANGED vars

mainSteps == CreateRenderer \/ (\E a \in Agents : CreateAgent(a)) \/ JoinAgents \/ FreeMap \/ Exit

Next == mainSteps \/ renderer \/ (\E a \in Agents : agent(a)) \/ Exited

Spec == Init /\ [][Next]_vars

(* Threads run; every thread leaves the mutex free for a second after each  *)
(* use (sleep(1) at 52 and 85), so that a thread waiting for it gets it.    *)
Fairness ==
  /\ WF_vars(mainSteps) /\ WF_vars(renderer)
  /\ \A a \in Agents : WF_vars(Proceed(a)) /\ SF_vars(Acquire(a))

FairSpec == Spec /\ Fairness

-----------------------------------------------------------------------------
(***************************************************************************)
(* Safety.                                                                 *)
(***************************************************************************)

Settled == maplock = None
Placed  == {a \in Agents : pc[a] \notin {"uncreated", "start", "place"}}
Marked  == {c \in Cells : map[c] = "O"}

(* No walk ever erases or overwrites a blocked cell of the input.           *)
ObstaclesStay == \A c \in Cells : map[c] = "X" <=> c \in obstacles

(* Between critical sections every mark on the grid has an agent under it:  *)
(* moving never leaves a mark behind.                                       *)
NoMarkWithoutAgent == Settled => Marked \subseteq {pos[a] : a \in Placed}

(* As long as every agent so far found its own starting cell free, agents   *)
(* exclude each other: no two stand on one cell, and each is marked.        *)
NoCollision ==
  ghosts = {} => /\ \A a, b \in Placed : a # b => pos[a] # pos[b]
                 /\ Settled => Marked = {pos[a] : a \in Placed}

(* A frame is never drawn from the middle of a move: every agent that is on *)
(* the grid is in it, once.                                                 *)
FrameShowsAgents ==
  [][Render /\ ghosts = {} /\ main # "freed"
       => {c \in Cells : prev_map'[c] = "O"} = {pos[a] : a \in Placed}]_vars

(* Every agent gets to the end of its path, and the program ends.           *)
AgentsReturn == <>(main = "exited")

(***************************************************************************)
(* What the report says.                                                   *)
(***************************************************************************)

(* Q4.md:34, "two agents cannot simultaneously write to or check the same   *)
(* part of the map, preventing data corruption and collisions": no two      *)
(* placed agents ever stand on one cell.                                    *)
DocNoCollisions == \A a, b \in Placed : a # b => pos[a] # pos[b]

(* Q4.md:46, "the renderer always reads a consistent state of the map": it  *)
(* never reads a map that main() has freed.                                 *)
DocReadsLiveMap == [][Render => main # "freed"]_vars

=============================================================================
