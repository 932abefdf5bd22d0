----------------------------- MODULE AgentsProofs -----------------------------
(***************************************************************************)
(* For any grid, any number of agents and any paths: agents that found     *)
(* their starting cells free exclude each other, no mark is left behind,   *)
(* blocked cells stay, and no frame is drawn from the middle of a move.    *)
(***************************************************************************)
EXTENDS Agents, TLAPS

(* The labels between lock and unlock of an agent ...                       *)
InsideAt == {"place", "placed", "try", "mark", "unlock"}

(* ... are where it owns maplock.  The renderer owns it where it draws,     *)
(* until main() has destroyed the mutex: by then every agent has returned.  *)
LockInv ==
  /\ \A a \in Agents : maplock = a <=> pc[a] \in InsideAt
  /\ main \in {"create", "join"} /\ rpc \in {"render", "unlock"} => maplock = Renderer
  /\ main \notin {"create", "join"} => \A a \in Agents : pc[a] = "returned"

(* No agent stands on a blocked cell.  An agent in a move has a move to     *)
(* make; halfway, its old cell is cleared and the new one is still free.    *)
MoveInv ==
  \A a \in Agents :
    /\ pos[a] \notin obstacles
    /\ pc[a] \in {"try", "mark", "unlock"} => i[a] <= Len(path[a])
    /\ pc[a] = "mark" => /\ NewCell(a) \in Cells /\ map[NewCell(a)] = "."
                         /\ map[pos[a]] = "."

(* Every mark has a placed agent under it, and as long as there is no ghost *)
(* every placed agent has its own marked cell, except halfway in a move.    *)
MarkInv ==
  /\ \A c \in Cells : map[c] = "O" => \E a \in Placed : pos[a] = c
  /\ ghosts = {} =>
       /\ \A a \in Placed : pc[a] # "mark" => map[pos[a]] = "O"
       /\ \A a, b \in Placed : a # b => pos[a] # pos[b]

GridInv == TypeOK /\ LockInv /\ MoveInv /\ MarkInv /\ ObstaclesStay

-----------------------------------------------------------------------------
LEMMA PathLength == TypeOK => \A a \in Agents : Len(path[a]) \in Nat
<1> SUFFICES ASSUME TypeOK, NEW a \in Agents PROVE Len(path[a]) \in Nat
  OBVIOUS
<1>0. path[a] \in Paths
  BY DEF TypeOK
<1>1. PICK n \in 0 .. MaxPath : path[a] \in [1 .. n -> Moves]
  BY <1>0 DEF Paths
<1>2. n \in Nat
  BY AgentsAssumption
<1>3. path[a] \in Seq(Moves)
  BY <1>1, <1>2
<1>4. QED
  BY <1>3

LEMMA InitInv == Init => GridInv
<1> SUFFICES ASSUME Init PROVE GridInv
  OBVIOUS
<1>1. obstacles \subseteq Cells /\ map \in Grids
  BY DEF Init, Grids
<1>2. pos \in [Agents -> Cells]
  BY DEF Init
<1>3. \A a \in Agents : Len(path[a]) \in Nat
  <2>1. TAKE a \in Agents
  <2>2. PICK n \in 0 .. MaxPath : path[a] \in [1 .. n -> Moves]
    BY DEF Init, Paths
  <2>3. path[a] \in Seq(Moves)
    BY <2>2, AgentsAssumption
  <2>4. QED
    BY <2>3
<1>4. TypeOK
  BY <1>1, <1>2, <1>3 DEF Init, TypeOK, Labels
<1>5. LockInv
  BY AgentsAssumption DEF Init, LockInv, InsideAt
<1>6. MoveInv
  BY DEF Init, MoveInv
<1>7. MarkInv
  BY DEF Init, MarkInv, Placed
<1>8. ObstaclesStay
  BY DEF Init, ObstaclesStay
<1>9. QED
  BY <1>4, <1>5, <1>6, <1>7, <1>8 DEF GridInv

-----------------------------------------------------------------------------
(* Only one agent is ever inside, and none while the renderer is.           *)
LEMMA OneInside ==
  ASSUME LockInv, NEW a \in Agents, NEW b \in Agents,
         pc[a] \in InsideAt, pc[b] \in InsideAt
  PROVE  a = b
  BY DEF LockInv

LEMMA NextType == GridInv /\ [Next]_vars => TypeOK'
<1> SUFFICES ASSUME GridInv, [Next]_vars PROVE TypeOK'
  OBVIOUS
<1> USE PathLength DEF GridInv, TypeOK, Labels
<1>1. ASSUME NEW a \in Agents, Acquire(a) PROVE TypeOK'
  BY <1>1 DEF Acquire, LockToPlace, LockToMove, AgentGoes, Lock, walk, input
<1>2. ASSUME NEW a \in Agents, Proceed(a) PROVE TypeOK'
  <2> USE DEF AgentGoes, Unlock, input, Grids
  <2>1. CASE PlaceAgent(a)
    BY <2>1 DEF PlaceAgent, walk
  <2>2. CASE UnlockPlaced(a)
    BY <2>2 DEF UnlockPlaced, walk
  <2>3. CASE StayPut(a)
    BY <2>3 DEF StayPut, walk
  <2>4. CASE ClearOldCell(a)
    BY <2>4 DEF ClearOldCell, walk
  <2>5. CASE MarkNewCell(a)
    BY <2>5 DEF MarkNewCell, MoveInv
  <2>6. CASE UnlockMoved(a)
    BY <2>6 DEF UnlockMoved, MoveInv
  <2>7. CASE Return(a)
    BY <2>7 DEF Return, walk
  <2>8. QED
    BY <1>2, <2>1, <2>2, <2>3, <2>4, <2>5, <2>6, <2>7 DEF Proceed
<1>3. CASE renderer
  BY <1>3 DEF renderer, RendererLock, Render, RendererUnlock, RendererGoes, Lock, Unlock,
     walk, input
<1>4. CASE mainSteps
  BY <1>4 DEF mainSteps, CreateRenderer, CreateAgent, JoinAgents, FreeMap, Exit, MainGoes,
     walk, input
<1>5. CASE UNCHANGED vars
  BY <1>5 DEF vars, walk, input
<1>6. QED
  BY <1>1, <1>2, <1>3, <1>4, <1>5 DEF Next, agent, Exited

(* maplock changes hands only where a thread goes in or out.                *)
LEMMA NextLock == GridInv /\ [Next]_vars => LockInv'
<1> SUFFICES ASSUME GridInv, [Next]_vars PROVE LockInv'
  OBVIOUS
<1> USE AgentsAssumption DEF GridInv, LockInv, InsideAt
<1>1. ASSUME NEW a \in Agents, agent(a) PROVE LockInv'
  <2>1. main \in {"create", "join"} /\ UNCHANGED <<main, rpc>>
    BY <1>1 DEF agent, Acquire, Proceed, LockToPlace, LockToMove, PlaceAgent, UnlockPlaced,
       StayPut, ClearOldCell, MarkNewCell, UnlockMoved, Return, AgentGoes, TypeOK
  <2>2. CASE Acquire(a)
    BY <2>1, <2>2 DEF Acquire, LockToPlace, LockToMove, AgentGoes, Lock, TypeOK
  <2>3. CASE UnlockPlaced(a) \/ UnlockMoved(a)
    BY <2>1, <2>3 DEF UnlockPlaced, UnlockMoved, AgentGoes, Unlock, TypeOK
  <2>4. CASE PlaceAgent(a) \/ StayPut(a) \/ ClearOldCell(a) \/ MarkNewCell(a) \/ Return(a)
    BY <2>1, <2>4 DEF PlaceAgent, StayPut, ClearOldCell, MarkNewCell, Return, AgentGoes, TypeOK
  <2>5. QED
    BY <1>1, <2>2, <2>3, <2>4 DEF agent, Proceed
<1>2. CASE renderer
  <2>1. UNCHANGED <<pc, main>>
    BY <1>2 DEF renderer, RendererLock, Render, RendererUnlock, RendererGoes
  <2>2. CASE RendererLock
    BY <2>1, <2>2 DEF RendererLock, RendererGoes, Lock, TypeOK
  <2>3. CASE Render
    BY <2>1, <2>3 DEF Render, RendererGoes
  <2>4. CASE RendererUnlock
    BY <2>1, <2>4 DEF RendererUnlock, RendererGoes, Unlock, TypeOK
  <2>5. QED
    BY <1>2, <2>2, <2>3, <2>4 DEF renderer
<1>3. CASE mainSteps
  BY <1>3 DEF mainSteps, CreateRenderer, CreateAgent, JoinAgents, FreeMap, Exit, MainGoes,
     TypeOK
<1>4. CASE UNCHANGED vars
  BY <1>4 DEF vars
<1>5. QED
  BY <1>1, <1>2, <1>3, <1>4 DEF Next, Exited

LEMMA OthersOutside ==
  ASSUME GridInv, NEW a \in Agents, pc[a] \in InsideAt, NEW b \in Agents, b # a
  PROVE  pc[b] \notin InsideAt
  BY OneInside DEF GridInv

LEMMA NextMove == GridInv /\ [Next]_vars => MoveInv'
<1> SUFFICES ASSUME GridInv, [Next]_vars PROVE MoveInv'
  OBVIOUS
<1> USE DEF GridInv, MoveInv, InsideAt, NewCell
<1>1. ASSUME NEW a \in Agents, agent(a) PROVE MoveInv'
  <2> USE DEF AgentGoes, TypeOK, walk, input
  <2>1. CASE Acquire(a)
    BY <2>1 DEF Acquire, LockToPlace, LockToMove
  <2>2. CASE PlaceAgent(a)
    BY <2>2, OthersOutside DEF PlaceAgent
  <2>3. CASE UnlockPlaced(a)
    BY <2>3 DEF UnlockPlaced
  <2>4. CASE StayPut(a)
    BY <2>4 DEF StayPut
  <2>5. CASE ClearOldCell(a)
    BY <2>5, OthersOutside DEF ClearOldCell, CanEnter, Grids
  <2>6. CASE MarkNewCell(a)
    BY <2>6, OthersOutside DEF MarkNewCell, ObstaclesStay
  <2>7. CASE UnlockMoved(a)
    BY <2>7, OthersOutside DEF UnlockMoved
  <2>8. CASE Return(a)
    BY <2>8 DEF Return
  <2>9. QED
    BY <1>1, <2>1, <2>2, <2>3, <2>4, <2>5, <2>6, <2>7, <2>8 DEF agent, Proceed
<1>2. CASE renderer
  BY <1>2 DEF renderer, RendererLock, Render, RendererUnlock, RendererGoes, walk, input
<1>3. CASE mainSteps
  BY <1>3 DEF mainSteps, CreateRenderer, CreateAgent, JoinAgents, FreeMap, Exit, MainGoes,
     walk, input, TypeOK
<1>4. CASE UNCHANGED vars
  BY <1>4 DEF vars, walk, input
<1>5. QED
  BY <1>1, <1>2, <1>3, <1>4 DEF Next, Exited

LEMMA MarksKept ==
  ASSUME MarkInv, UNCHANGED <<map, pos, ghosts>>, Placed' = Placed,
         \A b \in Agents : pc'[b] = "mark" <=> pc[b] = "mark"
  PROVE  MarkInv'
<1>1. \A b \in Placed : b \in Agents
  BY DEF Placed
<1>2. QED
  BY <1>1 DEF MarkInv

(* Only three steps of an agent touch the grid or a cell of an agent.        *)
LEMMA NextMark == GridInv /\ [Next]_vars => MarkInv'
<1> SUFFICES ASSUME GridInv, [Next]_vars PROVE MarkInv'
  OBVIOUS
<1> USE DEF GridInv, MarkInv, Placed
<1>1. ASSUME NEW a \in Agents, agent(a) PROVE MarkInv'
  <2> USE DEF AgentGoes, TypeOK, walk, input
  <2>1. CASE Acquire(a)
    <3>1. Placed' = Placed /\ \A b \in Agents : pc'[b] = "mark" <=> pc[b] = "mark"
      BY <2>1 DEF Acquire, LockToPlace, LockToMove
    <3>2. UNCHANGED <<map, pos, ghosts>>
      BY <2>1 DEF Acquire, LockToPlace, LockToMove
    <3>3. QED
      BY <3>1, <3>2, MarksKept
  <2>2. CASE PlaceAgent(a)
    <3>1. \A b \in Agents : b # a => pc[b] # "mark"
      BY <2>2, OthersOutside DEF PlaceAgent, InsideAt
    <3>2. CASE map[pos[a]] = "." /\ map' = [map EXCEPT ![pos[a]] = "O"] /\ ghosts' = ghosts
      <4>1. ghosts = {} => \A b \in Placed : pos[b] # pos[a]
        BY <2>2, <3>1, <3>2 DEF PlaceAgent
      <4>2. QED
        BY <2>2, <3>1, <3>2, <4>1 DEF PlaceAgent, Grids
    <3>3. CASE ghosts' = ghosts \union {a} /\ map' = map
      BY <2>2, <3>3 DEF PlaceAgent
    <3>4. QED
      BY <2>2, <3>2, <3>3 DEF PlaceAgent
  <2>3. CASE UnlockPlaced(a)
    BY <2>3 DEF UnlockPlaced
  <2>4. CASE StayPut(a)
    BY <2>4 DEF StayPut
  <2>5. CASE ClearOldCell(a)
    <3>1. /\ Placed' = Placed /\ a \in Placed /\ Placed \subseteq Agents
          /\ pc'[a] = "mark" /\ UNCHANGED <<pos, ghosts>>
          /\ \A b \in Agents : b # a => pc'[b] = pc[b] /\ pc[b] # "mark"
      BY <2>5, OthersOutside DEF ClearOldCell, InsideAt
    <3>2. pc[a] # "mark"
      BY <2>5 DEF ClearOldCell
    <3>3. map'[pos[a]] = "." /\ \A c \in Cells : c # pos[a] => map'[c] = map[c]
      BY <2>5 DEF ClearOldCell, Grids
    <3>4. ASSUME NEW c \in Cells, map'[c] = "O" PROVE \E b \in Placed' : pos'[b] = c
      <4>1. map[c] = "O"
        BY <3>3, <3>4
      <4>2. QED
        BY <3>1, <4>1
    <3>5. ASSUME ghosts' = {} PROVE /\ \A b \in Placed' : pc'[b] # "mark" => map'[pos'[b]] = "O"
                                    /\ \A b, d \in Placed' : b # d => pos'[b] # pos'[d]
      <4>1. \A b, d \in Placed : b # d => pos[b] # pos[d]
        BY <3>1, <3>5
      <4>2. ASSUME NEW b \in Placed, b # a PROVE map'[pos[b]] = "O"
        <5>1. map[pos[b]] = "O" /\ pos[b] # pos[a] /\ pos[b] \in Cells
          BY <3>1, <3>5, <4>1, <4>2
        <5>2. QED
          BY <5>1, <3>3
      <4>3. QED
        BY <3>1, <4>1, <4>2
    <3>6. QED
      BY <3>4, <3>5
  <2>6. CASE MarkNewCell(a)
    <3>1. /\ NewCell(a) \in Cells /\ map[NewCell(a)] = "." /\ map[pos[a]] = "."
      BY <2>6 DEF MarkNewCell, MoveInv
    <3>2. map' = [map EXCEPT ![NewCell(a)] = "O"] /\ pos' = [pos EXCEPT ![a] = NewCell(a)]
      BY <2>6 DEF MarkNewCell
    <3>3. /\ \A b \in Agents : b # a => pc[b] # "mark" /\ pos'[b] = pos[b] /\ pc'[b] = pc[b]
          /\ pos'[a] = NewCell(a) /\ ghosts' = ghosts /\ pc[a] = "mark" /\ pc'[a] = "unlock"
      BY <2>6, <3>2, OthersOutside DEF MarkNewCell, InsideAt
    <3>4. ghosts = {} => \A b \in Placed : b # a => pos[b] # NewCell(a)
      BY <3>1, <3>3
    <3>5. \A c \in Cells : map'[c] = "O" => c = NewCell(a) \/ (map[c] = "O" /\ c # pos[a])
      BY <3>1, <3>2 DEF Grids
    <3>6. map'[NewCell(a)] = "O" /\ \A c \in Cells : c # NewCell(a) => map'[c] = map[c]
      BY <3>1, <3>2 DEF Grids
    <3>7. Placed' = Placed /\ a \in Placed /\ Placed \subseteq Agents
      BY <2>6 DEF MarkNewCell
    <3>8. ASSUME NEW c \in Cells, map'[c] = "O" PROVE \E b \in Placed' : pos'[b] = c
      <4>1. CASE c = NewCell(a)
        BY <4>1, <3>3, <3>7
      <4>2. CASE map[c] = "O" /\ c # pos[a]
        <5>1. PICK b \in Placed : pos[b] = c
          BY <4>2
        <5>2. b # a /\ pos'[b] = c
          BY <4>2, <5>1, <3>3, <3>7
        <5>3. QED
          BY <5>1, <5>2, <3>7
      <4>3. QED
        BY <3>5, <3>8, <4>1, <4>2
    <3>9. ASSUME ghosts' = {} PROVE /\ \A b \in Placed' : pc'[b] # "mark" => map'[pos'[b]] = "O"
                                    /\ \A b, d \in Placed' : b # d => pos'[b] # pos'[d]
      <4>1. ASSUME NEW b \in Placed PROVE map'[pos'[b]] = "O"
        <5>1. CASE b = a
          BY <5>1, <3>3, <3>6
        <5>2. CASE b # a
          <6>1. map[pos[b]] = "O" /\ pos[b] # NewCell(a) /\ pos[b] \in Cells
            BY <5>2, <3>3, <3>4, <3>7, <3>9
          <6>2. QED
            BY <5>2, <6>1, <3>3, <3>6, <3>7
        <5>3. QED
          BY <5>1, <5>2
      <4>2. ASSUME NEW b \in Placed, NEW d \in Placed, b # d PROVE pos'[b] # pos'[d]
        <5>1. pos[b] # pos[d] /\ b \in Agents /\ d \in Agents
          BY <4>2, <3>3, <3>7, <3>9
        <5>2. QED
          BY <4>2, <5>1, <3>3, <3>4, <3>9
      <4>3. QED
        BY <4>1, <4>2, <3>7
    <3>10. QED
      BY <3>8, <3>9
  <2>7. CASE UnlockMoved(a)
    BY <2>7 DEF UnlockMoved
  <2>8. CASE Return(a)
    BY <2>8 DEF Return
  <2>9. QED
    BY <1>1, <2>1, <2>2, <2>3, <2>4, <2>5, <2>6, <2>7, <2>8 DEF agent, Proceed
<1>2. CASE renderer
  BY <1>2 DEF renderer, RendererLock, Render, RendererUnlock, RendererGoes, walk, input
<1>3. CASE mainSteps
  <2>1. UNCHANGED <<map, pos, ghosts>>
    BY <1>3 DEF mainSteps, CreateRenderer, CreateAgent, JoinAgents, FreeMap, Exit, walk
  <2>2. Placed' = Placed /\ \A b \in Agents : pc'[b] = "mark" <=> pc[b] = "mark"
    BY <1>3 DEF mainSteps, CreateRenderer, CreateAgent, JoinAgents, FreeMap, Exit, TypeOK
  <2>3. QED
    BY <2>1, <2>2, MarksKept
<1>4. CASE UNCHANGED vars
  BY <1>4 DEF vars, walk, input
<1>5. QED
  BY <1>1, <1>2, <1>3, <1>4 DEF Next, Exited

LEMMA NextObstacles == GridInv /\ [Next]_vars => ObstaclesStay'
<1> SUFFICES ASSUME GridInv, [Next]_vars PROVE ObstaclesStay'
  OBVIOUS
<1> USE DEF GridInv, ObstaclesStay
<1>1. ASSUME NEW a \in Agents, agent(a) PROVE ObstaclesStay'
  <2> USE DEF AgentGoes, TypeOK, Grids, input
  <2>1. CASE PlaceAgent(a)
    BY <2>1 DEF PlaceAgent
  <2>2. CASE ClearOldCell(a)
    BY <2>2 DEF ClearOldCell, MoveInv
  <2>3. CASE MarkNewCell(a)
    BY <2>3 DEF MarkNewCell, MoveInv
  <2>4. CASE Acquire(a) \/ UnlockPlaced(a) \/ StayPut(a) \/ UnlockMoved(a) \/ Return(a)
    BY <2>4 DEF Acquire, LockToPlace, LockToMove, UnlockPlaced, StayPut, UnlockMoved, Return
  <2>5. QED
    BY <1>1, <2>1, <2>2, <2>3, <2>4 DEF agent, Proceed
<1>2. CASE renderer
  BY <1>2 DEF renderer, RendererLock, Render, RendererUnlock, RendererGoes, input
<1>3. CASE mainSteps
  BY <1>3 DEF mainSteps, CreateRenderer, CreateAgent, JoinAgents, FreeMap, Exit, MainGoes, input
<1>4. CASE UNCHANGED vars
  BY <1>4 DEF vars, input
<1>5. QED
  BY <1>1, <1>2, <1>3, <1>4 DEF Next, Exited

-----------------------------------------------------------------------------
(* The inductive invariant of the grid, the agents and maplock.             *)
THEOREM AgentsInvariant == Spec => []GridInv
<1>1. GridInv /\ [Next]_vars => GridInv'
  BY NextType, NextLock, NextMove, NextMark, NextObstacles DEF GridInv
<1>2. QED
  BY InitInv, <1>1, PTL DEF Spec

(* No agent ever stands outside the grid or reads behind its path, and no   *)
(* cell ever holds anything but an obstacle, a mark or nothing.             *)
THEOREM AgentsTypeOK == Spec => []TypeOK
<1>1. GridInv => TypeOK
  BY DEF GridInv
<1>2. QED
  BY <1>1, AgentsInvariant, PTL

(* The grid never loses or gains a blocked cell, whatever the agents walk.  *)
THEOREM AgentsKeepObstacles == Spec => []ObstaclesStay
<1>1. GridInv => ObstaclesStay
  BY DEF GridInv
<1>2. QED
  BY <1>1, AgentsInvariant, PTL

LEMMA NobodyMoves == ASSUME GridInv, Settled PROVE \A a \in Agents : pc[a] # "mark"
  BY AgentsAssumption DEF GridInv, LockInv, InsideAt, Settled

(* Moves leave no mark behind, even when agents stand on one cell.          *)
THEOREM AgentsLeaveNoMark == Spec => []NoMarkWithoutAgent
<1>1. GridInv => NoMarkWithoutAgent
  BY DEF GridInv, MarkInv, NoMarkWithoutAgent, Marked
<1>2. QED
  BY <1>1, AgentsInvariant, PTL

(* Agents that all found their starting cells free exclude each other.      *)
THEOREM AgentsNeverCollide == Spec => []NoCollision
<1>1. GridInv => NoCollision
  BY NobodyMoves DEF GridInv, TypeOK, MarkInv, NoCollision, Marked, Placed
<1>2. QED
  BY <1>1, AgentsInvariant, PTL

(* The renderer draws only while no agent is in the middle of a move.       *)
LEMMA FrameIsWhole ==
  ASSUME GridInv, Render, ghosts = {}, main # "freed"
  PROVE  {c \in Cells : prev_map'[c] = "O"} = {pos[a] : a \in Placed}
<1>1. prev_map' = map
  BY DEF Render
<1>2. \A a \in Agents : pc[a] # "mark"
  BY AgentsAssumption DEF Render, RendererGoes, GridInv, LockInv, InsideAt
<1>3. QED
  BY <1>1, <1>2 DEF GridInv, TypeOK, MarkInv, Placed

THEOREM FramesAreWhole == Spec => FrameShowsAgents
<1> DEFINE Frame == Render /\ ghosts = {} /\ main # "freed"
             => {c \in Cells : prev_map'[c] = "O"} = {pos[a] : a \in Placed}
<1>1. GridInv => [Frame]_vars
  BY FrameIsWhole
<1>2. QED
  BY <1>1, AgentsInvariant, PTL DEF FrameShowsAgents

=============================================================================
