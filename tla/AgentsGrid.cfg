\* Every input of two agents on a 2x2 grid: up to one blocked cell, up to two moves each.
CONSTANTS
  Agents = {a1, a2}
  MAP_SIZE = 2
  Moves = {"U", "R"}
  MaxPath = 2
  MaxObstacles = 1
  Renderer = Renderer
  None = None
SPECIFICATION FairSpec
INVARIANTS TypeOK ObstaclesStay NoMarkWithoutAgent NoCollision
PROPERTIES FrameShowsAgents AgentsReturn
