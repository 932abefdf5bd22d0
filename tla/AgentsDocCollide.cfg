\* An agent walks onto the start of one that is not there yet.
CONSTANTS
  Agents = {a1, a2}
  MAP_SIZE = 2
  Moves = {"R"}
  MaxPath = 1
  MaxObstacles = 0
  Renderer = Renderer
  None = None
SPECIFICATION Spec
INVARIANT DocNoCollisions
