\* main frees the grid under the renderer.
CONSTANTS
  Agents = {a1}
  MAP_SIZE = 2
  Moves = {"R"}
  MaxPath = 0
  MaxObstacles = 0
  Renderer = Renderer
  None = None
SPECIFICATION Spec
PROPERTY DocReadsLiveMap
