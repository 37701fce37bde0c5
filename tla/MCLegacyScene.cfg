CONSTANTS
  Graphs <- MCGraphs
  Generic <- MCGeneric
  None = None
  Rates = {1, 2}
  Lifecycles = {active}
  Params = {p}
  MaxHistory = 1
  MaxFlying = 2
  MaxInputs = 5
SPECIFICATION FairSpec
INVARIANTS LinesJoinVertices FlagsCurrent InspectorCurrent
PROPERTIES PausedViewHolds SceneSettles
CHECK_DEADLOCK FALSE
