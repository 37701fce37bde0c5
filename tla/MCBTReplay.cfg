CONSTANTS
  n1 = n1
  n2 = n2
  d1 = d1
  CoreNodes = {n1, n2}
  Decorators = {d1}
  NoTree = NoTree
  None = None
  Log <- MCLog
  Positions <- MCPositions
  MaxCommands = 3
SPECIFICATION FairSpec
INVARIANTS CanvasAgrees SeekLands PauseHolds
PROPERTIES NoLostWakeup CallsTakenUp
CHECK_DEADLOCK FALSE
