CONSTANTS
  n1 = n1
  n2 = n2
  d1 = d1
  CoreNodes = {n1, n2}
  Decorators = {d1}
  NoTree = NoTree
  None = None
  Log <- MCLog
  Positions <- MCPositions
  MaxCommands = 2
SPECIFICATION Spec
PROPERTY NoSeekLost
CHECK_DEADLOCK FALSE
