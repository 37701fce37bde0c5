CONSTANTS
  CoreNodes = {n1}
  Decorators = {d1}
  NoTree = NoTree
  MaxChanges = 2
  MaxCrashes = 1
  MaxDrains = 1
  MaxLate = 1
  Trees <- MCTrees
  Blueprints <- MCBlueprints
  Keys <- MCKeys
  Values <- MCValues
  Changing <- MCChanging
  None = None
  Nameless = Nameless
  Canvas = Canvas
SPECIFICATION LiveSpec
PROPERTY BlueprintCatchesUp
CHECK_DEADLOCK FALSE
