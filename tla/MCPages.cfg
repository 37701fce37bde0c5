CONSTANTS
  Frames <- MCFrames
  Caps <- MCCaps
  DefaultCap = 2
  Rows = 1
  MaxFrames = 4
  Topics <- MCTopics
  BoardKeys <- MCBoardKeys
  MAX_SERIES = 2
  Window = 1
  Lag = 1
  Spans <- MCSpans
  MaxPoints = 2
SPECIFICATION PagesSpec
INVARIANTS NewestKept LogsWhileMounted FollowsTail OwnPoints
PROPERTY FollowsLive
CHECK_DEADLOCK FALSE
