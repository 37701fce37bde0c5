CONSTANTS
  Sockets = {w1, w2, w3}
  Endpoints = {e1, e2}
  Malformed = {bad}
  MaxCalls = 4
  None = None
SPECIFICATION FairSpec
INVARIANTS OneLiveSocket StatusHonest
PROPERTY Reconnects
CHECK_DEADLOCK FALSE
