CONSTANTS
  Sockets = {w1, w2, w3}
  MaxCalls = 4
  Mock = Mock
  Nothing = Nothing
SPECIFICATION FairSpec
INVARIANT OneLiveSocket
PROPERTY GraphComesBack
CHECK_DEADLOCK FALSE
