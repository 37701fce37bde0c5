CONSTANTS
  Threads = {t1}
  Clients = {c1}
  EventTypes = {msg, byte_params}
  Unserialisable = {byte_params}
  QueueMaxsize = 1
  MaxEvents = 2
  NoEvent = NoEvent
SPECIFICATION Spec
INVARIANT BroadcasterSurvives
CHECK_DEADLOCK FALSE
