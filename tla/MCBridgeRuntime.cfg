CONSTANTS
  Threads = {t1, t2}
  Clients = {c1, c2}
  EventTypes = {msg, params}
  Unserialisable = {params}
  QueueMaxsize = 2
  MaxEvents = 2
  NoEvent = NoEvent
SPECIFICATION FairSpec
INVARIANTS StreamsAreWindows ThreadOrder Accounting
PROPERTIES ImplementsChannel Drains
CHECK_DEADLOCK FALSE
