CONSTANTS
  n1 = n1
  n2 = n2
  chat = chat
  calls = calls
  rosout = rosout
  text = text
  number = number
  image = image
  unknown = unknown
  None = None
  Nodes = {n1, n2}
  Topics = {chat, calls, rosout}
  EventTopics = {calls}
  Skipped = {rosout}
  Types = {text, number, image, unknown}
  Heavy = {image}
  Unbuilt = {unknown}
  Endpoints <- MCEndpoints
  MaxChanges = 4
  MaxFailures = 1
SPECIFICATION FairSpec
INVARIANT SubscriptionsFollowGraph
PROPERTIES AskedOnce SubscriptionsSettle
CHECK_DEADLOCK FALSE
