SPECIFICATION BrokerFairSpec
CONSTANTS
  n1 = n1
  t1 = t1
  t2 = t2
  c1 = c1
  Node = {n1}
  None = None
  Client = Client
  ClientNode = {n1}
  Data <- Ensures
  Genesis = Genesis
  First = n1
  Codec = "json"
  MAX_INFLIGHT = 1
  Capacity = 1
  MaxTerm = 1
  MaxFailures = 0
  Conn = {c1}
  Asked <- TestAsked
PROPERTIES CreationIsAnswered
CHECK_DEADLOCK FALSE
