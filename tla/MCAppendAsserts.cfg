SPECIFICATION SpecRestart
CONSTANTS
  n1 = n1
  r1 = r1
  Node = {n1}
  None = None
  Client = Client
  ClientNode = {n1}
  Data = {r1}
  Genesis = Genesis
  First = n1
  Codec = "json"
  MAX_INFLIGHT = 1
  Capacity = 1
  MaxInFlight = 1
  MaxTerm = 1
  MaxFailures = 2
CONSTRAINT InFlight
INVARIANT LeaderCanAppend
CHECK_DEADLOCK FALSE
