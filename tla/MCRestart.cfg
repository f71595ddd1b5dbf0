SPECIFICATION DividedSpecRestart
CONSTANTS
  n1 = n1
  n2 = n2
  n3 = n3
  r1 = r1
  Node = {n1, n2, n3}
  None = None
  Client = Client
  ClientNode = {n1}
  Data = {r1}
  Genesis = Genesis
  First = n1
  Codec = "bincode"
  MAX_INFLIGHT = 1
  Capacity = 1
  MaxInFlight = 2
  MaxTerm = 2
  MaxFailures = 2
SYMMETRY FollowerSymmetry
CONSTRAINT InFlight
 
PROPERTY CommitNeverRegresses
CHECK_DEADLOCK FALSE
