SPECIFICATION CommittedSpecRestart
CONSTANTS
  n1 = n1
  n2 = n2
  n3 = n3
  r1 = r1
  r2 = r2
  Node = {n1, n2, n3}
  None = None
  Client = Client
  ClientNode = {n2, n3}
  Data = {r1, r2}
  Genesis = Genesis
  First = n1
  Codec = "bincode"
  MAX_INFLIGHT = 1
  Capacity = 1
  MaxInFlight = 2
  MaxTerm = 1
  MaxFailures = 4
SYMMETRY FollowerSymmetry
CONSTRAINT InFlight
INVARIANT CommitsAgree
CHECK_DEADLOCK FALSE
