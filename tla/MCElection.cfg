SPECIFICATION FairSpec
CONSTANTS
  n1 = n1
  n2 = n2
  n3 = n3
  Node = {n1, n2, n3}
  None = None
  Client = Client
  ClientNode = {}
  Data = {}
  Genesis = Genesis
  First = n1
  Codec = "bincode"
  MAX_INFLIGHT = 1
  Capacity = 1
  MaxInFlight = 6
  MaxTerm = 1
  MaxFailures = 0
INVARIANTS AtMostOneLeader ElectionInv CandidateIsUndecided
PROPERTY LeaderIsFollowed
CHECK_DEADLOCK FALSE
