SPECIFICATION Spec
CONSTANTS
  n1 = n1
  n2 = n2
  r1 = r1
  r2 = r2
  r3 = r3
  Node = {n1, n2}
  None = None
  Client = Client
  ClientNode = {n1, n2}
  Data = {r1, r2, r3}
  Genesis = Genesis
  First = n1
  Codec = "bincode"
  MAX_INFLIGHT = 2
  Capacity = 2
  MaxInFlight = 2
  MaxTerm = 1
  MaxFailures = 1
SYMMETRY Symmetry
CONSTRAINT InFlight
INVARIANTS RequestIsInOnePlace ProgressIsStored LeaderCanAppend
PROPERTY ImplementsReplicatedLog
CHECK_DEADLOCK FALSE
