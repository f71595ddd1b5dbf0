SPECIFICATION Spec
CONSTANTS
  n1 = n1
  n2 = n2
  n3 = n3
  Node = {n1, n2, n3}
  None = None
  Client = Client
  ClientNode = {}
  Data = {}
  Genesis = Genesis
  First = n1
  Codec = "json"
  MAX_INFLIGHT = 1
  Capacity = 1
  MaxInFlight = 3
  MaxTerm = 2
  MaxFailures = 0
SYMMETRY Symmetry
CONSTRAINT InFlight
INVARIANT SentIsRead
CHECK_DEADLOCK FALSE
