SPECIFICATION LedServerFairSpec
CONSTANTS
  n1 = n1
  n2 = n2
  r1 = r1
  r2 = r2
  Node = {n1, n2}
  None = None
  Client = Client
  ClientNode = {n1, n2}
  Data = {r1, r2}
  Genesis = Genesis
  First = n1
  Codec = "bincode"
  MAX_INFLIGHT = 1
  Capacity = 1
  MaxTerm = 1
  MaxFailures = 0
INVARIANTS AnsweredIsExecuted AnswerIsAwaited  AnswerInv DriverInv
PROPERTY FirstBlockCommits
CHECK_DEADLOCK FALSE
