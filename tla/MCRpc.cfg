CONSTANTS
  Inputs <- MCInputs
  RpcMode = "READ_WRITE"
  MaxRpcId = 2
  MaxRetries = 1
  MaxRequests = 3
  MaxStates = 2
SPECIFICATION LiveSpec
INVARIANTS RepliesOnce PendingOnTheWay
PROPERTY RequestsAnswered
CHECK_DEADLOCK FALSE
