CONSTANTS
  Task = {x1, x2}
  MaxCalls = 4
  MaxSockets = 2
  MaxRpcFaults = 2
INIT RpcInit
NEXT RpcNext
INVARIANT OutOfStepDropped
\* Calls are bounded.
CHECK_DEADLOCK FALSE
