CONSTANTS
  x1 = x1  x2 = x2  y1 = y1  y2 = y2  z1 = z1  z2 = z2
  Slot = {x1, x2}  Uuid = {y1, y2}  User = {z1, z2}  Port = {"p", "q"}
  MaxRequests = 2  MaxUpsets = 1
  Image = {"cloud", "oci"}  Oci = {"oci"}  Configured = {"cloud"}
  Published = {y1, y2}  Disk = {"disk"}  Digest = {"digest"}
  Pinned <- MCPinned
  Worker = {x1, x2}  Inst = {"vm"}
  MaxFaults = 1  MaxJobs = 2  MaxMoves = 1
  Task = {x1, x2}  MaxCalls = 3  MaxSockets = 2  MaxRpcFaults = 1
SPECIFICATION Spec
SYMMETRY Symmetry
INVARIANT
  TableFollowsStore
CHECK_DEADLOCK FALSE
