SPECIFICATION Spec
CONSTANTS
  Pids <- MCPids
  Ids = {1, 2, 3}
  OneNodeEach = FALSE
  Restarts = FALSE
  MaxPipe = 1
  MaxEvents = 1
INVARIANTS ConnectedAreMonitored
