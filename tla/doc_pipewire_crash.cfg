SPECIFICATION Spec
CONSTANTS
  Pids <- MCPids
  Ids = {1, 2, 3}
  OneNodeEach = TRUE
  Restarts = FALSE
  MaxPipe = 1
  MaxEvents = 1
INVARIANTS NothingLostInCrash
