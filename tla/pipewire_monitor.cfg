SPECIFICATION FairSpec
CONSTANTS
  Pids <- MCPids
  Ids = {1, 2, 3}
  OneNodeEach = TRUE
  Restarts = TRUE
  MaxPipe = 2
  MaxEvents = 2
INVARIANTS TypeOK UsersKnown NoGhosts
PROPERTIES FeedInTurns FeedSettles
