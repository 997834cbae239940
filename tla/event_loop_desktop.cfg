SPECIFICATION FairSpec
CONSTANTS
  Capacity = 2
  Feeders = {"refresh"}
  Clients = {"c1", "c2"}
  Calls <- DesktopCalls
  Configs <- EnabledOnly
  Pids <- MCPids
  Power <- AcOnly
  Custom <- MCCustom
INVARIANTS TypeOK
PROPERTIES ForegroundInOrder CallsReturn SweepsContinue
