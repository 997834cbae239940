SPECIFICATION FairSpec
CONSTANTS
  Capacity = 1
  Feeders = {"refresh"}
  Clients = {"c1"}
  Calls <- GameCall
  Configs <- EnabledOnly
  Pids <- MCPids
  Power <- Laptop
  Custom <- MCCustom
PROPERTIES SweepsContinue
