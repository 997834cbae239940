SPECIFICATION Spec
CONSTANTS
  Capacity = 2
  Feeders = {}
  Clients = {"c1"}
  Calls <- LaptopCalls
  Configs <- MCConfigs
  Pids <- MCPids
  Power <- Laptop
  Custom <- MCCustom
INVARIANTS CpuProfileInForce
