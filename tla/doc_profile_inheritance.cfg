SPECIFICATION Spec
CONSTANTS
  ProfileNames <- MCProfileNames
  Processes <- MCProcesses
  PropertySets <- NiceOrIo
  Conditions <- NoConditions
  Rates <- MCRates
  MaxNodes = 4
INVARIANTS ProfilesInherit
CHECK_DEADLOCK FALSE
