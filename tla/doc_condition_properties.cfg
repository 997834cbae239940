SPECIFICATION Spec
CONSTANTS
  ProfileNames <- MCProfileNames
  Processes <- MCProcesses
  PropertySets <- NiceOrIo
  Conditions <- TwoConditions
  Rates <- MCRates
  MaxNodes = 3
PROPERTIES ConditionsHaveProperties
CHECK_DEADLOCK FALSE
