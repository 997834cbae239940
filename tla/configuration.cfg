SPECIFICATION Spec
CONSTANTS
  ProfileNames <- MCProfileNames
  Processes <- MCProcesses
  PropertySets <- MCPropertySets
  Conditions <- MCConditions
  Rates <- MCRates
  MaxNodes = 4
INVARIANTS TypeOK KernelAccepts NameRuleDecides ConditionsAssign FeaturesAsDefined
CHECK_DEADLOCK FALSE
