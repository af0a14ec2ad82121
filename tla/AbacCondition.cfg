SPECIFICATION CondSpec
CONSTANTS
  NoContext = NoContext
  Conditions <- MCConditions
  Depth <- MCDepth
  MaxDepth = 2
  Contexts <- MCContexts
  Regex <- MCRegex
  Cidr <- MCCidr
  Named <- MCNamed
  Slashed <- MCSlashed
  Contained <- MCContained
INVARIANTS NothingFromNothing HoursAreLocal
PROPERTIES MissingNeverGrants
