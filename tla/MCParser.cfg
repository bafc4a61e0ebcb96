SPECIFICATION Spec
CONSTANTS
  Acc <- AccRule
  Inputs <- AllInputs
  MaxTokens = 4
INVARIANTS
  AcceptedIsDerivable
  DerivableIsAccepted
  RulesCleanUp
  LocationsNest
  PrecedenceIsKept
  AsTheTestsExpect
PROPERTIES
  StatementsAdvance
CHECK_DEADLOCK FALSE
