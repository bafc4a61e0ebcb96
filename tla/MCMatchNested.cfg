CONSTANTS
  Type <- MCType
  Variables <- MCVariables
  Values <- MCValues
  Parameters <- MCParameters
  Returned <- MCReturned
  Targets <- MCTargets
  Patterns <- MCPatterns
  MaxChecks = 2
  MaxCases = 4
  MaxDepth = 2
SPECIFICATION Spec
INVARIANTS
  UselessMeansUseless
CHECK_DEADLOCK FALSE
