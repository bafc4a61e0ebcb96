CONSTANTS
  Type <- MCType
  Variables <- MCVariables
  Values <- MCValues
  Parameters <- MCParameters
  Returned <- MCReturned
  Targets <- MCTargets
  Patterns <- MCPatterns
  MaxChecks = 2
  MaxCases = 4
  MaxDepth = 2
  ModuleTexts <- MCModuleTexts
SPECIFICATION SpecTypes
INVARIANTS
  VerdictIsRight
  ExactOperandWins
  AssignmentsWarn
  MatchesAreDecided
  ValuesReachTheirCase
  TypesSayWhatTheyMean
CHECK_DEADLOCK FALSE
