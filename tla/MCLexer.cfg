SPECIFICATION SpecText
CONSTANTS
  Inputs <- MCInputs
  Keywords <- MCKeywords
  ReadOn <- MCReadOn
  Texts <- MCTexts
  MaxMarks = 2
  MaxMessages = 2
INVARIANTS
  TokensAreTheText
  PositionIsKept
  TypeOK
  AttemptsAreSound
PROPERTIES
  AttemptLeavesNoTrace
  QuietAttemptIsQuiet
