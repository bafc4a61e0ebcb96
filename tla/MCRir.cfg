SPECIFICATION SpecBoth
CONSTANTS
  NoVariable = NoVariable
  Modules <- MCBodies
  NoProgram = NoProgram
  Programs <- MCPrograms
  Typedefs <- MCTypedefs
  Functions <- MCFunctions
  Given <- MCGiven
  Bits <- MCBits
INVARIANTS
  FunctionsAreClosed
  BranchesJoinBehindTheirIf
  RunsAsSource
  RefusedForAReason
  ComputesAsSource
PROPERTIES
  RunsEnd
