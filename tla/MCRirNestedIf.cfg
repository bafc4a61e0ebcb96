SPECIFICATION Spec
CONSTANTS
  NoVariable = NoVariable
  Modules <- NestedIfs
INVARIANTS
  BranchesJoinBehindTheirIf
