SPECIFICATION Spec
CONSTANTS
  File <- MCFiles
  Stdlib = "io.rf"
  Module <- MCModules
  StdlibName = "stdlib"
  MainName = "main"
  Name <- MCNames
  NoModule = "none"
  NoFile = "none"
  Programs <- MCPrograms
INVARIANTS
  AssertionHolds
