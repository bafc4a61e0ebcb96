SPECIFICATION FairSpec
CONSTANTS
  m1 = m1
  m2 = m2
  m3 = m3
  m4 = m4
  Module = {m1, m2, m3, m4}
  NoModule = NoModule
  Graphs <- MCGraphs
INVARIANTS
  TypeOK
  DependenciesFirst
  SortedIsComplete
  VerdictIsRight
PROPERTIES
  ImplementsBuildOrder
  Resolves
