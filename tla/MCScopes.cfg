SPECIFICATION Spec
CONSTANTS
  Programs <- MCPrograms
  Elementary = {"i32"}
INVARIANTS
  ScopesAreLexical
  NamesMeanTheirDeclaration
  VerdictIsRight

