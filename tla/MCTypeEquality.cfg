SPECIFICATION StoreSpec
CONSTANTS
  ModuleTexts <- MCModuleTexts
INVARIANTS
  DescribedIsMeant
CHECK_DEADLOCK FALSE
