SPECIFICATION Spec
CONSTANTS
  Patches <- MCPatches
  Filters <- MCFilters
  Documents <- MCDocuments
  MaxNumber = 2
  MaxItems = 2
  MaxUpdates = 3
  None = None
INVARIANTS SiblingsConjoined
CHECK_DEADLOCK FALSE
