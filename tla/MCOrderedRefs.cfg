CONSTANTS
  Codes <- MCCodes
  Absrefs <- MCAbsrefs
  Objects <- MCObjects
  RefsPerRealloc = 3
  AllocMayFail = TRUE
  MaxRefs = 4
SPECIFICATION Spec
INVARIANTS
  TypeOK
  IndexUsable
PROPERTIES
  ReferencesFound
  ReturnsRequested
CHECK_DEADLOCK FALSE
