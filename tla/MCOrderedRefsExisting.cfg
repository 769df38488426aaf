CONSTANTS
  Codes <- IndexCodes
  Absrefs <- MCAbsrefs
  Objects <- NoObjects
  RefsPerRealloc = 3
  AllocMayFail = FALSE
  MaxRefs = 4
SPECIFICATION CallsOnly
PROPERTY
  ReturnsExisting
CHECK_DEADLOCK FALSE
