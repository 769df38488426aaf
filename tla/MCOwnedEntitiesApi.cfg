SPECIFICATION Spec
CONSTANTS
  ms = ms
  b1 = b1
  Blocks <- MCBlocks
  ModelSpace = ms
  Creations = {"api"}
  DxfHandles = {2, 3, 5}
  MaxObjects = 5
  MaxImported = 4
  MaxReloads = 1
INVARIANT IterationListsOwned
CHECK_DEADLOCK FALSE
