SPECIFICATION Spec
CONSTANTS
  ms = ms
  b1 = b1
  Blocks <- MCBlocks
  ModelSpace = ms
  Creations = {"api", "dxf"}
  DxfHandles = {2, 3, 5}
  MaxObjects = 6
  MaxImported = 4
  MaxReloads = 1
INVARIANTS
  TypeOK
  SavedChainListsOwned
  SettledIterationListsOwned
CHECK_DEADLOCK FALSE
