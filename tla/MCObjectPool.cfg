CONSTANTS
  Handles <- MCHandles
  InitialAlloc = 1
  RefsPerRealloc = 2
  MaxObjects = 4
  MaxRefs = 3
SPECIFICATION Spec
INVARIANTS
  TypeOK
  MapIsSound
  CleanRefsAreLive
  RefsFindObjects
PROPERTY
  NothingDangles
CHECK_DEADLOCK FALSE
