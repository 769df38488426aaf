CONSTANTS
  MaxHandle = 4
  MaxObjects = 3
SPECIFICATION Spec
INVARIANTS
  TypeOK
  HandlesKnown
PROPERTIES
  ApiHandlesUnique
  TableRecordsUnique
  SeedNeverFalls
CHECK_DEADLOCK FALSE
