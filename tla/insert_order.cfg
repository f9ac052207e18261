SPECIFICATION Spec
CONSTANTS
  Table <- Exported
  External <- Missing
  MaxKeys = 2
INVARIANTS
  TypeOK
  ParentsPrecede
  CycleFoundExactly
  Ordering
PROPERTIES
  AlphabeticalAmongReady
CHECK_DEADLOCK FALSE
