SPECIFICATION Spec
CONSTANTS
  Handles <- MCHandles
  MaxLen = 5
  CacheSize = 3
  MaxDepth = 4
  Faults <- MCFaults
INVARIANTS
  TypeOK
  CacheIsCurrent
PROPERTIES
  FilesReadInOrder
