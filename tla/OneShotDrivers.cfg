CONSTANTS
  ROWS = 6
  MAX_SIZE = 3
  MAX_NODES = 4
  MAX_GROUPS = 2
  ULONG = 32
SPECIFICATION Spec
INVARIANTS
  TypeOK
  ReleasedBeforeEvent
  OnlyFileLeftOver
  MemoryOutlivesThread
  MappingBacked
  ThreadsEndFirst
  PrintsEveryMask
PROPERTIES
  BufferStable
  ReadReturns
  PtovReturns
  NotifiedReturns
  WalkEnds
CHECK_DEADLOCK FALSE
