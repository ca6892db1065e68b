SPECIFICATION Spec
CONSTANTS
  a = a
  b = b
  NoUID = NoUID
  UID = {a, b}
  NUM_QUEUES = 2
  INITIAL_CAPACITY = 4
  ReallocFails = FALSE
  MaxLen = 3
INVARIANTS
  FreeSpaceBothSides
  MemorySafe
  ChainOrdered
PROPERTY BehavesAsLists
