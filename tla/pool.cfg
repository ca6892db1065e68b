SPECIFICATION FairSpec
CONSTANTS
  a = a
  b = b
  c = c
  d = d
  c1 = c1
  c2 = c2
  Worker = {0, 1}
  Task = {a, b, c}
  Prio = {0, 1}
  PriorityOf <- MCPriorityOf
  Cancellable = {a, b}
  Client = {c1, c2}
  NoTask = NoTask
INVARIANTS
  PoolInv
  SleepersHaveNoWork
PROPERTIES
  EveryTaskHandled
  TeardownEnds
CHECK_DEADLOCK FALSE
