SPECIFICATION Spec
CONSTANTS
  u1 = u1
  u2 = u2
  vb = vb
  Type = {"timer"}
  UserData = {u1, u2}
  vbCount = vb
  Hz = {2, 3}
  InitialHz = 2
  UsPerSecond = 4
  FrameMs = 2
  VblankMs = 1
  InitialSlice = 3
  MaxSlice = 3
  EmptySlice = 2
  IntLimit = 16
  MaxSince = 4
  Delay = {1, 17}
  MaxBlock = 2
  MaxDepth = 3
  MaxEvents = 3
  Horizon = 5
  Rebase = {1}
SYMMETRY Symmetry
INVARIANTS
  NoEventSlept
  TimingInv
PROPERTIES
  TimeAdvances
  ImplementsCalendar
CHECK_DEADLOCK FALSE
