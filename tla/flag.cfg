SPECIFICATION FlagSpec
CONSTANTS
  t1 = t1
  t2 = t2
  t3 = t3
  f1 = f1
  b1 = b1
  b2 = b2
  User = {t1, t2, t3}
  Idle0 = idle0
  Idle1 = idle1
  NoThread = NoThread
  Obj = {f1}
  NoObj = NoObj
  UserPrio = {1, 2}
  IdlePrio = 9
  Guest = {"CreateThread", "StartThread", "CreateEventFlag", "DeleteEventFlag", "CancelEventFlag", "ClearEventFlag", "SetEventFlag", "WaitEventFlag", "PollEventFlag", "ReferEventFlagStatus", "ReleaseWaitThread"}
  OnlyRunning = {}
  MaxTimer = 1
  MaxWakeup = 0
  Bits = {b1, b2}
  Asks <- MCAsks
  Multiples = {TRUE, FALSE}
SYMMETRY Symmetry
INVARIANTS
  FlagInv
  NoSatisfiedWaiter
PROPERTIES
  BitsServeOnce
