SPECIFICATION CbSpec
CONSTANTS
  t1 = t1
  t2 = t2
  s1 = s1
  c1 = c1
  User = {t1, t2}
  Idle0 = idle0
  Idle1 = idle1
  NoThread = NoThread
  Obj = {s1}
  NoObj = NoObj
  Cb = {c1}
  UserPrio = {1}
  IdlePrio = 9
  Guest = {"CreateThread", "StartThread", "DelayThread",
           "CreateSema", "DeleteSema", "WaitSema", "SignalSema",
           "CreateCallback", "DeleteCallback", "NotifyCallback", "CheckCallback"}
  OnlyRunning = {}
  MaxTimer = 1
  MaxWakeup = 1
  MaxCounts = {1}
  Attrs = {FALSE}
  Counts = {1}
SYMMETRY Symmetry
INVARIANTS
  CbInv
  WaitsCanEnd
