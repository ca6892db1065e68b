SPECIFICATION SemaSpec
CONSTANTS
  t1 = t1
  t2 = t2
  t3 = t3
  s1 = s1
  s2 = s2
  User = {t1, t2}
  Idle0 = idle0
  Idle1 = idle1
  NoThread = NoThread
  Obj = {s1}
  NoObj = NoObj
  UserPrio = {1, 2}
  IdlePrio = 9
  Guest = {"CreateThread", "StartThread", "CreateSema", "DeleteSema", "CancelSema", "ReferSemaStatus", "SignalSema", "WaitSema", "PollSema", "ReleaseWaitThread", "TerminateThread", "TerminateDeleteThread", "SuspendThread", "ResumeThread", "SleepThread"}
  OnlyRunning = {}
  MaxTimer = 1
  MaxWakeup = 1
  MaxCounts = {2}
  Attrs = {TRUE, FALSE}
  Counts = {1, 2}
SYMMETRY Symmetry
INVARIANTS
  SemaInv
  WaitersListed
PROPERTIES
  SignalServes
