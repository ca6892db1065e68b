SPECIFICATION SemaFairSpec
CONSTANTS
  t1 = t1
  t2 = t2
  t3 = t3
  s1 = s1
  s2 = s2
  User = {t1, t2}
  Idle0 = idle0
  Idle1 = idle1
  NoThread = NoThread
  Obj = {s1}
  NoObj = NoObj
  UserPrio = {1}
  IdlePrio = 9
  Guest = {"CreateThread", "StartThread", "CreateSema", "SignalSema", "WaitSema", "SuspendThread", "ResumeThread", "SuspendDispatchThread", "ResumeDispatchThread","DelayThread"}
  OnlyRunning = {}
  MaxTimer = 1
  MaxWakeup = 1
  MaxCounts = {1}
  Attrs = {FALSE}
  Counts = {1}
PROPERTIES
  TimedSemaWaitEnds
  DelayEnds
