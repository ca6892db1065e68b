SPECIFICATION MutexSpec
CONSTANTS
  t1 = t1
  t2 = t2
  t3 = t3
  m1 = m1
  m2 = m2
  User = {t1, t2, t3}
  Idle0 = idle0
  Idle1 = idle1
  NoThread = NoThread
  Obj = {m1}
  NoObj = NoObj
  UserPrio = {1, 2}
  IdlePrio = 9
  Guest = {"CreateThread", "StartThread", "CreateMutex", "DeleteMutex", "LockMutex", "TryLockMutex", "UnlockMutex", "CancelMutex", "ReferMutexStatus", "ReleaseWaitThread", "ExitThread", "TerminateDeleteThread", "SuspendThread", "ResumeThread"}
  OnlyRunning = {}
  MaxTimer = 1
  MaxWakeup = 0
  Priorities = {TRUE, FALSE}
  Recursives = {TRUE}
  LockCounts = {1, 2}
  MaxLevel = 2
SYMMETRY Symmetry
INVARIANTS
  MutexInv
  WaitsOnlyIfLocked
PROPERTIES
  OnlyOwnerGivesUp
