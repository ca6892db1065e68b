SPECIFICATION Spec
CONSTANTS
  t1 = t1
  t2 = t2
  t3 = t3
  User = {t1, t2}
  Idle0 = idle0
  Idle1 = idle1
  NoThread = NoThread
  Obj = {}
  NoObj = NoObj
  UserPrio = {1, 2}
  IdlePrio = 9
  Guest = {"CreateThread", "StartThread", "ReturnFromThread", "ExitThread", "ExitDeleteThread", "DeleteThread", "TerminateDeleteThread", "TerminateThread", "RotateThreadReadyQueue", "ChangeThreadPriority", "DelayThread", "WakeupThread", "CancelWakeupThread", "SleepThread", "WaitThreadEnd", "ReleaseWaitThread", "SuspendThread", "ResumeThread", "SuspendDispatchThread", "ResumeDispatchThread"}
  OnlyRunning = {"RotateThreadReadyQueue", "ReturnFromThread"}
  MaxTimer = 1
  MaxWakeup = 1
SYMMETRY Symmetry
INVARIANTS
  Inv
  ReadyQueueExact
  OnlyRunnableRuns
  NeverOutOfThreads
  JoinsAndDelaysCanEnd
  NoLostWakeup
PROPERTIES
  RescheduleRunsBest
