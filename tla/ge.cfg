SPECIFICATION GeSpec
CONSTANTS
  l1 = l1
  l2 = l2
  t1 = t1
  v1 = v1
  List = {l1, l2}
  NoList = NoList
  Thread = {t1}
  SubIntr = {v1}
  OtherIntr = {"GE"}
  SubOrder <- MCSubOrder
  Programs <- MCPrograms
  OldSdk = TRUE
  MaxEvents = 2
  Guests <- MCGuests
INVARIANTS
  GeInv
  WaitersHaveWork
  SuspendWaitsForHandler
PROPERTIES
  ListSyncMeansDone
SYMMETRY Symmetry
CHECK_DEADLOCK FALSE
