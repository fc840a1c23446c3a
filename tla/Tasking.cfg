SPECIFICATION FairSpec
CONSTANTS
  MaxTasks = 8
INVARIANTS
  TypeOK
  RingClosed
  AloneNotSwitched
  LinksSet
PROPERTIES
  TaskNewReturns
CHECK_DEADLOCK FALSE
