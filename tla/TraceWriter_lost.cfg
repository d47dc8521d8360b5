CONSTANTS
  c1 = c1
  c2 = c2
  c3 = c3
  noLock = noLock
  NoLock <- noLock
  Calls <- MCCalls
  Events = {}
  MainFirst = FALSE
  CanMisread = FALSE
  CanCrash = FALSE
SPECIFICATION Spec
INVARIANTS NoAppendLost
CHECK_DEADLOCK FALSE
