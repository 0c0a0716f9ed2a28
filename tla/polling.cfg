CONSTANTS
  v = v
  zero = zero
  one = one
  two = two
  None = None
  MaxCount = 2
  MaxPolls = 5
  Given <- MCGiven
  Fut <- MCFut
  Depth <- MCDepth
SPECIFICATION Spec
INVARIANTS
  PanicsOnlyAfterReady
  DeliveredAtMostOnce
  TerminatedWhenReady
  TestsHold
PROPERTIES
  CompletesAsComposed
  PendingIsAPromise
  StaysPut
  WakesAreEnough
  YieldResumes
CHECK_DEADLOCK FALSE
