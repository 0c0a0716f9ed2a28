CONSTANTS
  v = v
  zero = zero
  one = one
  two = two
  None = None
  MaxCount = 2
  MaxPolls = 5
  Given <- MCGiven
  Fut <- MCFut
  Depth <- MCDepth
SPECIFICATION Spec
INVARIANT MapRepollPanics
CHECK_DEADLOCK FALSE
