\* The Sender may be owned by task t1, whose last handle may be its waker.
CONSTANTS
  Tasks = {t1, t2}
  Values = {v1, v2}
  None = None
  Closed = Closed
  InlineExecutor = TRUE
  WakersMayPanic = TRUE
  SenderTask = t1
SPECIFICATION Spec
PROPERTIES
  ImplementsOneShot
  ImplementsLeaf
  KeepsContract
CHECK_DEADLOCK FALSE
