\* A Receiver that is dropped while its waker is registered.
CONSTANTS
  Tasks = {t1, t2}
  Values = {v1, v2}
  None = None
  Closed = Closed
  InlineExecutor = TRUE
  WakersMayPanic = TRUE
  SenderTask = None
SPECIFICATION Spec
INVARIANT WakerIsOfAWaiter
CHECK_DEADLOCK FALSE
