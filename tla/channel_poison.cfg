\* A waker whose clone or drop panics poisons the Mutex.
CONSTANTS
  Tasks = {t1, t2}
  Values = {v1, v2}
  None = None
  Closed = Closed
  InlineExecutor = TRUE
  WakersMayPanic = TRUE
  SenderTask = None
SPECIFICATION Spec
INVARIANT PoisonPropagates
CHECK_DEADLOCK FALSE
