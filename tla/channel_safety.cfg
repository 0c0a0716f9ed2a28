\* A Sender on a thread of its own; wakers that poll inline and wakers that panic.
CONSTANTS
  Tasks = {t1, t2, t3}
  Values = {v1, v2}
  None = None
  Closed = Closed
  InlineExecutor = TRUE
  WakersMayPanic = TRUE
  SenderTask = None
SPECIFICATION Spec
SYMMETRY Symmetry
INVARIANTS
  TypeOK
  NoLostWakeup
  OutcomeIsWhatWasSent
  NoSelfDeadlock
  PoisonEndsTheChannel
PROPERTY WakesTheLastRegistrantOnce
CHECK_DEADLOCK FALSE
