CONSTANTS
  Tasks = {t1, t2}
  Outputs = {v1, v2, e1, e2}
  Errs = {e1, e2}
  None = None
SPECIFICATION Spec
INVARIANTS
  NoLostWakeup
  OutputsHeldOnce
  ErrorBias
PROPERTIES
  ImplementsCompletion
  KeepsContract
CHECK_DEADLOCK FALSE
