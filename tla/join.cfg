CONSTANTS
  Tasks = {t1, t2}
  Outputs = {v1, v2}
  None = None
SPECIFICATION Spec
INVARIANTS
  NoLostWakeup
  OutputsHeldOnce
PROPERTIES
  ImplementsCompletion
  KeepsContract
CHECK_DEADLOCK FALSE
