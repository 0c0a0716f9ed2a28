CONSTANTS
  Tasks = {t1, t2}
  Outputs = {v1, Elapsed}
  Elapsed = Elapsed
  None = None
  MaxTime = 2
  MaxDrains = 2
SPECIFICATION Spec
INVARIANTS
  NoLostWakeup
  NoSpuriousTimeout
PROPERTIES
  AlwaysCompletes
  ImplementsCompletion
  KeepsContract
CHECK_DEADLOCK FALSE
