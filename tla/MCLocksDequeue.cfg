SPECIFICATION Spec
CONSTANTS
  t1 = t1
  t2 = t2
  Idle = Idle
  Tasks <- TwoTasks
  Programs <- MCPrograms
  Ops <- NeverReturning
PROPERTIES
  EveryCallReturns
CHECK_DEADLOCK FALSE
