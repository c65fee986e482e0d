SPECIFICATION Spec
CONSTANTS
  k1 = k1
  w1 = w1
  w2 = w2
  w3 = w3
  a = a
  b = b
  None = None
  Commands <- OneCommand
  Workers <- TwoWorkers
  Targets <- TwoTargets
  MaxContent = 1
  MaxFaults = 2
  Sequential = TRUE
  Ops = {"start", "stop"}
  Faults = {}
CHECK_DEADLOCK FALSE
INVARIANTS
  StatusIsStored
