SPECIFICATION FairSpec
CONSTANTS
  k1 = k1
  w1 = w1
  w2 = w2
  w3 = w3
  a = a
  b = b
  None = None
  Commands <- OneCommand
  Workers <- ThreeWorkers
  Targets <- OneTarget
  MaxContent = 3
  MaxFaults = 2
  Sequential = TRUE
  Ops = {"start", "run", "stop"}
  Faults = {"kill", "push", "corrupt"}
CHECK_DEADLOCK FALSE
INVARIANTS
  TypeOK
  TransfersNeverOverlap
  StatusIsStored
PROPERTIES
  BackedUp
  RemoteNeverGoesBack
  PointerMovesToVerified
