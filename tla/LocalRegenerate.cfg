SPECIFICATION ScenarioSpec
CONSTANTS
  a = a
  b = b
  k = k
  p1 = p1
  p2 = p2
  v1 = v1
  v2 = v2
  n1 = n1
  n2 = n2
  None = None
  Torn = Torn
  States <- TwoStates
  Knowledge <- OneKnowledge
  Existing <- OneState
  Procs <- OneProc
  Versions <- TwoVersions
  Names <- TwoNames
  Ops <- AllOps
  Calm = TRUE
  MaxOps = 5
  MaxCrashes = 1
  MaxFailures = 1
SYMMETRY Symmetry
PROPERTIES
  AlwaysKept
CHECK_DEADLOCK FALSE
