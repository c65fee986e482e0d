SPECIFICATION WriterSpec
CONSTANTS
  p1 = p1
  p2 = p2
  q1 = q1
  c1 = c1
  c2 = c2
  h1 = h1
  h2 = h2
  h3 = h3
  None = None
  Client = Client
  Torn = Torn
  Pushers <- TwoPushers
  Readers <- OneReader
  Helpers <- ThreeHelpers
  Contents <- TwoContents
  Calm = TRUE
  MaxPushes = 2
  MaxFaults = 2
  MaxKills = 1
SYMMETRY Symmetry
INVARIANTS
  VolumeTypeOK
  PointerComplete
  AnswersAreCurrent
  MaterializedExact
CHECK_DEADLOCK FALSE
