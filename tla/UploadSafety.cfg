SPECIFICATION ScenarioSpec
CONSTANTS
  t1 = t1
  t2 = t2
  c1 = c1
  c2 = c2
  p1 = p1
  p2 = p2
  r1 = r1
  r2 = r2
  None = None
  Client = Client
  Threads <- TwoThreads
  Caps <- TwoCaps
  Pods <- TwoPods
  Revisions <- TwoRevisions
  MaxUid = 2
  MaxHistory = 2
  MaxTries = 2
  Ops = {"issue", "upload", "publish", "freeze", "export"}
  Faults = {"stream", "cleanup", "conflict", "reply", "restart"}
SYMMETRY FullSymmetry
INVARIANTS
  TypeOK
  FreezeExcludesUpload
  PublishedOnce
  UploadedIsMaterialized
  ExportReadsPinned
  ImportsSerial
PROPERTIES
  FrozenNeverMoves
  RegisterSpec
