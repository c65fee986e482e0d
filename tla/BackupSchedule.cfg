SPECIFICATION PartsSpec
CONSTANTS
  Interval = 9
  Debounce = 3
  RetryBase = 1
  RetryCap = 8
  MaxDuration = 2
  MaxIdle = 16
  d1 = d1
  d2 = d2
  s1 = s1
  s2 = s2
  r1 = r1
  r2 = r2
  v1 = v1
  v2 = v2
  f1 = f1
  f2 = f2
  q1 = q1
  Contexts <- TwoContexts
  Sessions <- TwoSessions
  Restorers <- TwoProcesses
  Transcripts <- TwoContents
  Publishers <- TwoProcesses
  Readers <- OneReader
  Files <- TwoFiles
  FileContents <- TwoContents
  None = None
  Torn = Torn
  Calm = TRUE
  MaxRestores = 2
  MaxTurns = 1
  MaxPublications = 3
  MaxReads = 1
  MaxEdits = 1
  MaxFaults = 1
SYMMETRY Symmetry
INVARIANTS
  HarnessTypeOK
  EventsServed
  ScheduleKept
  RestoreHonest
  ArtifactsExact
PROPERTIES
  NothingReplaced
