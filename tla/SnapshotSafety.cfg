SPECIFICATION Spec
CONSTANTS
  t1 = t1
  t2 = t2
  s1 = s1
  s2 = s2
  s3 = s3
  c1 = c1
  r1 = r1
  r2 = r2
  None = None
  Threads <- TwoThreads
  Collectors <- OneCollector
  Names <- ThreeNames
  Clones <- OneClone
  Revisions <- TwoRevisions
  Policies <- BothRules
  MaxClock = 2
  MaxIds = 4
  Ops = {"snapshot", "clone", "collect", "retention", "publish", "cut"}
CONSTRAINT Apart
SYMMETRY RevisionAndNameSymmetry
INVARIANTS
  TypeOK
  CloneHoldsRevision
PROPERTIES
  SteadyReferencesStay
  ProtectedStay
  NewestStay
