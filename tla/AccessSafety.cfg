SPECIFICATION Spec
CONSTANTS
  t1 = t1
  t2 = t2
  owner = owner
  admin = admin
  n1 = n1
  p1 = p1
  None = None
  Threads <- TwoThreads
  Subjects <- OwnerAndAdmin
  Administrator = admin
  Owner = owner
  Names <- OneName
  GrantSets <- OneGrant
  Pods <- OnePod
  MaxAudit = 2
  MaxUid = 2
  MaxChanges = 2
  MaxTries = 2
  Ops = {"grant", "consumer", "delete", "force"}
  Faults = {"conflict", "reply"}
CONSTRAINT Apart
SYMMETRY ThreadSymmetry
INVARIANTS
  TypeOK
  NoChangeLost
  AuditIsRecentHistory
PROPERTIES
  DeletionSparesSteadyConsumers
