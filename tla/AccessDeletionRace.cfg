SPECIFICATION Spec
CONSTANTS
  t1 = t1
  t2 = t2
  owner = owner
  admin = admin
  n1 = n1
  p1 = p1
  None = None
  Threads <- TwoThreads
  Subjects <- OnlyOwner
  Administrator = admin
  Owner = owner
  Names <- OneName
  GrantSets <- OneGrant
  Pods <- NoPods
  MaxAudit = 1
  MaxUid = 2
  MaxChanges = 2
  MaxTries = 2
  Ops = {"consumer", "delete", "force"}
  Faults = {"reply"}
SYMMETRY ThreadSymmetry
PROPERTIES
  DeletionSparesConsumers
