SPECIFICATION FairSpec
CONSTANTS
  t1 = t1
  t2 = t2
  c1 = c1
  c2 = c2
  p1 = p1
  p2 = p2
  r1 = r1
  r2 = r2
  None = None
  Client = Client
  Threads <- TwoThreads
  Caps <- OneCap
  Pods <- OnePod
  Revisions <- OneRevision
  MaxUid = 1
  MaxHistory = 1
  MaxTries = 2
  Ops = {"issue", "upload", "freeze", "publish", "export"}
  Faults = {"conflict", "cleanup", "restart", "stream", "reply"}
PROPERTIES
  RequestsEnd
  CapabilityReturns
