CONSTANTS
  Connections = {a}
  Revisions = {r1, r2}
  None = None
  Publications = {p1, p2}
  MaxConcurrent = 1
  MaxCalls = 3
CHECK_DEADLOCK FALSE
SPECIFICATION FairSpec
INVARIANTS
  CommitsUnderAuthority
  PublisherConnected
  NoCallbackLeaked
  OldPublishersRevoked
PROPERTIES
  SessionEnds
