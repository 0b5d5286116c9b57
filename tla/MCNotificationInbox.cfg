CONSTANTS
  Identities = {i1, i2, i3}
  Payloads = {p1}
  Services = {s1, s2}
  None = None
  MaxInboxSize = 2
  Retention = 1
  PageLimit = 1
  Readers = {c1}
  MaxLag = 1
  MaxClock = 2
  MaxSequence = 3
SPECIFICATION Spec
SYMMETRY Symmetry
INVARIANTS
  ScanMissesNothing
PROPERTIES
  NoSecondCopy
  ImplementsDedupInbox
