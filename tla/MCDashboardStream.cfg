CONSTANTS
  w1 = w1
  w2 = w2
  host = host
  service = service
  Widgets = {w1, w2}
  Kinds = {host, service}
  KindOf <- MCKindOf
  Data = {d1, d2}
  NoData = NoData
  NoSnapshot = NoSnapshot
  MaxRevision = 2
  MaxConnections = 2
  MaxChanges = 5
SPECIFICATION StreamSpec
SYMMETRY Symmetry
INVARIANTS
  PageOfOneLayout
PROPERTIES
  FailureKeepsValues
