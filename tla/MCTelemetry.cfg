SPECIFICATION Spec
CONSTANTS
  n1 = n1
  n2 = n2
  Nodes = {n1, n2}
  Root = Root
  NoRow = NoRow
  NoBatch = NoBatch
  MaxHosts = 2
  Day = 2
  Minute = 2
  Ahead = 1
  Fresh = 1
  MaxDrift = 1
  MaxTime = 6
  MaxCycles = 3
  Charted = {"gateway"}
  Measured = {"full"}
SYMMETRY MCSymmetry
CHECK_DEADLOCK FALSE
INVARIANTS
  SourceConsistent
  GatewayNotAhead
  ReportingIsRecent
PROPERTIES
  OnlyNewerObservations
  ChartsKeepMinutes
