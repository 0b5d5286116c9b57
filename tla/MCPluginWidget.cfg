CONSTANTS
  Requests = {q1, q2}
  None = None
  MaxRevision = 2
  MaxPlacement = 2
  MaxObserved = 2
  MaxChildren = 2
SPECIFICATION Spec
SYMMETRY Symmetry
INVARIANTS
  ShownNotStale
  GrantsConfigured
