CONSTANTS
  SrcA = srcA
  SrcB = srcB
  A = a
  Sources = {srcA, srcB}
  Candidates = {a}
  SourceOf <- MCSourceOf
  Refs <- MCRefs
  Discoverers <- MCDiscoverers
  Syncs = {w1, w2}
  Manual = {}
  Edits = {}
  None = None
  MaxTime = 2
  MaxCalls = 0
SPECIFICATION FedSpec
INVARIANTS
  GatewayFollowsAgent
  AcknowledgedIsApplied
PROPERTIES
  ImplementsCatalogs
