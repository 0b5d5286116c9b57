CONSTANTS
  Src = src
  Svc = svc
  Pod = pod
  Sources = {src}
  Candidates = {svc, pod}
  SourceOf <- MCSourceOf
  Refs <- MCRefs
  Manual = {man}
  Edits = {e}
  None = None
  MaxTime = 3
  MaxCalls = 1
SPECIFICATION Spec
INVARIANTS
  PresenceFollowsNewest
PROPERTIES
  ChoicesSurvive
