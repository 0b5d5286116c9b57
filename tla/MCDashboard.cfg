CONSTANTS
  h1 = h1
  p1 = p1
  s1 = s1
  u1 = u1
  Items = {h1, p1, s1}
  SourceOf <- MCSourceOf
  UserGroups = {u1}
  Rank <- MCRank
  Styles = {plain}
  BadStyle = BadStyle
  MaxGroups = 4
  MaxRefs = 2
  Clients = {c1, c2}
  None = None
  Limit = 1
  MaxRequests = 2
  MaxToggles = 1
SPECIFICATION Spec
SYMMETRY Symmetry
CHECK_DEADLOCK FALSE
INVARIANTS
  StoredLayoutReadable
  EveryWidgetOnce
  AnswersTruthful
PROPERTIES
  EditsAsAsked
  ImplementsRegister
