SPECIFICATION Spec
CONSTANTS
  t1 = t1
  t2 = t2
  f1 = f1
  i1 = i1
  s1 = s1
  c1 = c1
  c2 = c2
  p1 = p1
  text1 = text1
  Nil = Nil
  Gone = Gone
  Keep = Keep
  Themes = {t1, t2}
  Presets = {p1}
  Fonts = {f1}
  Icons = {i1}
  Services = {s1}
  CommandIds = {c1, c2}
  Texts = {text1}
  Names = {"n"}
  Pictures = {"A", "B"}
  Default = p1
  Drafts <- MCDrafts
  MaxThemes = 2
  MaxFonts = 1
  MaxFontStorage = 1
  MaxRevision = 3
  MaxEdits = 2
  MaxCommands = 2
SYMMETRY MCSymmetry
CHECK_DEADLOCK FALSE
INVARIANTS
  ReferencesResolve
  AppliedOnce
  RepliesTruthful
PROPERTIES
  BrandPictureStable
