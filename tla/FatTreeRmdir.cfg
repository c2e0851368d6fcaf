CONSTANTS
  Root = root
  NoCluster = noCluster
  Blank = blank
  Empty = empty
  Other = other
  Nothing = nothing
  Clusters = {k1, k2, k3}
  FixedRoot = TRUE
  Names = {"a", "b", "long"}
  Sfn <- Shorten
  PathTexts <- Texts
  MaxCut = 2
  Slots = 3
  PerBlock = 2
  Bytes <- Blanks
  Uses = {"blind"}
SPECIFICATION Spec
SYMMETRY Symmetries
PROPERTY RmdirOnlyEmpty
CHECK_DEADLOCK FALSE
