CONSTANTS
  Root = root
  NoCluster = noCluster
  Blank = blank
  Empty = empty
  Other = other
  Nothing = nothing
  Clusters = {k1, k2, k3}
  FixedRoot = FALSE
  Names = {"a", "b", "long"}
  Sfn <- Shorten
  PathTexts <- Texts
  MaxCut = 2
  Slots = 3
  PerBlock = 2
  Bytes <- Blanks
  Uses = {}
SPECIFICATION Spec
SYMMETRY Symmetries
INVARIANTS
  UsedOnce
  SyncedSurvives
  PathsAgree
 
CHECK_DEADLOCK FALSE
