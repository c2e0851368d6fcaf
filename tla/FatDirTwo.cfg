CONSTANTS
  Root = root
  Empty = empty
  Other = other
  Closed = closed
  Absent = absent
  Dirs = {root, sub}
  Names = {a, b}
  Clusters = {k1, k2, k3}
  Handles = {h1, h2}
  PerCluster = 1
  Taken = 0
  FixedRoot = TRUE
  MaxSize = 1
  Uses = {"recreate", "overwrite", "self", "stale", "remount", "reuse"}
SPECIFICATION Spec
SYMMETRY Symmetries
CONSTRAINT OneOpenIfAged
INVARIANT
  StartsOwned
PROPERTY
  RenameKeeps
