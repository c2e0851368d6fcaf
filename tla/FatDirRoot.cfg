CONSTANTS
  Root = root
  Empty = empty
  Other = other
  Closed = closed
  Absent = absent
  Dirs = {root}
  Names = {a, b, c}
  Clusters = {k1, k2, k3, k4, k5}
  Handles = {h1}
  PerCluster = 2
  Taken = 2
  MaxSize = 2
  FixedRoot = FALSE
  Uses = {}
SPECIFICATION Spec
SYMMETRY Symmetries
INVARIANTS
  SizeRecorded
  NoLeaks
PROPERTIES
  EntriesKept
  ImplementsNameSpace
