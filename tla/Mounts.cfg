CONSTANTS
  None = none
  Threads = {t1, t2}
  Bdevs = {b1, b2, b3}
  Caches = {c1, c2, c3}
  Supers = {s1, s2}
  UFS_MAX_BDEVS = 2
  MaxMounts = 3
SPECIFICATION Spec
SYMMETRY Symmetries
INVARIANTS
  MapSound
  NothingLeaks
  LookupOwn
  RootIsCurrent
CHECK_DEADLOCK FALSE
