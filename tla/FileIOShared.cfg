CONSTANTS
  SecPerClus = 2
  MaxPos = 5
  Volume = 3
  Chains = {0, 1, 2}
  Volumes <- MCVolumes
  Shared = TRUE
SPECIFICATION FairSpec
INVARIANTS
  SizeBacked
PROPERTIES
  ReadComplete
  WriteEndsWithRoom
