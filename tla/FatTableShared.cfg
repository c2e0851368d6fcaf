CONSTANTS
  Files = {f1, f2}
  NoFile = noFile
  MaxCluster = 7
  MaxFat = 7
  Half = 0
  Hints <- MCHints
  FsFree = 0
  Word = 32
  Volumes <- MCVolumes
SPECIFICATION FairSpec
INVARIANTS
  NoCrossLinks
  NoDanglingLinks
  NoLeaks
  FreeCounted
  ScanInside
PROPERTIES
  NoSpaceIsReal
  LockReleased
