CONSTANTS
  Files = {f1, f2}
  NoFile = noFile
  MaxCluster = 6
  MaxFat = 4084
  Half = 16
  Hints = {0}
  FsFree = 0
  Word = 32
  Volumes <- MCSound
SPECIFICATION Spec
INVARIANTS
  NoLeaks
