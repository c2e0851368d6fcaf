CONSTANTS
  Blocks = {b1, b2, b3}
  GetBlocks = {b1, b2, b3}
  Vals = {v1}
  Junk = junk
  Clients = {c1, c2}
  NoClient = noClient
  NoBlock = noBlock
  MaxBuf = 2
SPECIFICATION Spec
SYMMETRY SymmetryAll
INVARIANTS
  LruSound
  ReferencesHold
  FlushWalksTheList
