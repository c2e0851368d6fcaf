CONSTANTS
  Blocks = {b1, b2, b3}
  GetBlocks = {}
  Vals = {v1, v2}
  Junk = junk
  Clients = {c1}
  NoClient = noClient
  NoBlock = noBlock
  MaxBuf = 2
SPECIFICATION Spec
INVARIANTS
  SyncedOnDisk
  FlushedOnDisk
PROPERTY ImplementsStore
