SPECIFICATION FairSpec
CONSTANTS
  GpuBlocks = {g1, g2}
  LastBlock = g2
  CpuBlocks = {c1, c2, c3}
  Hole = hole
  SeqIds = {s1}
  g1 = g1
  g2 = g2
  c1 = c1
  c2 = c2
  c3 = c3
  s1 = s1
  BlockSize = 1
  GpuWindow = 1
  MaxLen = 4
  GrowBy = 2
  LongContexts = TRUE
  Snapshots = TRUE
  Nobody = nobody
INVARIANT
  PlacedOnce
PROPERTY
  CallsEnd
