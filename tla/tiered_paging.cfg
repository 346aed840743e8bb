SPECIFICATION Spec
CONSTANTS
  GpuBlocks = {g1, g2, g3}
  LastBlock = g3
  CpuBlocks = {c1, c2, c3}
  Hole = hole
  SeqIds = {s1, s2, s3}
  g1 = g1
  g2 = g2
  g3 = g3
  c1 = c1
  c2 = c2
  c3 = c3
  s1 = s1
  s2 = s2
  s3 = s3
  BlockSize = 1
  GpuWindow = 1
  MaxLen = 3
  GrowBy = 1
  LongContexts = FALSE
  Snapshots = FALSE
  Nobody = nobody
SYMMETRY Symmetry
INVARIANTS
  TypeOK
  PlacedOnce
  ReadyMeansResident
  RowsFresh
PROPERTIES
  RefusedOnlyWhenFull
  ImplementsPrivateSequences
