SPECIFICATION Spec
CONSTANTS
  Blocks = {b1, b2, b3}
  SeqIds = {s1, s2, s3}
  BlockSize = 2
  MaxLen = 3
  SharedDecode = FALSE
  Nobody = Nobody
CONSTRAINT SnapshotsOfTwo
SYMMETRY Symmetry
INVARIANTS
  TypeOK
  BlockAccounting
  CapacityCoversLength
  CachesFresh
  TailIsPrivate
PROPERTY
  ImplementsPrivateSequences
