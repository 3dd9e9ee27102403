SPECIFICATION SpacedSpec
CONSTANTS
  Server = {s1, s2}
  Thread = {t1}
  Nobody = Nobody
  UIntMax = 3
  NumChunks = 2
  MaxEntries = 2
  MaxConfigNum = 5
  MoveShard <- MCMoveShard
  k1 = k1
  k2 = k2
  Key = {k1, k2}
  Value = {v1}
  ChunkOf <- MCChunkOf
  NoValue = NoValue
  Client = {c1}
  PoolThread = {p1, p2}
INVARIANTS TypeOK AckedAtOwner NoStrayCopies DeletedStaysDeleted
PROPERTIES EventuallySettled
CHECK_DEADLOCK FALSE
