SPECIFICATION SMSpec
CONSTANTS
  Server = {s1, s2, s3}
  Thread = {t1, t2}
  Nobody = Nobody
  UIntMax = 5
  NumChunks = 4
  MaxEntries = 4
  MaxConfigNum = 4
  MoveShard <- MCMoveShard
SYMMETRY MCSymmetry
CHECK_DEADLOCK FALSE
INVARIANT NoDuplicateEntries
