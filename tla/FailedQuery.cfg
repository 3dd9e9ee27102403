SPECIFICATION PatientSpec
CONSTANTS
  Server = {s1, s2}
  Thread = {t1}
  Nobody = Nobody
  UIntMax = 3
  NumChunks = 2
  MaxEntries = 2
  MaxConfigNum = 3
  MoveShard <- MCMoveShard
  k1 = k1
  k2 = k2
  Key = {k1}
  Value = {v1}
  ChunkOf <- MCChunkOf
  NoValue = NoValue
  Client = {c1}
  PoolThread = {p1}
  Fault = {"query"}
  MaxFaults = 1
  MaxRestartNum = 1
INVARIANT MembersKnowConfig
CHECK_DEADLOCK FALSE
