CONSTANTS
  t1 = t1  t2 = t2  t3 = t3  p1 = p1
  Thread = {t1, t2, t3}
  FreeListUser = {t1, t2}
  HeapBlock = {h1}
  NoBlock = NoBlock
  SHOULD_BE_ON_FREELIST = 16
  NoThread = NoThread
  INITIAL_IMPLICIT_PRODUCER_HASH_SIZE = 2
  MaxTables = 3
  MaxProducers = 3
  CountMod = 1024
  MaxLength = 140
  UpdateLength = {1, 64, 119}
SPECIFICATION FairSpec
INVARIANTS FreeListInv ProducersInv DigestRight
PROPERTIES LockFree NoWaitForNobody
