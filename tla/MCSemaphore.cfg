CONSTANTS
  t1 = t1  t2 = t2  t3 = t3
  Thread = {t1, t2, t3}
  MaxRequest = 2
  MaxReleased = 3
SPECIFICATION FairSpec
INVARIANT SemInv
PROPERTIES CountingSpec NoSleepOnFreePermit RetractionEnds
CHECK_DEADLOCK FALSE
