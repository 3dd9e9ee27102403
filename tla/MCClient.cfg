SPECIFICATION Spec
CONSTANTS
  Server = {s1, s2, s3}
  Thread = {t1, t2}
  Nobody = Nobody
  UIntMax = 4
  NumChunks = 3
  MaxEntries = 3
  MaxConfigNum = 4
  MoveShard <- MCMoveShard
SYMMETRY MCSymmetry
INVARIANTS SMTypeOK ExclusiveOwnership SubtractIsDifference ClientInv
PROPERTIES GainIsNumbered OnlyLeaveUncovers ImplementsAssignment
