CONSTANTS
  c1 = c1  c2 = c2
  b1 = b1  b2 = b2  b3 = b3
  NoBlock = NoBlock
  Consumer = {c1, c2}
  Block = {b1, b2, b3}
  BLOCK_SIZE = 2
  IMPLICIT_INITIAL_INDEX_SIZE = 2
  EXPLICIT_INITIAL_INDEX_SIZE = 2
  IndexMod = 16
  Setup <- MCSetup
  MaxItems = 5
  BulkSize = {3}
  ExplicitItems = 5
  ExplicitBulk = {4}
  MaxHeaders = 2
  MaxOvercommit = 1
  BulkFails = FALSE
  BoundaryThrows = FALSE
SYMMETRY MCSymmetry
SPECIFICATION Spec
INVARIANTS ClaimsInv TakesOwnItems IndexLeadsToItems 
CHECK_DEADLOCK FALSE
