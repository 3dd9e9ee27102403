CONSTANTS
  c1 = c1  c2 = c2
  Consumer = {c1, c2}
  initialOffset <- MCInitialOffset
  MaxProducers = 2
  Setup <- MCSetup
  MaxBulk = 2
  ScoreLimit = 1
  EXPLICIT_CONSUMER_CONSUMPTION_QUOTA_BEFORE_ROTATE = 1
  OffsetMod = 2
SPECIFICATION BFairSpec
INVARIANTS TokensInv  PermitsCountItems
 
CHECK_DEADLOCK FALSE
