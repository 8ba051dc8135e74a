SPECIFICATION Spec
CONSTANTS
  m1 = m1
  m2 = m2
  s1 = s1
  s2 = s2
  s3 = s3
  NoSignature = NoSignature
  Markets = {m1, m2}
  Signatures = {s1, s2}
  MarketOf <- TwoMarkets
  Fills <- SweepThenOne
  PendingCapacity = 4
  TapeCapacity = 9
  MaxSlot = 3
  MaxDead = 1
  MaxFailing = 0
  MaxStoreErrors = 0
  MaxReconnects = 0
  MaxCrashes = 1
CHECK_DEADLOCK FALSE
INVARIANTS
  StoreIsTrue
  TapeIsTrue
  CheckpointsMatchChain
