SPECIFICATION Spec
CONSTANTS
  m1 = m1
  m2 = m2
  s1 = s1
  s2 = s2
  s3 = s3
  NoSignature = NoSignature
  Markets = {m1}
  Signatures = {s1, s2}
  MarketOf <- OneMarket
  Fills <- SweepThenOne
  PendingCapacity = 4
  TapeCapacity = 9
  MaxSlot = 3
  MaxDead = 0
  MaxFailing = 1
  MaxStoreErrors = 1
  MaxReconnects = 1
  MaxCrashes = 0
CHECK_DEADLOCK FALSE
PROPERTY StreamKeepsTheContract
