SPECIFICATION Spec
CONSTANTS
  Prices = {1, 2}
  Sizes = {1, 2}
  QuotePerTick = 3
  Intervals = {1, 2}
  MaxTrades = 3
  MaxSlot = 3
  MaxFailures = 1
  MaxCrashes = 2
  Tears = FALSE
CONSTRAINT FaultsMeetPlainFills
CHECK_DEADLOCK FALSE
INVARIANTS
  StoredExactly
  ReadsAreExact
PROPERTY StoreKeepsTheContract
