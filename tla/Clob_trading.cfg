SPECIFICATION ReaderSpec
CONSTANTS
  Traders = {t1, t2}
  NoPrice = NoPrice
  NoSweep = NoSweep
  NumSeats = 2
  BookCapacity = 2
  U64Max = 7
  QuoteLotsPerLotPerTick = 1
  TakerFeeBps = 5000
  BaseAtomsPerBaseLot = 1
  QuoteAtomsPerQuoteLot = 1
  Packets <- TradingPackets
  Ladders <- None
  Swaps <- None
  Amounts = {0, 3}
  CancelLimits = {}
  MaxCancels = 0
  MaxSequence = 3
SYMMETRY MCSymmetry
INVARIANTS
  Conservation
  LockedFundsBackOrders
  SettlementCannotFail
  SweepPredictsFill
  AccountReadsTrue
PROPERTIES
  PriceTimePriority
  FillsSettleExactly
  CrossedOnlyAfterEarlyStop
