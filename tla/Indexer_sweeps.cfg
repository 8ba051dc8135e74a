SPECIFICATION Spec
CONSTANTS
  a = a
  b = b
  swapper = swapper
  Traders = {a, b, swapper}
  Swapper = swapper
  NoPrice = NoPrice
  NumSeats = 3
  BookCapacity = 3
  U64Max = 63
  QuoteLotsPerLotPerTick = 1
  TakerFeeBps = 5000
  BaseAtomsPerBaseLot = 1
  QuoteAtomsPerQuoteLot = 1
  StartLots = 6
  Packets <- SweepingPackets
  Batches <- QuotingBatches
  Swaps <- SweepingSwaps
  Cancels = {"CancelOrder", "ReduceOrder", "CancelAllOrders"}
  MaxLoggedFills = 1
  FillWord = 4
  MaxInstructions = 1
  MaxSequence = 3
CHECK_DEADLOCK FALSE
INVARIANTS
  DerivesExactly
  CrossChecksAgree
