SPECIFICATION Spec
CONSTANTS
  Traders = {t1, t2}
  NoPrice = NoPrice
  NumSeats = 2
  BookCapacity = 2
  U64Max = 7
  QuoteLotsPerLotPerTick = 1
  TakerFeeBps = 5000
  BaseAtomsPerBaseLot = 1
  QuoteAtomsPerQuoteLot = 1
  Packets <- ZeroPriceBids
  Ladders <- None
  Swaps <- None
  Amounts = {0, 3}
  CancelLimits = {}
  MaxCancels = 0
  MaxSequence = 3
SYMMETRY MCSymmetry
INVARIANTS
  QuotedSeatsStay
