SPECIFICATION FairSpec
CONSTANTS
  Traders = {t1, t2}
  NoPrice = NoPrice
  NumSeats = 2
  BookCapacity = 2
  U64Max = 11
  QuoteLotsPerLotPerTick = 1
  TakerFeeBps = 5000
  BaseAtomsPerBaseLot = 2
  QuoteAtomsPerQuoteLot = 1
  Packets <- QuotingPackets
  Ladders <- Ladders1
  Swaps <- SwapRequests
  Amounts = {4}
  CancelLimits = {1}
  MaxCancels = 1
  MaxSequence = 3
INVARIANTS
  VaultsHoldDeposits
  EveryOrderHasALiveOwner
  ExitIsOpen
  SweepTakesBestFirst
  TypeOK
PROPERTIES
  SwapReturnsItsSeat
  PostOnlyNeverCrosses
  StaleIdsStayDead
  InstructionsEnd
