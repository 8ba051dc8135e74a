SPECIFICATION FairSpec
CONSTANTS
  bot = bot
  other = other
  Traders = {bot, other}
  Wallet = bot
  NoPrice = NoPrice
  NumSeats = 2
  BookCapacity = 6
  U64Max = 15
  QuoteLotsPerLotPerTick = 1
  TakerFeeBps = 0
  BaseAtomsPerBaseLot = 1
  QuoteAtomsPerQuoteLot = 1
  Reference = 4
  HalfSpread = 2
  LevelStep = 1
  Levels = 1
  LevelSize = 1
  TargetBase = 4
  InventoryLimit = 1
  MaxSkew = 1
  DriftTolerance = 0
  StartBase = 4
  StartQuote = 7
  Quotes <- QuotesEverywhere
  TakeSizes = {1}
  ShutdownCancelLimit = 4
  TransactionRoom = 86
  MaxMoves = 3
  MaxLostReplies = 1
CHECK_DEADLOCK FALSE
INVARIANTS
  FreshRefreshSettles
  PositionIsBounded
  QuotesDoNotOutliveTheBot
PROPERTIES
  RefreshIsAllOrNothing
  QuotesSettle
