SPECIFICATION FairSpec
CONSTANTS
  TapeCapacity = 2
  ViewerTape = 2
  BroadcastCapacity = 1
  WireCapacity = 1
  TradeCounts = {0, 2}
  MaxSlot = 2
  MaxChanges = 2
  MaxOthers = 1
  MaxInbox = 1
  MaxBreaks = 1
CHECK_DEADLOCK FALSE
INVARIANTS
  BookIsTrue
  TapeIsComplete
PROPERTY FeedKeepsUp
