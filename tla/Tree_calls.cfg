SPECIFICATION TreeSpec
CONSTANTS
  Capacity = 8
  Keys = {1, 2, 3, 4, 5, 6, 7, 8, 9}
  Values = {1, 2}
  SmallArena = 3
  SmallKeys = {1, 2, 3, 4}
  MaxRemovals = 6
VIEW WithoutStaleBytes
INVARIANTS
  CheckPasses
  SoundInMidCall
PROPERTIES
  TreeIsAMap
  HandlesAreStable
  CallsReturn
