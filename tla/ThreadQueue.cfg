CONSTANTS
  Thieves = {s1, s2}
  NUMBER_OF_ITEMS = 2
  Width = 8
  MaxPush = 4
SPECIFICATION FairSpec
INVARIANTS HandedOutOnce RoomWhenPushing NoWorkLeftBehind
PROPERTIES ImplementsDeque PopReturns
