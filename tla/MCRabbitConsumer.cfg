SPECIFICATION FairSpec
CONSTANTS
  Events = {e1, e2}
  Prefetches = {1, 2}
  NoEvent = NoEvent
  MaxLosses = 1
INVARIANTS
  ReturnsWholeStory
  BlockedByFirst
PROPERTY RunEnds
