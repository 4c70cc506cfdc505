\* Two writers that lock once each.
CONSTANTS
  w1 = w1
  w2 = w2
  Free = Free
  Writers = {w1, w2}
  Readers = {}
  MaxCalls = 1
SPECIFICATION FairSpec
CHECK_DEADLOCK FALSE
PROPERTY WaitersSignalled
