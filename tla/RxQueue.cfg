CONSTANTS
  QDEPTH = 3
  MaxFrames = 6
SPECIFICATION FairSpec
INVARIANTS
  InOrder
  NewestKept
  NoLostWakeup
PROPERTIES
  EventuallyApplied
