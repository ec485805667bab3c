CONSTANTS
  off = off
  press = press
  turn = turn
  porsche = porsche
  generic = generic
  Inputs <- MCInputs
  Neutral = off
  Idents <- MCIdents
  STALE_MS = 3
  CounterMod = 3
  NoFrame = NoFrame
SPECIFICATION Spec
INVARIANTS
  ClearedIsNeutral
PROPERTIES
  ArmedFrameImmutable
  StaleNotRepeated
  LatestDelivered
