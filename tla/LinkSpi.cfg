CONSTANTS
  off = off
  press = press
  porsche = porsche
  Inputs <- MCInputs
  Neutral = off
  Idents <- MCIdents
  STALE_MS = 1
  CounterMod = 2
  NoFrame = NoFrame
  AtLastByte = FALSE
SPECIFICATION FairSpec
PROPERTIES
  TransferImmutable
  FailQuiet
