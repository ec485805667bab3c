CONSTANTS
  off = off
  porsche = porsche
  Inputs <- MCInputs
  Neutral = off
  Idents <- MCIdents
  STALE_MS = 1
  CounterMod = 8
  NoFrame = NoFrame
  AtLastByte = FALSE
  FaultNs = {1, 2}
  MaxTxn = 2
  MaxFailures = 1
SPECIFICATION BenchSpec
INVARIANTS
  Reconciles
  CountedOnce
