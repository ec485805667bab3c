CONSTANTS
  porsche = porsche
  DETENT_DIV = 1
  INT8_MAX = 1
  MaxStep = 1
  MaxPos = 9
  MaxIllegal = 1
  MaxSkips = 1
  MaxRepeats = 1
  AllOnes = AllOnes
  AxisSig <- MCAxisSig
  HOLD = 2
  LATE = 0
  Idents <- MCIdents
  STALE_MS = 2
  CounterMod = 1
  NoFrame = NoFrame
SPECIFICATION Spec
INVARIANTS
  NoDetentLost
