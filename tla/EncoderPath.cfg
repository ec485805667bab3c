CONSTANTS
  porsche = porsche
  DETENT_DIV = 4
  INT8_MAX = 1
  MaxStep = 2
  MaxPos = 9
  MaxIllegal = 1
  MaxSkips = 2
  MaxRepeats = 2
  AllOnes = AllOnes
  AxisSig <- MCAxisSig
  HOLD = 2
  LATE = 0
  Idents <- MCIdents
  STALE_MS = 2
  CounterMod = 1
  NoFrame = NoFrame
SPECIFICATION Spec
INVARIANTS
  Accounting
  
