CONSTANTS
  Mod = 3
  StatsReset = TRUE
  MaxEvents = 2
  MaxBoots = 1
SPECIFICATION Spec
INVARIANTS
  TotalsAreReal
