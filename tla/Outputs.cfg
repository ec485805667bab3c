CONSTANTS
  Leds = {0, 1}
  Disps = {0, 1}
  PWR_STALE_MS = 5
  LED_QUIET_MS = 5
  LED_MIN_PERIOD_MS = 3
  OUTPUT_MIN_REFRESH_MS = 2
  STALL = 1
  RXQ = 1
SPECIFICATION Spec
INVARIANTS
  LitIsRecent
  ShownIsLatest
PROPERTIES
  RateLimited
  RailSteady
