CONSTANTS
  Bytes = {0, 165}
  Flips = {0, 1, 128, 7}
  DPAD_THRESHOLDS = 3
  RAW_MAX = 31
  Thresholds <- MCThresholds
  Hysts = {0, 2}
  DPAD_DEFAULT_HYST = 1
  Raws = {0, 8, 16, 24, 31}
  min = 8
  max = 24
  guard = 3
  deadzone = 1
  iir_shift = 2
  rate_limit = 4
  rail_lo = 2
  rail_hi = 30
  OUT_MAX = 15
  SETTLE = 14
  Values = {0, 1, 2, 3}
  THR = 0
  CHORD = 2
  Bites = {1, 2}
  INPUT_NUM_BUTTONS = 2
  Samples <- MCInputSamples
  MapBits = {1, 8}
  ManualBits = {8}
  Buttons = {0, 1}
  Axes = {0, 1}
  Encs = {0, 1}
  AllOnes = AllOnes
  AxisSig <- MCAxisSig
  HOLD = 3
  LATE = 1
  Idents = {porsche}
  STALE_MS = 6
  CounterMod = 1
  NoFrame = NoFrame
SPECIFICATION Spec
PROPERTIES
  BitePointHeld
