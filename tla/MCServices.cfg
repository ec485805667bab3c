CONSTANTS
  DEPTH = 2
  WrMod = 4
  MaxRecords = 6
  Subtrees <- MCSubtrees
  Chord = "clutch_mode"
  Values = {0, 1}
  Default = 0
  Absent = Absent
  Mod = 2
  StatsReset = FALSE
  MaxEvents = 2
  MaxBoots = 2
  WDT_MS = 4
  InitTime = 5
  CommitTime = 5
  DIGITS = 2
  Texts <- MCTexts
  Banner <- MCBanner
  Fastboot = FALSE
  Segments = {0, 80, 129, 208}
  Typed = {"5", "?"}
  LAT_RING = 3
  IdxMod = 6
  PCT = 60
  Latencies = {1, 2}
SPECIFICATION Spec
INVARIANTS
  DumpIsTail
  PostMortem
  AckedIsDurable
  ExactTotals
  DeferredIsSafe
  TextTells
  PercentileIsReal
PROPERTIES
  CommittedSurvives
  LockFreezes
  ResetIsDeserved
  Shows
