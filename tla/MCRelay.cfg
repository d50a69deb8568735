SPECIFICATION Spec
CONSTANTS
  Events = {e1}
  Idle = Idle
  Devices = {d1}
  Target <- MCTarget
  Configs <- MCConfigs
  Handlers = {h1, h2}
  MaxEntries = 1
  EntryTTL = 3
  Lease = 1
  Window = 2
  MaxBatch = 2
  MaxRestarts = 1
  MaxId = 2
  MaxWire = 1
  MaxPushes = 2
  MaxTime = 3
INVARIANT NothingForgotten
INVARIANT VerdictSurvives
INVARIANT OnlyDeadRejected
PROPERTY RepeatsHaveReasons
SYMMETRY MCSymmetry
CHECK_DEADLOCK FALSE
