SPECIFICATION Spec
CONSTANTS
  Events = {e1, e2}
  Idle = Idle
  Devices = {d1}
  Target <- MCTarget
  Configs <- MCServedOnly
  Handlers = {h1}
  MaxEntries = 2
  EntryTTL = 3
  Lease = 1
  Window = 2
  MaxBatch = 1
  MaxRestarts = 1
  MaxId = 2
  MaxWire = 1
  MaxPushes = 2
  MaxTime = 3
PROPERTY SettledIsDisposed
CHECK_DEADLOCK FALSE
