CONSTANTS
  CommandLines <- MCCommandLines
  Configs <- MCConfigs
  Defaults <- MCDefaults
  Unset = Unset
  Empty = Empty
  Missing = Missing
  Malformed = Malformed
  Broken = Broken
  Opaque = {t3}
  MaxOpen = 2
  top = top
  named = named
  t1 = t1
  t2 = t2
  t3 = t3
  key = key
SPECIFICATION Spec
INVARIANT FailsFast
INVARIANT ReachedAsConfigured
INVARIANT TokensMeet
PROPERTY ShutdownCompletes
CHECK_DEADLOCK FALSE
