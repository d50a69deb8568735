\* The client asks for a longer hold than the server grants and for batches of
\* nothing; the longest sleep is no power of two of the first.
CONSTANTS
  Timeout = 3
  MaxBatch = 0
  HoldCap = 2
  BatchCap = 2
  Slack = 2
  CheckTimeout = 1
  AckTimeout = 2
  FirstBackoff = 1
  MaxBackoff = 5
  MaxLag = 1
  DeliverTime = 2
  MaxArrivals = 2
  MaxStreak = 3
SPECIFICATION Spec
INVARIANT BackoffDoubles
INVARIANT PolledPromptly
PROPERTY IdleIsNoError
PROPERTY FetchedEventually
