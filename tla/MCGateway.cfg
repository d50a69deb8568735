\* Notifications for two devices; one attempt may be abandoned while the next one
\* runs, and some device may meet one mishap.
CONSTANTS
  d1 = d1
  d2 = d2
  u = u
  Devices = {d1, d2, u}
  Listings <- Pairs
  Unknown = {u}
  RejectUnknown = TRUE
  HasEventId = TRUE
  Attempts = {a1, a2}
  MaxGiveUps = 1
  MaxMishaps = 1
SPECIFICATION Spec
INVARIANT RepeatsHaveReasons
INVARIANT OnlyDeadRejected
INVARIANT SuccessIsComplete
PROPERTY EventuallyAnswered
CHECK_DEADLOCK FALSE
