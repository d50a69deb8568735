\* The same instance.
CONSTANTS
  Notifications <- MCNotifications
  Settings <- MCSettings
  Loopback <- MCLoopback
  NoKey = NoKey
  None = None
SPECIFICATION TransferSpec
INVARIANT BadgeFollowsCounts
CHECK_DEADLOCK FALSE
