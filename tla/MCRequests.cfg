\* Notifications with and without each kind of field to pairs of devices of every
\* backend, and subscriptions on every host of up to five letters.
CONSTANTS
  Notifications <- MCNotifications
  Settings <- MCSettings
  Loopback <- MCLoopback
  NoKey = NoKey
  None = None
SPECIFICATION TransferSpec
INVARIANT RelayTransparent
INVARIANT OnlyCountsCoalesce
INVARIANT SameMetadata
INVARIANT EndpointsByLabel
CHECK_DEADLOCK FALSE
