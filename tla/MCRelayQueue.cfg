\* Two slots and five entries, badges of one key or events.  A lease (1) runs out
\* before the TTL (2), twice before the clock ends; two leases that come back overfill
\* the buffer by more than one before the last arrival.
CONSTANTS
  Keys = {k1}
  NoKey = NoKey
  MaxEntries = 2
  EntryTTL = 2
  Lease = 1
  Batches = {1, 2}
  Skew = 0
  MaxId = 5
  MaxTime = 3
SPECIFICATION Spec
INVARIANT HeldOnce
INVARIANT BadgeIndexExact
INVARIANT FreshInOrder
PROPERTY HandsOutCurrent
PROPERTY NothingLostSilently
PROPERTY LeaseExclusive
PROPERTY ArrivalRestoresCapacity
PROPERTY LifecycleSpec
CHECK_DEADLOCK FALSE
