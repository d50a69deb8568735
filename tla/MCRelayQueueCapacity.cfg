\* Expired leases come back to a buffer that has filled up meanwhile.
CONSTANTS
  Keys = {k1}
  NoKey = NoKey
  MaxEntries = 2
  EntryTTL = 4
  Lease = 2
  Batches = {1, 2}
  Skew = 0
  MaxId = 4
  MaxTime = 5
SPECIFICATION Spec
INVARIANT WithinCapacity
CHECK_DEADLOCK FALSE
