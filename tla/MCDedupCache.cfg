\* Four keys and room for three; stamps up to two units late; the clock runs through
\* several windows, so that keys expire, come back and are evicted.
CONSTANTS
  Keys = {k1, k2, k3, k4}
  TTL = 3
  MaxEntries = 3
  Skew = 2
  MaxTime = 7
SPECIFICATION Spec
INVARIANT SpokenForOnce
INVARIANT Bounded
PROPERTY WindowAnchored
PROPERTY DeliverySpec
SYMMETRY KeySymmetry
CHECK_DEADLOCK FALSE
