\* Two polls compete for two arrivals, one entry at a time.
CONSTANTS
  Pollers = {p1, p2}
  Entries = {e1, e2}
  Max = 1
  MaxLapses = 1
SPECIFICATION Spec
INVARIANT NoMissedArrival
PROPERTY ArrivalsGoOut
PROPERTY EveryPollAnswered
PROPERTY RedeliveryHappens
