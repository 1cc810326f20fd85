SPECIFICATION FairSpec
CONSTANTS
  Writers = {w1, w2}
  MaxEvents = 3
  Dispatchers = {d1, d2}
  NumHandlers = 2
  BatchSize = 2
  Poison <- MCPoison
  MaxFaults = 1
INVARIANTS
  WatermarkSound
PROPERTIES
  ImplementsOrderedDelivery
  EventuallyHandled
