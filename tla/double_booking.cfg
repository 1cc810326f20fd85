SPECIFICATION Spec
CONSTANTS
  Clients = {c1, c2}
  MaxFaults = 0
INVARIANT
  OneBookingPerQuote
CHECK_DEADLOCK FALSE
