SPECIFICATION MCAloneOnly
CONSTANTS
  Writers = {w1, w2, api}
  Dispatchers = {api}
  MaxEvents = 4
  NumHandlers = 3
  BatchSize = 2
  Poison <- MCPoison
  MaxFaults = 1
  Arrivals <- MCDepartures
  MaxArrivals = 1
  Lines = {frt, baf}
  Fees = {}
INVARIANT
  AccrualComplete
