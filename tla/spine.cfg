SPECIFICATION MCSpec
CONSTANTS
  Writers = {w1, w2, api1, api2}
  Dispatchers = {api1, api2}
  MaxEvents = 7
  NumHandlers = 3
  BatchSize = 2
  Poison <- MCPoison
  MaxFaults = 2
  Arrivals <- MCArrivals
  MaxArrivals = 2
  Lines = {frt}
  Fees = {plf}
INVARIANTS
  RowsPerInstance
  ProjectionConverges
  LedgerReconciles
SYMMETRY MCSymmetry
