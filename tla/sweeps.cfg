SPECIFICATION MCSpec
CONSTANTS
  first = first
  again = again
  second = second
  half1 = half1
  half2 = half2
  Deliveries = {first, again, second}
  Refs = {half1, half2}
  RefOf <- MCRefOf
  AmountOf <- MCAmountOf
  Total = 2
  MaxFaults = 1
  SlaCalls = {s1, s2}
  LadderCalls = {l1, l2}
  Milestones = {"vessel.departed", "vessel.arrived", "entry.released", "pod.confirmed"}
  Policies <- MCPolicies
  MaxTime = 2
  MaxReports = 2
  MaxDelay = 0
  MaxBehind = 2
  MaxSweepFaults = 1
  Parties = {p1, p2}
  Runs = {r1}
  Askers = {a1}
  Caps = {1, 2}
  RescreenAfter <- MCRescreenAfter
  MaxListMoves = 1
  MaxScreenFaults = 1
INVARIANTS
  OneEventPerPayment
  ChaseLadder
  RepeatOnlyWhileBehind
PROPERTIES
  LoneDeliverySettles
  EventuallyOverdue
  BreachShown
  VerdictCatchesUp
CHECK_DEADLOCK FALSE
