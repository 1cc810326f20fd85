SPECIFICATION MCThreeContainers
CONSTANTS
  Clients = {c1, c2}
  carriage = carriage
  terminal = terminal
  other = other
  Charges = {carriage, terminal, other}
  ShipmentOf <- MCShipmentOf
  CurrencyOf <- MCCurrencyOf
  MaxCalls = 4
  MaxFaults = 1
  Spellings <- MCSpellings
  Staff = {s1, s2}
  Rule <- MCRule
  Lane = "CNSHA"
  MaxRules = 3
  Corrections <- MCCorrections
  MaxEdits = 4
  third = third
  Deliveries = {d1, d2, third}
  MessageOf <- MCMessageOf
  Request <- MCRequest
  Cards <- MCCards
  MaxScreenings = 1
  MaxQuoteFaults = 1
  Sales <- MCSales
  OwnSpellings <- MCOwnSpellings
  VatBps = 1500
  FeeBps = 200
  EventTypes = {"vessel.arrived", "container.discharged"}
  Benchmarks <- MCBenchmarks
  Auditors = {a1, a2}
  MaxAudits = 2
  MaxDecisions = 2
INVARIANT OwnQuoteMatches
CHECK_DEADLOCK FALSE
