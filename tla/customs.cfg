SPECIFICATION MCSpec
CONSTANTS
  Writers = {c1, c2}
  Lines = {clear, vague}
  Doubtful = {vague}
  MaxEvents = 5
  MaxCalls = 5
  MaxFaults = 1
  Tabs = {t1, t2}
  Users = {u1, u2}
  Life = 2
  Skew = 1
  MaxTime = 2
  MaxSignIns = 2
  MaxSignOuts = 1
  MaxIdpFaults = 1
  Reviewers = {v1, v2}
  MaxReviews = 3
  MaxDocumentFaults = 1
  Seats <- MCSeats
  Book <- MCBook
  Agents <- MCAgents
  Registered = {"operator", "partner"}
  Aliases <- MCAliases
  Spellings <- MCSpellings
  Tariff <- MCTariff
  Lanes <- MCLanes
  GoodsValue = 100
  GoodsRates <- MCGoodsRates
  Terms = 100
  Benchmark = 3800
  Hours = 130
  MaxTicks = 1
  MaxToggles = 1
  MaxInvoices = 2
  MaxAudits = 2
  MaxDecisions = 1
  MaxPrices = 2
INVARIANTS
  StatusIsLastEvent
  NoStepInvented
  ConfirmedWhenPrepared
  SessionIsWhoSignedIn
  DocumentSettled
  ConsoleBooks
PROPERTY
  LoneCallSound
SYMMETRY MCSymmetry
CHECK_DEADLOCK FALSE
