SPECIFICATION MCSpec
CONSTANTS
  Writers = {w1, w2}
  MaxEvents = 3
  Relays = {r1, r2}
  BatchSize = 2
  s1 = s1
  s2 = s2
  Keys = {s1, s2}
  KeyOf <- MCKeyOf
  TimeOf <- MCTimeOf
  MaxFaults = 2
  Shipments = {s1, s2}
  Carries <- MCCarries
  Feeds = {"dcsa", "first", "second", "misspelt"}
  FeedOf <- MCFeedOf
  AisMessages <- MCAisMessages
  Handlers = {h1, h2}
  MaxIngestFaults = 1
  MaxDrops = 1
  MaxHeard = 3
INVARIANTS
  StampedIsSent
  DedupedInOrder
  MilestonesRecorded
PROPERTIES
  EventuallySent
  IngestRecovers
CHECK_DEADLOCK FALSE
