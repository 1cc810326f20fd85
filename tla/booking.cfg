SPECIFICATION MCSpec
CONSTANTS
  Clients = {c1, c2, c3}
  MaxFaults = 1
  Sla <- MCSla
  MaxAttempts = 2
  MaxWfTime = 3
  MaxWfReports = 3
  MaxLost = 1
INVARIANTS
  NoLaterBooking
  BookingAtomic
  AlertedAtLeastOnce
PROPERTIES
  EventuallyAnswered
  WorkflowAgrees
  WorkflowEnds
CHECK_DEADLOCK FALSE
