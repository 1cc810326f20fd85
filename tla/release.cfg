SPECIFICATION Spec
CONSTANTS
  Writers = {c1, c2}
  Lines = {clear, vague}
  Doubtful = {vague}
  MaxEvents = 5
  MaxCalls = 5
  MaxFaults = 0
INVARIANT
  ReleaseIsFinal
CHECK_DEADLOCK FALSE
