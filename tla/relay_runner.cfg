SPECIFICATION FairSpec
CONSTANTS
  Events = {1, 2, 3, 4}
  Refused = {1}
  Doomed = {2}
  Failing = {4}
  Batch = 2
  MaxPasses = 2
  MaxBackoff = 5
  MaxOutages = 2
INVARIANTS BackoffSchedule
PROPERTIES AcceptedIsDelivered
CHECK_DEADLOCK FALSE
