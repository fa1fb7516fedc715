SPECIFICATION FairSpec
CONSTANTS
  Jobs = {j1, j2}
  Loops = {l1}
  Callers = {c1}
  Ops = {"trigger", "pause", "resume", "cancel", "update", "unschedule", "stop"}
  MaxAttempts = 2
  Slots = 1
  MaxOps = 2
INVARIANTS DeletedStaysDeleted SlotsAreHeld
PROPERTIES DueJobIsPickedUp
CHECK_DEADLOCK FALSE
