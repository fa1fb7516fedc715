SPECIFICATION FairSpec
CONSTANTS
  Instances = {i1}
  Answers = {paid}
  Matches <- AllMatch
  Drivers = {d1, d2}
  Sweepers = {d2}
  Steps <- OrderSteps
  First = "call"
  Kind <- OrderKind
  Guarded = {"call"}
  TimedCall = {"call"}
  OnSuccess <- OrderOnSuccess
  Branches <- OrderBranches
  OnFailure <- NoRoute
  OnExhausted <- OrderOnExhausted
  OnTimeout <- OrderOnTimeout
  WaitEvent = {"payment", "receipt"}
  WaitTimeout = {"payment"}
  MaxAttempts <- TwoAttempts
  End <- OrderEnd
  Undo = {"refuse"}
  LastComp = 1
  CompFor <- OrderCompFor
  HasDeadline = TRUE
  MaxSteps = 3
  CompensateOn = {"failed", "compensating", "compensated"}
  MaxCrashes = 1
INVARIANTS CompensatedOnce CompensatedMeansUndone OneResumePerAnswer WaitsOnWaitStep
PROPERTIES FinalIsFinal EndedRunsNothing ComesToRest
