SPECIFICATION Spec
CONSTANTS
  Clients = {c1, c2}
  MaxRequests = 1
  Window = 1
  Lockout = 2
  Url = TRUE
  Policy = "always"
  DevEnv = FALSE
  FailMode = "closed"
  MaxTime = 4
  MaxFaults = 1
  MaxResets = 1
SYMMETRY Symmetry
INVARIANTS AdmittedBudget LockoutIsExact QuietKeyIsAdmitted
CHECK_DEADLOCK FALSE
