SPECIFICATION Spec
CONSTANTS
  Requests = {r1, r2, r3}
  Tenants = {t1, t2}
  MaxTenants = 1
  Keeps = {0}
  MaxCalls = 4
SYMMETRY Symmetry
INVARIANTS ResidentBound SharedBuild TransientIsWorkedOn
PROPERTIES EstablishedStays
CHECK_DEADLOCK FALSE
