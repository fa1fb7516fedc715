SPECIFICATION FairSpec
CONSTANTS
  Tasks = {t1, t2}
  Keys = {k1, k2}
  MaxEntries = 1
  MaxCalls = 4
  Nobody = Nobody
INVARIANTS GoneStaysGone
PROPERTIES ReturnsUnlessLocksCross
CHECK_DEADLOCK FALSE
