SPECIFICATION Spec
CONSTANTS
  Requests = {r1, r2, r3}
  Ids = {1, 2, 3, 4}
  LiveAtStart = {1}
  TrashAtStart = {2, 3}
  Targets = {1, 2}
  Columns = {"status", "title"}
  StateFields = {"status"}
  Values = {0, 1}
  Edits <- OneOfEach
  Lists <- BothOrders
  PerPage = 1
  MaxBatch = 2
SYMMETRY Symmetry
INVARIANTS AskedBeforeWritten LedgerTellsTheRow
PROPERTIES OnlyItsColumn TrashIsFrozen AllOrNothing
CHECK_DEADLOCK FALSE
