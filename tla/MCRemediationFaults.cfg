SPECIFICATION Spec
CONSTANTS
  VerifiedRestore = TRUE
  ReportsLoss = TRUE
  QueryFails = TRUE
  DbFails = TRUE
  Crashes = TRUE
INVARIANTS
    JournalIsSaga
    LockReturned
PROPERTIES
    Contract
CHECK_DEADLOCK FALSE
