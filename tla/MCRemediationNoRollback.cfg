SPECIFICATION Spec
CONSTANTS
  VerifiedRestore = FALSE
  ReportsLoss = FALSE
  QueryFails = FALSE
  DbFails = FALSE
  Crashes = FALSE
INVARIANTS
  RollbackFailsOnlyOnFault
