SPECIFICATION FairSpec
CONSTANTS
  VerifiedRestore = FALSE
  ReportsLoss = FALSE
  QueryFails = FALSE
  DbFails = FALSE
  Crashes = FALSE
INVARIANTS
    NoSilentCandidate
PROPERTIES
    RunsDecide
