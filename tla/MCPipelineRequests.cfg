SPECIFICATION FairSpec
CONSTANTS
  First = First
  Second = Second
  NoOne = NoOne
  Requests <- MCRequests
  Asks <- MCAsks
  Flows = 2
  MaxReleases = 2
CHECK_DEADLOCK FALSE
INVARIANTS
    OneReconstruction
    AssessedOnOwnEvidence
    RebuiltFromAll
PROPERTIES
    RunsSettle
