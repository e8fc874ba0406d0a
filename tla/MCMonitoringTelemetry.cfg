SPECIFICATION FewSpec
CONSTANTS
  Handlers = {h1, h2}
  NoHandler = NoHandler
  Spis = {zero}
  ZeroSpi = zero
  Lifecycle = {"CHILD_DELETED", "CAPTURE_FAILED"}
  MaxTunnels = 1
  MaxBatchSize = 5
  MaxPosts = 3
  PulseSeq = 50
  Deployments <- MCDeployments
  MaxIncidents = 2
SYMMETRY Interchangeable
CHECK_DEADLOCK FALSE
INVARIANTS
    CountedIsStored
    SaRestsOnEvidence
    LossIsFlagged
PROPERTIES
    RevokedIsSilent
