SPECIFICATION ApartSpec
CONSTANTS
  Runs = {x1, x2}
  Remediation = {}
  Hosts = {h1, h2}
  HostOf <- Placement
  NoCleanup = {x2}
  LongHolds = FALSE
  Crashes = TRUE
  IOFaults = {x1, x2}
  NoRun = NoRun
  Host = Host
  Kind <- Kinds
  ScenarioOf <- Profiles
  Retain = {}
  Missing <- HostFaults
  MaxSweeps = 1
  Stubborn <- Resisting
  x1 = x1
  x2 = x2
  h1 = h1
  h2 = h2
INVARIANTS
    RunsKeepToTheirOwn
    VerifiedScenarioRan
