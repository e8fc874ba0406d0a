SPECIFICATION FairSpec
CONSTANTS
  Runs = {r1, r2, x1}
  Remediation = {r1, r2}
  Hosts = {api, cli}
  HostOf <- Placement
  NoCleanup = {x1}
  LongHolds = TRUE
  Crashes = TRUE
  IOFaults = {r1}
  NoRun = NoRun
  api = api
  cli = cli
INVARIANTS NoOrphanLock
PROPERTIES RunsEnd
