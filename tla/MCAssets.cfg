SPECIFICATION Spec
CONSTANTS
    None = None
    Nothing = Nothing
    Engines = {"sqlite", "postgresql"}
    InvRequests = {q1, q2, q3}
    LastDay = 2
    AddressCount = 16
    FirstMulticast = 8
    FirstReserved = 12
    TargetCap = 4
    ResultCap = 2
    HostCap = 2
    Jobs = {j1, j2}
    Imports = {r1, r2}
    Probes = {p1}
    MaxFaults = 1
    ProbeForAnalysis = {TRUE, FALSE}
    Clients = {c1, c2}
    Families = {"native"}
    Classes = {"Web", "OOD_HOLDOUT", "Gaming"}
    Supervised = {"Web"}
    Outside = {"OOD_HOLDOUT"}
    Registrations <- Labelled
    Ratios <- Cuts
    MaxVersions = 1
    MaxSessions = 3
    MaxPartitions = 2
    MaxTrainings = 1
    Unset = Unset
SYMMETRY DatasetSymmetry
INVARIANTS SummaryIsRight DriftIsExact ScanStaysInScope LinksAreTrue DatasetCounts SplitsAreTrue
CHECK_DEADLOCK FALSE
