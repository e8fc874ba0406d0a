SPECIFICATION StoreSpec
CONSTANTS
    Contents = {c1}
    Malformed = bad
    Uploads = {u1, u2}
    Stops = {t1, t2}
    Sessions = {s1, s2}
    Surviving = {s2}
    PathAllowed = TRUE
    MaxPackets = 1
    Faults = 1
    None = none
    Severity <- MCSeverity
    Checks <- MCChecks
    Other <- MCOther
    MaxChanges = 1
    NoValue = none
INVARIANTS
    EvidenceIntact
    NothingStranded
    RegisteredOnce
    ReplayOfTheEvidence
    FindingsNotPlayedDown
CHECK_DEADLOCK FALSE
