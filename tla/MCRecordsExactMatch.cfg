SPECIFICATION RecordsSpec
CONSTANTS
    Severity <- MCSeverity
    Checks <- MCChecks
    Other <- MCOther
    MaxChanges = 1
    NoValue = none
INVARIANTS
    SameEvidenceMatches
CHECK_DEADLOCK FALSE
