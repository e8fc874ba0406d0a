SPECIFICATION Spec
CONSTANTS
    none = none
    None = none
    Absent = none
    Number <- MCNumber
    Substring = {}
    IdleTimeout = 15
    KeyBits <- MCKeyBits
    Aead = {"AES-GCM-16-256"}
    AeadCiphers = {"AES-GCM-16-256", "CHACHA20_POLY1305"}
    Frames <- MCFrames
    Packets <- MCPackets
    MaxFrames = 4
    ActiveRules <- MCBundle
    CaptureNames = {"nopfs"}
    DhGroup <- MCDhGroup
INVARIANTS
    FlowsMatchTheCapture
    OwnEvidenceDecides
    PartialEvidenceSound
    WeaknessFound
    FindingsTraced
    SummaryReadBack
    ReportedIsSelected
CHECK_DEADLOCK FALSE
