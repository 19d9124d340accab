SPECIFICATION FairSpec
CONSTANTS
    r1 = r1
    r2 = r2
    p1 = p1
    Rumors <- const_Rumors
    Payloads <- const_Payloads
    Size <- const_Size
    Reported <- const_Reported
    Retention = 2
    OutRetention = 3
    SweepInterval = 1
    SweepThreshold = 2
    Hosts = 2
    MaxBytes = 2
    TagBytes = 1
    MaxSends = 2
INVARIANTS
    ReadableUntilExpiry
    UnsentIsKept
PROPERTIES
    PlaintextExpires
    SendEnds
CHECK_DEADLOCK FALSE
