\* Two groups, one of them in the store found at startup; two stores; two
\* ends of the process, one change of the key file, one remote step.
SPECIFICATION Spec
CONSTANTS
    w1 = w1
    w2 = w2
    n1 = n1
    n2 = n2
    p1 = p1
    Wires <- MCWires
    OldWires <- MCOldWires
    Names <- MCNames
    Peers <- MCPeers
    Retention = 1
    MaxStores = 2
    MaxCrashes = 2
    MaxFaults = 1
    MaxDays = 2
    MaxRemote = 1
INVARIANTS
    AdminsSurvive
    StateIsKept
    LostIffReset
    InvitedIsMember
PROPERTY
    FailClosed
\* A bot left without engine has nothing more to do.
CHECK_DEADLOCK FALSE
