SPECIFICATION FairSession
CONSTANTS
    i1 = i1
    i2 = i2
    Ids <- const_Ids
    Channels <- const_Channels
    NoticeCapacity = 1
    MaxConnections = 1
    MaxRestarts = 2
    MaxRotations = 1
    Threshold = 2
    CoolingOff = 1
    AutoAcknowledge = FALSE
    MaxLost = 3
INVARIANTS
    OneReceiver
PROPERTIES
    BotTriesAgain
CHECK_DEADLOCK FALSE
