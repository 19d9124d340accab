SPECIFICATION MCFairSpec
CONSTANTS
    h1 = h1
    h2 = h2
    c1 = c1
    c2 = c2
    HandlerIds <- MCHandlerIds
    Conns <- MCConns
    Admins <- MCAdmins
    StaleTimeout = 0
    CounterModulus = 8
    DbMayFail = TRUE
    MayCrash = TRUE
    NoHandler = NoHandler
    NoConn = NoConn
INVARIANTS
    TypeOK
    AckedIsPersisted
    UnregisteredStaysGone
    CounterAccounts
PROPERTY LostIsReaped
