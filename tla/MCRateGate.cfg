\* Three handlers, two bots of different windows in two groups, which makes
\* four Squads; two messages, a cache and maps that hold two entries: the maps
\* of handlers and Squads are too small, that of the bots is not.
SPECIFICATION MCSpec
CONSTANTS
    h1 = h1
    h2 = h2
    h3 = h3
    b1 = b1
    b2 = b2
    s1 = s1
    s2 = s2
    g1 = g1
    g2 = g2
    Handlers <- MCHandlers
    Bots <- MCBots
    Groups <- MCGroups
    Messages <- MCMessages
    GroupOf <- MCGroupOf
    Burst <- MCBurst
    Fill <- MCFill
    Price <- MCPrice
    StaleAfter = 2
    MaxBuckets = 2
    Window <- MCWindow
    MaxSeen = 2
    MaxTime = 3
    MaxCalls = 5
SYMMETRY Symmetry
INVARIANTS
    RepeatedOnlyWhenFull
PROPERTY
    LimiterRefines
\* The clock stops at its bound.
CHECK_DEADLOCK FALSE
