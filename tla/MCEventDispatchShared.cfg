SPECIFICATION Spec
CONSTANTS
    t1 = t1
    t2 = t2
    b1 = b1
    b2 = b2
    i1 = i1
    i2 = i2
    h1 = h1
    h2 = h2
    k1 = k1
    Tasks <- MCTasks
    Bots <- TwoBots
    Ids <- OneId
    Handlers <- TwoHandlers
    Buckets <- OneBucket
    BotOf <- SharedBotOf
    IdOf <- SharedIdOf
    Timestamp <- StreamTimestamp
    WrapTime <- StreamWrapTime
    BucketOf <- SharedBucketOf
    GroupTasks <- MCTasks
    Subscribed <- SharedSubscribed
    Tweak = 2
    MaxAnswers = 2
    MaxRestarts = 0
    NoTask = NoTask
    NoCursor = NoCursor
INVARIANTS
    TrackerIsCollectors
    CursorAfterTerminal
CHECK_DEADLOCK FALSE
