SPECIFICATION FairSpec
CONSTANTS
    t1 = t1
    t2 = t2
    b1 = b1
    b2 = b2
    i1 = i1
    i2 = i2
    h1 = h1
    h2 = h2
    k1 = k1
    Tasks <- MCTasks
    Bots <- OneBot
    Ids <- TwoIds
    Handlers <- OneHandler
    Buckets <- OneBucket
    BotOf <- StreamBotOf
    IdOf <- StreamIdOf
    Timestamp <- StreamTimestamp
    WrapTime <- StreamWrapTime
    BucketOf <- StreamBucketOf
    GroupTasks <- NoTasks
    Subscribed <- OneSubscribed
    Tweak = 2
    MaxAnswers = 1
    MaxRestarts = 1
    NoTask = NoTask
    NoCursor = NoCursor
INVARIANTS
    CursorIsConcluded
PROPERTIES
    DeliveryRefines
    DispatchEnds
CHECK_DEADLOCK FALSE
