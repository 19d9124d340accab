SPECIFICATION FairSpec
CONSTANTS
    bot = bot
    None = None
    Conns = {bot}
    Caps <- MCCaps
    Uses <- MCUses
    Tasks = {task}
    task = task
    MaxCalls <- MCCalls
    MaxReplies = 1
INVARIANTS
    NoServiceAfterUnregister
    KnowsItsCaller
PROPERTIES
    EveryRequestServed
CHECK_DEADLOCK FALSE
