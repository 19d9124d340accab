\* Two bots, both admins of one group; a wrap from outside and one from bot to
\* bot; one message of a bot, two proposals; one permit, one failed publish, one
\* restart.
SPECIFICATION MCSpec
CONSTANTS
    b1 = b1
    b2 = b2
    w1 = w1
    w2 = w2
    m1 = m1
    p1 = p1
    p2 = p2
    c1 = c1
    c2 = c2
    Outside = Outside
    None = None
    Bots <- MCBots
    Admins <- MCAdmins
    Wraps <- MCWraps
    Recipient <- MCRecipient
    Sender <- MCSender
    Messages <- MCMessages
    Author <- MCAuthor
    Proposals <- MCProposals
    CommitOf <- MCCommitOf
    Permits = 1
    MaxPending = 2
    MaxRestarts = 1
    MaxFailures = 1
INVARIANTS
    NoFork
    LocalDelivery
PROPERTY
    IntakeMovesOn
\* Nothing need be sent.
CHECK_DEADLOCK FALSE
