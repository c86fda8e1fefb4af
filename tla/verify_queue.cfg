SPECIFICATION FairSpec
CONSTANTS
    Senders = {c1, s1}
    Communities = {c1}
    None = None
    PriorityCap = 2
    OtherCap = 1
    SenderCap = 3
    KeptCap = 2
    RequestRate = 1
    Budgets <- Worlds
    c1 = c1
    s1 = s1
INVARIANTS TypeOK OrderPerSender CommunityMessagesSurvive
PROPERTIES StrangersNeverDelay Drains
CHECK_DEADLOCK FALSE
