CONSTANTS
    Collector = {"c1", "m1"}
    Manual = {"m1"}
    Entry <- MCEntry
    Length <- MCLength
    Origin = 0
    Close <- MCClose
    Deadline = 2
    LastHour = 3
    Observer = {"c1", "c2"}
    Watched <- MCWatched
    ClosesAt <- MCClosesAt
    LastMinute = 2
    Message = {"m1"}
    Handler = {"h1", "h2"}
    Parts = {"forward", "preclose", "messages"}
SPECIFICATION PartsFairSpec
INVARIANT QuoteInWindow
INVARIANT FinalIsPreClose
INVARIANT Truthful
PROPERTY EveryHorizonRecorded
PROPERTY EveryMarketFinalised
PROPERTY EveryMessageSettles
CHECK_DEADLOCK FALSE
