CONSTANTS
    Market <- MCMarket
    Event <- MCEvent
    EventOf <- MCEventOf
    Fact <- MCFact
    Priority <- MCPriority
    Span = 4
    FallbackWindows <- MCWindows
    MinWidth = 1
    Edges <- MCEdges
    MaxPages = 2
    PageSize = 1
    Retries = 1
    Level = {"l1", "l2"}
    Size = {0, 1}
    DegradedAfter = 2
    BackoffMax = 1
    DedupMax = 3
    MaxChanges = 3
    MaxQueue = 3
    QToken = {"t1", "t2", "t3"}
    Absent = "none"
    BatchSize = 2
    HttpRetries = 1
    MaxWanted = 4
    Page <- MCPage
    NoNumber <- MCNoNumber
    Immense <- MCImmense
    ClockNow = 50
    LastYear = 100
    One = 10
    CategoryOrder <- MCCategoryOrder
    KeywordsOf <- MCKeywordsOf
    Parts = {"scan", "stream", "books", "records"}
SPECIFICATION PartsFairSpec
INVARIANT EligibleAccounted
INVARIANT CompleteMeansWhole
INVARIANT BookFaithful
INVARIANT BooksWhole
INVARIANT OutcomesAligned
PROPERTY ScanEnds
CHECK_DEADLOCK FALSE
