CONSTANTS
    Tick = {t1, t2, t3}
    NoTick = NoTick
    Group = {"collect"}
    Horizon = 3
    JobOrder <- MCJobOrder
    Interval <- MCInterval
    Screened = {1, 2}
    Analyses <- MCAnalyses
    TradePage <- MCTradePage
    MarketFacts <- MCMarketFacts
    Views = {"directional", "strongest", "inconclusive", "all"}
    LiquidityFull = 10
    LiquidityThin = 2
    SpreadWide = 4
    StaleAge = 5
    AgeSpan = 10
    TargetFamilies = 3
    TopCards = 2
    MinTrades = 3
    MinConcentrated = 3
    ClusterWindow = 2
    ClusterCount = 2
    ClusterCap = 4
    LastDay = 3
    FrameKind <- MCFrameKind
    Unpriced <- MCUnpriced
    Window = 3
    MinHistory = 3
    FlatMove = 1
    ZCap = 4
    AccelCap = 3
    Recent = 1
    Earlier = 2
    Strong = 30
    Follow = 2
    Ahead = 2
    MaxFrames = 7
    Run = {"r1", "r2", "r3"}
    LastDate = 2
    Task = {t1, t2, t3}
    Board = {"b1", "b2"}
    FreshTtl = 1
    HardTtl = 2
    MaxBoards = 1
    Slots = 1
    BHorizon = 5
    Req = {r1, r2}
    NoReq = NoTick
    CacheSeconds = 1
    MaxAge = 2
    MemoTtl = 1
    MaxRead = 0
    MaxScan = 2
    XHorizon = 4
    Market = {1, 2}
    Row <- MCRow
    Request <- MCRequest
    PublicN = 1
    Hours6 = 6
    DisplayLimit <- MCDisplayLimit
    HistoryLimit = 2
    KeepFor = 3
    Threshold = 1
    StaleAfter = 2
    RefreshInterval = 3
    BackTo <- MCBackTo
    LastTime = 4
    Parts = {"ticks"}
SYMMETRY JobSymmetry
SPECIFICATION PartsSpec
PROPERTY SkipsOnlyRecentWork
CHECK_DEADLOCK FALSE
