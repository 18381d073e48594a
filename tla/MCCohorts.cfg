CONSTANTS
    Freezer = {"f1", "m1"}
    Manual = {"m1"}
    Pruner = {"r1"}
    Period = 2
    Deadline = 1
    Window = 3
    Horizon = 4
    Market = {k1, k2}
    Screen <- MCScreen
    Cadence = {"6h", "daily"}
    CadencePeriod <- MCCadencePeriod
    HorizonOf <- MCHorizonOf
    Quote <- MCQuote
    LatenessMax = 1
    MaxScans = 2
    MaxCohorts = 2
    PHorizon = 2
    Half = 2
    FlatEps = 1
    SlipCap = 2
    Impact = 4
    MinSample = 1
    Token = {"a1", "b1"}
    MarketOf <- MCMarketOf
    Price = {1, 3}
    AsOf = 1
    Day = 1
    MinHistory = 2
    NearMid = {1, 2, 3}
    MinStrength = 1
    TopN = 1
    HHorizon = 3
    Snap <- MCSnap
    RankRun = {"r1", "r2"}
    TrackRun = {"t1", "t2"}
    TargetSize = 2
    MinRankStrength = 1
    ForwardHorizon = {1}
    MovementAt = 1
    MaxRank = 2
    Parts = {"freeze", "replay", "screen", "list", "record"}
SYMMETRY MarketSymmetry
SPECIFICATION PartsSpec
INVARIANT ProvenanceKept
INVARIANT MomentumNeverBeaten
INVARIANT VerdictsAgree
INVARIANT SlotsHoldTheStrongest
PROPERTY HeadlineKeepsFirstCall
PROPERTY NoLookAhead
PROPERTY FrozenRecordKept
CHECK_DEADLOCK FALSE
