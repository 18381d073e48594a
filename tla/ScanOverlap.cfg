CONSTANTS
    Proc = {p1, p2, p3}
    NoProc = NoProc
    Lease = 2
    Limit = 1
    Horizon = 5
    Asker = {p1, p2, p3}
    Key = {k1, k2}
    NoOne = NoProc
    MaxEntries = 1
    Rows = 2
    Item = {1, 2, 3, 4}
    ItemAt <- MCItemAt
    KindOf <- MCKindOf
    SnapOf <- MCSnapOf
    Query <- MCQuery
    PageSize = 2
    Week = 7
    Month = 30
    LastToday = 1
    Parts = {"scans"}
SYMMETRY ReadSymmetry
SPECIFICATION PartsSpec
INVARIANT NoOverlappingScans
CHECK_DEADLOCK FALSE
