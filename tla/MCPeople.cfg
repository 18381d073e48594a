CONSTANTS
    Tick = {t1, t2, t3}
    NoTick = NoTick
    Group = {"digest"}
    Horizon = 5
    Scan = {"s1", "s2"}
    Period = 2
    Idem = 2
    Retries = 1
    Deadline = 1
    User = {"u1"}
    Operator = "op"
    Card = {"c1"}
    Run = {"r1", "r2"}
    Cooldown = 1
    MaxRetries = 1
    MaxRuns = 2
    AHorizon = 3
    Browser = {b1, b2}
    KeyId = {"k1", "k2"}
    Codes = 1
    MaxOpen = 2
    MaxKeys = 2
    MaxDevices = 1
    MaxFailures = 1
    Ttl = 1
    StepupFor = 1
    TrustFor = 2
    Hour = 1
    MaxChallenges = 3
    SHorizon = 2
    Person = {"p1", "p2", "p3"}
    Founders = {"p1", "p2"}
    MaxActions = 1
    MaxEmails = 1
    MaxOutside = 1
    Parts = {"digest", "alerts", "stepup", "members"}
SYMMETRY PeopleSymmetry
SPECIFICATION PartsSpec
INVARIANT RepeatsOnlyForgotten
INVARIANT OneAlertPerCooldown
INVARIANT UnlockedByProof
PROPERTY OwnerRemains
CHECK_DEADLOCK FALSE
