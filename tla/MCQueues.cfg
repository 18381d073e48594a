CONSTANTS
    Tick = {t1, t2, t3}
    NoTick = NoTick
    Group = {"scan", "collect"}
    TTL = 2
    Deadline = 1
    Kill = 2
    Horizon = 5
    Creator = {"o1", "o2"}
    Source = {"mac"}
    Target = {"autopilot"}
    SourceOf <- MCSourceOf
    KeepCommands = 2
    MaxCommands = 3
    Migrator = {t1, t2, t3}
    NoMigrator = NoTick
    Latest = 2
    Element = {"signals", "category"}
    Since <- MCSince
    ListLength <- MCListLength
    TableOf <- MCTableOf
    MaxUpgrades = 4
    Parts = {"ticks", "commands", "schema"}
SYMMETRY TickSymmetry
SPECIFICATION PartsSpec
INVARIANT MutualExclusion
INVARIANT RefusalJustified
INVARIANT CommandsHonest
INVARIANT SchemaSettles
PROPERTY ImplementsSection
CHECK_DEADLOCK FALSE
