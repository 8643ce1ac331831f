CONSTANTS
    Files = {a, b}
    Listed = {a}
    MaxEdits = 4
SPECIFICATION FairSpec
INVARIANTS
    SourcesCurrent
    ConfigCurrent
    CacheHitsCurrent
PROPERTIES
    ComesToRest
CHECK_DEADLOCK FALSE
