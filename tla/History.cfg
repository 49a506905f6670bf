SPECIFICATION Spec
CONSTANTS
    TIMEFRAME_SECONDS <- MCTimeframeSeconds
    PersistedTimeframes <- MCPersisted
    Minute = 2
    Retention = 7
    RawRetention = 5
    StableDelay = 1
    Lateness = 1
    CandleLimit = 3
    Limits = {1, 2}
    Archives <- MCArchives
    MaxRecovered = 1
    MaxTime = 9
INVARIANTS
    TypeOK
    PagesGoBackwards
    NothingIsSkipped
    HasMoreIsRight
    CandlesAreWhole
CHECK_DEADLOCK FALSE
