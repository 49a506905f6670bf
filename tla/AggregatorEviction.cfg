SPECIFICATION Spec
CONSTANTS
    btc = btc
    eth = eth
    None = None
    Streams = {btc, eth}
    Trades <- TwoStreamTrades
    SecondMs = 2
    AllowedLatenessMs = 2
    FinalizedCacheSize = 1
    DedupCacheSize = 1
    MaxGaps = 1
    ClockSkew = 0
    Disconnects = {1, 3}
    Horizon = 5
    MaxDeliveries = 1
INVARIANTS
    TypeOK
    FrontierInv
    CacheIsPublished
    PricesAreOrdered
PROPERTIES
    CachedRevisionsIncrease
