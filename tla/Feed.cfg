SPECIFICATION FeedSpec
CONSTANTS
    btc = btc
    eth = eth
    None = None
    Streams = {btc, eth}
    Trades <- TwoMarketTrades
    SecondMs = 2
    AllowedLatenessMs = 2
    FinalizedCacheSize = 6
    DedupCacheSize = 6
    MaxGaps = 2
    ClockSkew = 0
    Disconnects = {0, 1, 2, 3, 4, 5, 6, 7, 8, 9}
    Horizon = 6
    MaxDeliveries = 1
    MaxOutages = 2
    MaxSubscribeFailures = 1
INVARIANTS
    FeedTypeOK
    OutagesAreIncomplete
    OnlyOutagesAreIncomplete
PROPERTIES
    ImplementsAggregator
