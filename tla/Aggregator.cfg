SPECIFICATION Spec
CONSTANTS
    btc = btc
    eth = eth
    None = None
    Streams = {btc}
    Trades <- OneStreamTrades
    SecondMs = 2
    AllowedLatenessMs = 2
    FinalizedCacheSize = 10
    DedupCacheSize = 10
    MaxGaps = 2
    ClockSkew = 0
    Disconnects = {1, 3, 4, 6}
    Horizon = 8
    MaxDeliveries = 2
INVARIANTS
    FrontierSeparates
    FirstRevisionComesFirst
    RevisionsIncrease
    CandlesAreExact
    CarriedPriceIsFrontierClose
    HolesFollowGaps
PROPERTIES
    PromptTradesAreNotLate
