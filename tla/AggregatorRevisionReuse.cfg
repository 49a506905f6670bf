SPECIFICATION Spec
CONSTANTS
    btc = btc
    eth = eth
    None = None
    Streams = {btc}
    Trades <- LateTrades
    SecondMs = 2
    AllowedLatenessMs = 0
    FinalizedCacheSize = 1
    DedupCacheSize = 10
    MaxGaps = 1
    ClockSkew = 0
    Disconnects = {}
    Horizon = 7
    MaxDeliveries = 1
INVARIANTS
    RevisionsIncrease
