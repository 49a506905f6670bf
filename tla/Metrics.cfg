SPECIFICATION FairSpec
CONSTANTS
    Timeframes <- LongTimeframe
    DayTimeframe = 2
    LastClose = 2
    MaxLate = 1
    QueueSize = 2
    Clients = {client}
    MaxRequests = 1
    MaxFailures = 1
INVARIANTS
    TypeOK
    PendingIsQueued
PROPERTIES
    CandlesAskForTheirScopes
    RecomputesOnDemand
CHECK_DEADLOCK FALSE
