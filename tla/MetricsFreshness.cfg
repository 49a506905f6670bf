SPECIFICATION Spec
CONSTANTS
    Timeframes <- LongTimeframe
    DayTimeframe = 2
    LastClose = 2
    MaxLate = 1
    QueueSize = 2
    Clients = {}
    MaxRequests = 0
    MaxFailures = 0
INVARIANTS
    PushedSummariesAreFresh
CHECK_DEADLOCK FALSE
