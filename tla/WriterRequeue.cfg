SPECIFICATION Spec
CONSTANTS
    Seconds = {1, 2}
    Trades <- TwoTrades
    QueueSize = 10
    BatchSize = 2
    MaxFailures = 1
    MaxRepairs = 0
INVARIANTS
    CurrentIsNewest
CHECK_DEADLOCK FALSE
