SPECIFICATION FairSpec
CONSTANTS
    Seconds = {1, 2}
    Trades <- TwoTrades
    QueueSize = 2
    BatchSize = 2
    MaxFailures = 2
    MaxRepairs = 1
INVARIANTS
    TypeOK
    NothingLost
    JoinMeansStored
    AccountInv
    OneCurrentRow
    NewestWhileInOrder
    CurrentIsExact
PROPERTIES
    QueueDrains
CHECK_DEADLOCK FALSE
