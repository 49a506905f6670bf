SPECIFICATION Spec
CONSTANTS
    Exchanges <- MCExchanges
    ExchangeOrder <- MCExchangeOrder
    Instruments <- MCInstruments
    Symbols <- MCSymbols
    Interval <- MCInterval
    BaseUrls <- MCBaseUrls
    Lookbacks <- MCLookbacks
    Concurrency <- MCConcurrency
    Listings <- MCListings
    Limit = 2
    BatchSize = 2
    MaxRetries = 1
    StableDelay = 1
    Days = 3
    Untils = {4, 7}
    StartTimes = {5}
    MaxTime = 6
    MaxRuns = 2
INVARIANTS
    TypeOK
    ClaimedIsStored
    FormingWasAskedFor
PROPERTY
    ProgramsEnd
CHECK_DEADLOCK FALSE
