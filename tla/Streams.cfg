SPECIFICATION FairSpec
CONSTANTS
    Scopes <- TwoScopes
    Subscribers = {subscriber}
    MaxChanges = 2
INVARIANTS
    StreamInv
    SleepersAreCurrent
PROPERTIES
    SubscribersCatchUp
CHECK_DEADLOCK FALSE
