SPECIFICATION FairSpec
CONSTANTS
    c1 = c1
    c2 = c2
    low = low
    high = high
    None = None
    Clients <- TwoClients
    N = 2
    Priorities <- OnePriority
    Default = low
    Timeouts <- Forever
    NestedTimeouts <- NoCalls
INVARIANTS
    NoRunnerLost
    DestroyComplete
PROPERTIES
    DestroyReturns
    GuardReleased
CHECK_DEADLOCK FALSE
