SPECIFICATION Spec
CONSTANTS
    c1 = c1
    c2 = c2
    low = low
    high = high
    None = None
    Clients <- TwoClients
    N = 2
    Priorities <- OnePriority
    Default = low
    Timeouts <- PollingOnly
    NestedTimeouts <- NoCalls
INVARIANTS
    NoRunnerLost
CHECK_DEADLOCK FALSE
