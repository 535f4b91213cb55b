SPECIFICATION Spec
CONSTANTS
    c1 = c1
    c2 = c2
    low = low
    high = high
    None = None
    Clients <- OneClient
    N = 2
    Priorities <- OnePriority
    Default = low
    Timeouts <- Forever
    NestedTimeouts <- Forever
INVARIANTS
    DestroyComplete
CHECK_DEADLOCK FALSE
