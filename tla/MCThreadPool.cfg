SPECIFICATION Spec
CONSTANTS
    c1 = c1
    c2 = c2
    low = low
    high = high
    None = None
    Clients <- OneClient
    N = 2
    Priorities <- TwoPriorities
    Default = low
    Timeouts <- AnyTimeout
    NestedTimeouts <- AnyTimeout
INVARIANTS
    OneOwner
    StartNotSwallowed
    WaitGuardSound
    PriorityKept
CHECK_DEADLOCK FALSE
