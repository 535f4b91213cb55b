SPECIFICATION MCSpec
CONSTANTS
    Callers = {c1, c2, c3}
    Waiters = {c1, c2}
    Nobody = Nobody
    Objects = {o1, o2, o3}
    Ids = {i1, i2, i3}
    NoId = NoId
    Null = Null
    Bits = {0, 1}
    MaxDepth = 3
    Trespass = FALSE
    SizeLimit = 64
    BlockSizes = {5, 9, 60}
    PoolSizes = {8, 24}
    Heap = {h1}
    Tasks = {c1, c2}
    Priorities = {1, 2}
    InitialPriority = 1
    NoTask = Nobody
    MaxRecursion = 2
    Runners = 3
    RangeEnds <- MCRangeEnds
    RoundRobin <- MCRoundRobin
    m_defaultPriority = 0
    PrioThreads = {t1, t2}
    Unset = Unset
    MaxPools = 2
    KernelIds = {i1, i2, i3}
    NoPool = NoPool
    BlockCounts = {0, 2}
    Clients = {c1, c2}
    Timer = Timer
    Period = Period
    NoTime = NoTime
    CallbackCalls = {"stop"}
CHECK_DEADLOCK FALSE
INVARIANTS
    NoDangling
    OneSetOnePass
    PoolsSound
    CreationSound
    PriorityFollows
    PriorityOrder
    Handshake
PROPERTIES
    IsThread
    IsItronThread
    IsMutex
    IsItronMutex
    WaitsEnd
    DestroysEnd
    AtMostOneLateCall
    IsPeriodicTimer
    KeepsFiring
    StartWakes
    StopWakes
    DestroyReturns
