SPECIFICATION Spec
CONSTANTS
    m1 = m1
    m2 = m2
    t1 = t1
    t2 = t2
    t3 = t3
    Threads <- ThreeThreads
    Msgs <- MCMsgs
    NoMsg = NoMsg
    Raw = Raw
    NoThread = NoThread
    MaxSize = 2
    Timeouts <- AnyTimeout
    Exceptions <- MayThrow
SYMMETRY Symmetric
INVARIANTS
    RingSafe
    NoLostWakeup
    LiveSlots
    NoGridlock
CHECK_DEADLOCK FALSE
PROPERTIES
    IsBoundedQueue
