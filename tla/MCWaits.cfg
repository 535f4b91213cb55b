SPECIFICATION MCSpec
CONSTANTS
    Clients = {c1, c2}
    Timer = Timer
    Times = {short, long}
    NoTime = NoTime
    CallbackCalls = {"start", "stop"}
    Threads = {t1, t2, t3}
    Msgs = {m1}
    NoMsg = NoMsg
    Raw = Raw
    NoThread = NoThread
    MaxSize = 1
    Timeouts = {"POLLING", "FOREVER"}
    Exceptions = {"OtherError"}
INVARIANTS
    Handshake
PROPERTIES
    IsOneShotTimer
    Fires
    DestroyReturns
    WaiterWakes
CHECK_DEADLOCK FALSE
