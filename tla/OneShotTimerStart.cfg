SPECIFICATION FairSpec
CONSTANTS
    Clients = {c1}
    Timer = Timer
    Times = {short}
    NoTime = NoTime
    CallbackCalls = {}
PROPERTIES
    StartReturns
CHECK_DEADLOCK FALSE
