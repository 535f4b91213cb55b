SPECIFICATION MutexSpec
CONSTANTS
    Callers = {c1, c2}
    Nobody = Nobody
    MaxDepth = 2
    Trespass = TRUE
CHECK_DEADLOCK FALSE
PROPERTIES
    IsMutex
