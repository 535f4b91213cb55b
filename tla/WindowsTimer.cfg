SPECIFICATION TimerSpec
CHECK_DEADLOCK FALSE
INVARIANTS
    QuietAfterDestroy
