CONSTANTS
    t1 = t1
    t2 = t2
    w1 = w1
    Task = {t1}
    NoTask = NoTask
    Window = {w1}
    NoWindow = NoWindow
    Owner <- MCOwner
    SYNC_TIMERS = 2
    Ids = {1}
    Timeouts = {3}
    Second = 2
    Requests <- SafeRequests
    MaxEvents = 2
SPECIFICATION Spec
INVARIANTS
    SleepsUntilNext
PROPERTIES
    TimersReported
