CONSTANTS
    t1 = t1
    t2 = t2
    w1 = w1
    Task = {t1, t2}
    NoTask = NoTask
    Window = {w1}
    NoWindow = NoWindow
    Owner <- MCOwner
    SYNC_TIMERS = 2
    Ids = {1}
    Timeouts = {2}
    Second = 2
    Requests <- SafeRequests
    MaxEvents = 1
SPECIFICATION Spec
INVARIANTS
    TypeOK
    MarkCovers
    ExpiredAnnounced
