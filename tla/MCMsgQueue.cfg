CONSTANTS
    t1 = t1
    t2 = t2
    w1 = w1
    w2 = w2
    Task <- MCTask
    Nobody = Nobody
    Window <- MCWindow
    NoWindow = NoWindow
    Owner <- MCOwner
    Below <- MCBelow
    System = System
    Closing <- MCClosing
    Size <- MCSize
    Inputs <- MCInputs
    Requests <- MCRequests
    MaxMsgs = 3
    NestedGets = FALSE
SPECIFICATION Spec
INVARIANTS
    WellLinked
    ScanAnchored
PROPERTIES
    InOrder
    ImplementsFifo
CHECK_DEADLOCK FALSE
