SPECIFICATION Spec
CONSTANTS
    MaxWindows = 3
    MaxNest = 1
    Handled <- Handlers
    LoopCalls <- AllCalls
    ProcCalls <- CreateAndDestroy
    Refusable <- Nothing
    Polite = TRUE
INVARIANTS
    WellLinked
    GroupRings
    ToldOnce
    NothingRemains
    NoOrphans
PROPERTIES
    ImplementsZOrder
