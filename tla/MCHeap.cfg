SPECIFICATION Spec
CONSTANTS
    None = None
    HeapHeader = 9
    Page = 8
    Granule = 16
    DefSize = 48
    FreeListSizes <- Classes
    Space = 160
    Request = {3, 20, 30}
INVARIANTS
    HeapValid
    ListsComplete
    InUseIsHeld
    Committed
PROPERTY
    ImplementsPool
CHECK_DEADLOCK FALSE
