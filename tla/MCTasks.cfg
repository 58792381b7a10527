CONSTANTS
    t1 = t1
    t2 = t2
    t3 = t3
    Task <- ThreeTasks
    Native = t1
    MaxSends = 3
    MaxPosts = 0
    MaxInput = 1
    HandlersYield = TRUE
    HandlersReply = FALSE
    HandlersExit = TRUE
SPECIFICATION Spec
INVARIANTS
    RightReply
    SendsNest
SYMMETRY Others
CHECK_DEADLOCK FALSE
