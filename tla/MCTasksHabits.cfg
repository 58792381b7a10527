CONSTANTS
    t1 = t1
    t2 = t2
    t3 = t3
    Task <- TwoTasks
    Native = t1
    MaxSends = 5
    MaxPosts = 0
    MaxInput = 0
    HandlersYield = TRUE
    HandlersReply = TRUE
    HandlersExit = FALSE
SPECIFICATION Spec
INVARIANTS
    TypeOK
    HandledOnce
CHECK_DEADLOCK FALSE
