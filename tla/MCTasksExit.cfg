CONSTANTS
    t1 = t1
    t2 = t2
    t3 = t3
    Task <- TwoTasks
    Native = t1
    MaxSends = 2
    MaxPosts = 0
    MaxInput = 0
    HandlersYield = TRUE
    HandlersReply = FALSE
    HandlersExit = TRUE
SPECIFICATION Spec
INVARIANTS
    DeleteNeverReturns
CHECK_DEADLOCK FALSE
