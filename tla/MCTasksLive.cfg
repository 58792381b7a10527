CONSTANTS
    t1 = t1
    t2 = t2
    t3 = t3
    Task <- ThreeTasks
    Native = t1
    MaxSends = 2
    MaxPosts = 1
    MaxInput = 0
    HandlersYield = FALSE
    HandlersReply = FALSE
    HandlersExit = FALSE
SPECIFICATION Spec
PROPERTIES
    SendsReturn
    RunsAgain
CHECK_DEADLOCK FALSE
