SPECIFICATION Spec
CONSTANTS
    t1 = t1
    t2 = t2
    t3 = t3
    m1 = m1
    Interpreter = Interpreter
    Nobody = Nobody
    Threads <- TwoThreads
    Mutexes <- OneMutex
    Timeouts <- AnyTimeout
    ZeroDeadline <- NoDeadline
    MaxDepth = 2
INVARIANT WaitersLeaveInterpreter
