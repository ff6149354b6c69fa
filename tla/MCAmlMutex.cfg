SPECIFICATION Spec
CONSTANTS
    t1 = t1
    t2 = t2
    t3 = t3
    m1 = m1
    Interpreter = Interpreter
    Nobody = Nobody
    Threads <- ThreeThreads
    Mutexes <- OneMutex
    Timeouts <- AnyTimeout
    ZeroDeadline <- AnyDeadline
    MaxDepth = 2
INVARIANTS TypeOK OneUnit NothingLeftBehind
PROPERTIES OwnerUnderInterpreter AcquireReturns
CHECK_DEADLOCK FALSE
