SPECIFICATION Spec
CONSTANTS
    t1 = t1
    t2 = t2
    x1 = x1
    x2 = x2
    ser = ser
    plain = plain
    Nobody = Nobody
    Threads <- TwoThreads
    Mutexes <- TwoMutexes
    Methods <- TwoMethods
    Serialized <- OneMethod
    SyncLevel <- Levels
    MethodLimit = 2
    MaxNesting = 2
    MaxDepth = 2
    MaxFailures = 1
INVARIANT ObjectsKept
CONSTRAINT FollowFailure
VIEW View
SYMMETRY Symmetry
CHECK_DEADLOCK FALSE
