SPECIFICATION Spec
CONSTANTS
    t1 = t1
    t2 = t2
    h1 = h1
    h2 = h2
    o1 = o1
    o2 = o2
    Null = Null
    Threads <- TwoThreads
    Handlers <- TwoHandlers
    Objects <- TwoObjects
INVARIANTS TypeOK RefsMatchLinks OneObjectPerHandler RunningIsInstalled
PROPERTY ImplementsDelivery
SYMMETRY Symmetry
CHECK_DEADLOCK FALSE
