SPECIFICATION Spec
CONSTANTS
    Threads = {t1, t2}
    NoThread = NoThread
    Objects = {o1, o2, o3}
    NoObject = NoObject
    MaxDepth = 2
INVARIANTS TypeOK OnePlace DepthExact
PROPERTIES ImplementsPool
