SPECIFICATION Spec
CONSTANTS
    t1 = t1
    t2 = t2
    t3 = t3
    Threads <- MCThreads
    NoThread = NoThread
    Requests <- MCRequests
    SetupRequests <- MCSetupRequests
    Allocation <- MCAllocation
    MaxMaps = 3
INVARIANTS TypeOK AccessReaches WindowComplete MapsCoverAccesses
SYMMETRY Symmetry
