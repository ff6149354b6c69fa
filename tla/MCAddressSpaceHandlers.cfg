SPECIFICATION Spec
CONSTANTS
    t1 = t1
    t2 = t2
    t3 = t3
    c1 = c1
    c2 = c2
    c3 = c3
    Threads <- MCThreads
    Readers <- MCReaders
    Clients <- MCClients
    WithContext <- MCWithContext
    Null = Null
    MaxWrites = 3
INVARIANTS TypeOK FirstRegistrationWhole QuietRead
SYMMETRY Symmetry
