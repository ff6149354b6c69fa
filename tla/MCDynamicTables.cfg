SPECIFICATION Spec
CONSTANTS
    t1 = t1
    t2 = t2
    ssdt1 = ssdt1
    ssdt2 = ssdt2
    Nobody = Nobody
    Threads <- TwoThreads
    Tables <- TwoTables
    OwnerIds <- TwoIds
    Within <- Inside
    Overlapping <- OneOfThem
    MaxLevel <- Nesting
INVARIANTS TypeOK NodesOwned
PROPERTIES OnlyFailedLoadsDangle NodesGoWithTheirTable CallsReturn
