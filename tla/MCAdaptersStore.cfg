SPECIFICATION FairSpec
CONSTANTS
    n1 = n1
    n2 = n2
    b1 = b1
    b2 = b2
    a1 = a1
    a2 = a2
    None = None
    Malformed = Malformed
    Names = {n1, n2}
    Bases = {b1, b2}
    Adapters = {a1, a2}
    Contents <- Slices
    MaxEdits = 7
INVARIANTS
    TypeOK
    StoreMirrorsCluster
    BaseModelCounts
    NoPhantomAdapters
PROPERTIES
    EventuallyServed
CHECK_DEADLOCK FALSE
