SPECIFICATION FairSpec
CONSTANTS
    FrameCount = 7
    PageSize = 4
    WordSize = 64
    Maps <- MCMaps
    ByteSizes = {0, 1, 5, 62}
    PageCounts = {0, 2}
    Aligns = {0, 8, 9, 62}
INVARIANTS
    TypeOK
    Accounting
    LiveSound
    NothingSkipped
    CoversUnlessWrapped
PROPERTIES
    CallsReturn
    Refines
