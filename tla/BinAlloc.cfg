SPECIFICATION Spec
CONSTANTS
    FrameCount = 4
    PageSize = 8
    WordSize = 128
    Maps <- MCMaps
    BinSizes <- MCBinSizes
    KRequests <- MCRequests
    MaxBlocks = 3
INVARIANTS
    TypeOK
    ClaimsSound
PROPERTIES
    ImplementsHeap
