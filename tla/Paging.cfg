SPECIFICATION Spec
CONSTANTS
    FrameCount = 15
    PageSize = 4
    WordSize = 64
    Maps <- MCMaps
    PT_ENTRIES = 4
    DirectIdx = 1
    OldRoot = 1
    OldMems <- MCMems
    ClientPages = {1, 2}
INVARIANTS
    TypeOK
    KernelAlwaysMapped
    TablesKept
    PhysReachable
PROPERTIES
    BootEnds
CHECK_DEADLOCK FALSE
