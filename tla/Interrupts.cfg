SPECIFICATION Spec
CONSTANTS
    Devices <- MCDevices
    Firmware <- MCFirmware
    Exceptions <- MCExceptions
    Vectors <- MCVectors
    g_tss <- MC_g_tss
    MaxRaises = 2
    MaxTraps = 1
    MaxCalls = 2
    StackTop = 60
INVARIANTS
    TypeOK
    ReachesOwnStub
    ContextFaithful
    UnhandledIsEarlyOrSpurious
    InServiceIsServed
PROPERTIES
    ResumesExactly
    RequestsServed
CHECK_DEADLOCK FALSE
