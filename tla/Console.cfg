SPECIFICATION Spec
CONSTANTS
    WordSize = 256
    PtrDigits = 4
    Messages <- MCMessages
    Oops <- MCOops
    Stacks <- MCStacks
    AddrBits = 8
    VaBits = 6
    TraceMax = 3
INVARIANT
    WireAsAsked
PROPERTY
    ReportsComplete
CHECK_DEADLOCK FALSE
