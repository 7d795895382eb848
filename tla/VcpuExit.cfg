SPECIFICATION Spec
CONSTANTS
    ThunkRdi = {"VMCS_HOST_RSP", "rsp"}
    FrameWords = 4
INVARIANT
    ReturnsToLoop
CHECK_DEADLOCK FALSE
