SPECIFICATION Spec
CONSTANTS
    ThunkRdi = {"VMCS_HOST_RSP", "rsp"}
    FrameWords = 4
INVARIANT
    EntryFailureIsClean
CHECK_DEADLOCK FALSE
