SPECIFICATION Spec
CONSTANTS
    Cpus <- MCCpus
    StackFrames = 3
INVARIANTS
    TypeOK
    ReadyForVmxon
    ControlsAllowed
    HostSurvivesExit
PROPERTIES
    LockRespected
    GuestComesBack
CHECK_DEADLOCK FALSE
