SPECIFICATION Spec
CONSTANTS
    BufSize = 3
    Slack = 1
    SnapSize = 3
    MapSizes = {2, 3, 4, 5, 6}
    MaxKey = 4
INVARIANT DescriptorsSurvive
CHECK_DEADLOCK FALSE
