SPECIFICATION Spec
CONSTANTS
    MSS = 2
    FlowSize = 9
    Word = 128
    EnableDctcp = FALSE
    Timed = FALSE
    Reorder = FALSE
    MaxDrops = 1
    MaxSpurious = 2
PROPERTIES FastRecoveryAfterTimeouts
CHECK_DEADLOCK FALSE
