SPECIFICATION Spec
CONSTANTS
    MSS = 2
    FlowSize = 9
    Word = 128
    EnableDctcp = TRUE
    Timed = TRUE
    Reorder = TRUE
    MaxDrops = 1
    MaxSpurious = 1
INVARIANTS TypeOK CollapsedWindowIsIdle AcksAreHonest NoSegmentLeftBehind
CHECK_DEADLOCK FALSE
