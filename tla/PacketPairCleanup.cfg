SPECIFICATION Spec
CONSTANTS
    MSS = 2
    FlowSize = 4
    DupWord = 16
    Estimates = {1, 4}
    MaxFaults = 0
    MaxSpurious = 0
INVARIANTS FinishedIsScheduled
CHECK_DEADLOCK FALSE
