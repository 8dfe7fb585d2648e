SPECIFICATION Spec
CONSTANTS
    FlowNum = 2
    MaxFlows = 1
    Versions = {"lab1"}
    FlowSizes = {7}
    OldFlowSizes = {}
    Mss = 3
    Mini = 1
    ClientWindow = 2
    ServerWindow = 3
    Word = 12
    Isns = {0, 5}
    Reorder = FALSE
    MaxLosses = 1
    MaxRuns = 1
INVARIANTS AcksAreCumulative
CHECK_DEADLOCK FALSE
