SPECIFICATION FairSpec
CONSTANTS
    FlowNum = 1
    MaxFlows = 1
    Versions = {"lab1", "gpt"}
    FlowSizes = {13}
    OldFlowSizes = {7, 8}
    Mss = 3
    Mini = 1
    ClientWindow = 3
    ServerWindow = 3
    Word = 13
    Isns = {0, 7, 9}
    Reorder = TRUE
    MaxLosses = 2
    MaxRuns = 3
INVARIANTS DoneIsDelivered CountsThePrefix AckBytesAreReal InFlightExact NothingBeyondWindow
PROPERTIES LosslessCompletes
CHECK_DEADLOCK FALSE
