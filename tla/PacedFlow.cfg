SPECIFICATION FairSpec
CONSTANTS
    MSS = 2
    FlowSize = 11
    DupWord = 16
    Estimates = {1, 8}
    FirstEstimate = 8
    MaxFaults = 3
    MaxSpurious = 1
INVARIANTS NeverStuck
PROPERTIES ImplementsReliableTransfer ImplementsPrefixReceiver FlowEndsClean
CHECK_DEADLOCK FALSE
