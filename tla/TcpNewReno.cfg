SPECIFICATION FairSpec
CONSTANTS
    MSS = 2
    FlowSize = 15
    Word = 128
    EnableDctcp = FALSE
    Timed = FALSE
    Reorder = FALSE
    MaxDrops = 3
    MaxSpurious = 2
INVARIANTS TimerArmed SentCoversAcked RecoveryWindow FinishedIsDelivered
PROPERTIES ImplementsReliableTransfer FlowEndsClean
CHECK_DEADLOCK FALSE
