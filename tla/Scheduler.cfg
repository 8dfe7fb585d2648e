SPECIFICATION Spec
CONSTANTS
    Priorities = {1, 2, 3}
    Flows = {1, 2}
    Sizes = {1, 3}
    MaxSize = 8
    ZeroedMemory = TRUE
    SfqQueues = 2
    Quantum = 2
    AfqFlows = {1, 2, 3}
    NHash = 2
    NBucket = 2
    Hash <- MCHash
    AfqQueues = 3
    BytesPerRound = 2
    EcnMarkRound = 2
    PriorityPackets = 5
    FairPackets = 6
    SfqPackets = 7
    AfqPackets = 5
INVARIANTS FairShare DropsAreNotCharged ActiveListExact CreditCoversPacket SketchCoversQueue FlowsInOrder
PROPERTIES DropsTheLeastUrgent ImplementsPacketServer
CHECK_DEADLOCK FALSE
