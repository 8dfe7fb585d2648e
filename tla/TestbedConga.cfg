SPECIFICATION TestbedSpec
CONSTANTS
    Modes = {"open"}
    Traces <- MCTraces
    MaxFlows = 2
    StopTime = 3
    Endtimes = {2, 5}
    Sizes = {1, 2}
    SMALL_TH = 2
    Gaps = {1, 2}
    Jitters = {0, 1}
    Sleeps = {0, 1}
    Durations = {2, 3}
    Schemes = {"conga"}
    N_LEAF = 2
    N_UL = 2
    N_SRV = 2
    FlowHash <- MCFlowHash
    SamplePeriod = 2
    N_SUBTREE = 2
    N_TOR = 2
    N_AGG = 2
    N_UPLINK = 2
    N_SERVER = 2
PROPERTIES SamplesShowTraffic
CHECK_DEADLOCK FALSE
