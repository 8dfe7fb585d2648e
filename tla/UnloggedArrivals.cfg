SPECIFICATION Spec
CONSTANTS
    Hops = 2
    PsPerByte <- MCPsPerByte
    MaxSize <- MCMaxSize
    EcnThreshold <- MCEcnThreshold
    Delay <- MCDelay
    EarlyDrop = {2}
    DropThreshold = 3
    Logged = 2
    LogsArrivals = {1}
    LogPeriod = 4
    Endtimes = {0, 13}
    Packets = 4
    Sizes = {1, 2}
    Gaps = {0, 1, 4}
INVARIANT UnseenMeansUnchanged
CHECK_DEADLOCK FALSE
