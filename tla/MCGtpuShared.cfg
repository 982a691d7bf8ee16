SPECIFICATION BearersSpec
CONSTANTS
    N3 = 2
    CallerTeids = {1}
    Faults = {"send", "timer"}
    FirstSeq = 3
    SeqMod = 5
    MaxSessions = 2
    MaxSeqs = 3
    Ids = {1}
    MaxRx = 2
    MaxTft = 2
    MaxUpCalls = 4
    Tunnels <- MCTunnels
    Filters <- MCFilters
    Packets <- MCPackets
    RtpSeqMod = 8
    Dropout = 3
    Misorder = 2
    MinSeq = 2
    Word = 256
    First = {0, 6}
    MaxPackets = 6
    MaxReports = 2
INVARIANT UpSharedRxKept
CHECK_DEADLOCK FALSE
