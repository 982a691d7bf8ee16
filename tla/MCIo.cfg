SPECIFICATION IoSpec
CONSTANTS
    InitCap = 2
    Batch = 2
    MaxBytes = 3
    Lens = {0, 2}
    MaxSends = 4
    Queries = {q1, q2, q3}
    Names = {x, y}
    Dots = {FALSE}
    IdMod = 2
    MaxTries = 2
    Socks = {"a", "b"}
    Fds = {3, 4}
    StreamLens = {3}
    Room = 2
    Patience = 1
    MaxFiles = 2
    MaxCalls = 2
INVARIANTS
    TxqAccounted
    DnsAnswers
    StreamsOwned
    StreamSendExact
PROPERTIES
    ImplementsFifo
    IoDrains
CHECK_DEADLOCK FALSE
