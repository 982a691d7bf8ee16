SPECIFICATION SmsSpec
CONSTANTS
    Size = 8
    WordBits = 3
    Caps = {0, 9, 24, 40}
    MaxCalls = 3
    CS_MAX_BEARERS = 3
    MaxEncodes = 2
    MAX_GROUP_DEPTH = 1
    Capacity = 48
    SMS_UD_MAX = 12
    FirstSeq = 255
    MaxSubmits = 1
    Subs = {"s1", "s2"}
    MaxRuns = 3
    MaxRefused = 1
    OctetBits = 2
    IPPOOL_V4 = 2
    IPPOOL_V6 = 4
    Wide = 3
    IPPOOL_MAX_SIZE = 20
INVARIANTS
    SmsPartsComplete
CHECK_DEADLOCK FALSE
