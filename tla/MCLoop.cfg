SPECIFICATION LoopSpec
CONSTANTS
    InitSlots = 1
    GenMod = 4
    Delays = {0, 2}
    MaxArms = 3
    MaxSlots = 7
    MaxNow = 3
    Size = 6
    MaxDue = 2
    Hooks = {a, b, c}
    Fds = {3}
    MaxCalls = 5
    Socks = {s}
    MaxCtx = 3
    MaxThrows = 2
INVARIANTS
    TimersSound
    
    LoopEachHookOnce
PROPERTIES
    ImplementsTimers
    
CHECK_DEADLOCK FALSE
