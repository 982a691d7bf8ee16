SPECIFICATION MachinesSpec
CONSTANTS
    Table <- LockTable
    States <- LockStates
    Actions <- LockActions
    Conds <- LockConds
    Start = "closed"
    Term = "broken"
    Depth = 4
    MaxSends = 4
    MaxOwed = 2
INVARIANTS
    AnnouncedOncePerCall
    AnnouncedExactly
    SidesAgree
    
PROPERTIES
    OutcomesStand
    
CHECK_DEADLOCK FALSE
