SPECIFICATION Spec
CONSTANTS
    Finals = {200, 401, 403}
    Provisional = FALSE
    AuthCap = 2
    Outcomes = {"esp"}
    MaxCSeq = 4
PROPERTY SuccessIsCurrent
CHECK_DEADLOCK FALSE
