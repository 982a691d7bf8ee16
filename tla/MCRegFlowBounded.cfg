SPECIFICATION Spec
CONSTANTS
    Finals = {200, 401, 403}
    Provisional = TRUE
    AuthCap = 2
    Outcomes = {"esp"}
    MaxCSeq = 3
PROPERTY StepBounded
CHECK_DEADLOCK FALSE
