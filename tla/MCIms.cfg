SPECIFICATION ImsSpec
CONSTANTS
    Calls = {1, 2}
    Finals = {200, 401, 403}
    Provisional = FALSE
    AuthCap = 2
    Outcomes = {"bad", "plain", "refused", "esp"}
    MaxCSeq = 5
    Subs = {s1, s2, s3}
    Phases = {1, 3}
    Dereg = TRUE
    MaxStarts = 4
    Tuples = {m1, m2, m3}
    MaxBearers = 4
    Watchers = {1, 2}
INVARIANTS
    
    
    
    NothingLeft
 
CHECK_DEADLOCK FALSE
