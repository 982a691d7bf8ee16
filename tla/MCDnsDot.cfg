SPECIFICATION DnsSpec
CONSTANTS
    Queries = {q1}
    Names = {x}
    Dots = {TRUE, FALSE}
    IdMod = 2
    MaxTries = 2
INVARIANT EchoAccepted
CHECK_DEADLOCK FALSE
