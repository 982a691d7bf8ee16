SPECIFICATION Spec
CONSTANTS
    Hooks = {a, b, c}
    Fds = {3}
    MaxCalls = 4
INVARIANT NoLifetimeRace
