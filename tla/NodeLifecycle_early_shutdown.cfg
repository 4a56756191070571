SPECIFICATION Spec
CONSTANTS
    c = c
    r = r
    Threads = {c, r}
    Controllers = {c}
    Hosted = {}
    Owners = {}
    MaxSessions = 2
    MaxContextDowns = 0
    UserContexts = FALSE
    NodeMayThrow = FALSE
INVARIANT RunFindsExecutor
CHECK_DEADLOCK FALSE
