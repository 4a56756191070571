SPECIFICATION FairSpec
CONSTANTS
    c = c
    Threads = {c}
    Controllers = {c}
    Hosted = {}
    Owners = {}
    MaxSessions = 2
    MaxContextDowns = 0
    UserContexts = FALSE
    NodeMayThrow = FALSE
PROPERTY ShutdownReturns
CHECK_DEADLOCK FALSE
