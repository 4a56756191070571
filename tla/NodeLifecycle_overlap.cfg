SPECIFICATION Spec
CONSTANTS
    c = c
    d = d
    h = h
    r = r
    Threads = {c, d, h, r}
    Controllers = {c, d, h}
    Hosted = {h}
    Owners = {}
    MaxSessions = 2
    MaxContextDowns = 1
    UserContexts = TRUE
    NodeMayThrow = TRUE
INVARIANT ExecutorOutlivesSpin
CHECK_DEADLOCK FALSE
