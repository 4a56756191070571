SPECIFICATION FairSpec
CONSTANTS
    c = c
    r = r
    Threads = {c, r}
    Controllers = {c}
    Hosted = {}
    Owners = {c}
    MaxSessions = 2
    MaxContextDowns = 1
    UserContexts = TRUE
    NodeMayThrow = FALSE
INVARIANT TypeOK
INVARIANT NoStaleEntities
INVARIANT ContextReleased
INVARIANT SpinThreadFree
INVARIANT DestroyedAtRest
PROPERTY OnlyOwnContext
PROPERTY SettledShutdownReturns
CHECK_DEADLOCK FALSE
