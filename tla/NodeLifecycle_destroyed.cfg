SPECIFICATION Spec
CONSTANTS
    main = main
    aux = aux
    Threads = {main, aux}
    Controllers = {main, aux}
    Hosted = {}
    Owners = {main}
    MaxSessions = 1
    MaxContextDowns = 0
    UserContexts = FALSE
    NodeMayThrow = FALSE
INVARIANT DestroyedAtRest
CHECK_DEADLOCK FALSE
