SPECIFICATION Spec
CONSTANTS
    x = x
    A = A
    B = B
    ActionNames = {x}
    ActionTypes = {A, B}
    MaxGoals = 2
    MaxClients = 2
    MaxSessions = 1
    MaxCrashes = 0
    Precreate = "any"
INVARIANT CancelIsSafe
CHECK_DEADLOCK FALSE
