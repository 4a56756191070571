SPECIFICATION FairSpec
CONSTANTS
    x = x
    A = A
    B = B
    ActionNames = {x}
    ActionTypes = {A, B}
    MaxGoals = 2
    MaxClients = 2
    MaxSessions = 2
    MaxCrashes = 1
    Precreate = "first"
INVARIANT TypeOK
INVARIANT CallbackOrder
INVARIANT ActiveUntilResult
INVARIANT CancelIsSafe
PROPERTY AnsweredGoalFinishes
CHECK_DEADLOCK FALSE
