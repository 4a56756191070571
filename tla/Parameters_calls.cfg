SPECIFICATION FairSpec
CONSTANTS
    u1 = u1
    u2 = u2
    w = w
    Null = Null
    Setters = {u1}
    Managers = {u2}
    Workers = {w}
    Values = {7, 8}
    Override = Null
    MaxAdds = 2
    MaxCalls = 5
    MaxRemote = 1
    MaxServed = 1
    MaxSessions = 2
INVARIANT TypeOK
INVARIANT NoCallbackAfterRemove
INVARIANT CallbacksAsWanted
PROPERTY VetoRespected
PROPERTY EveryCallReturns
CHECK_DEADLOCK FALSE
