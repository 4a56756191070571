SPECIFICATION FairSpec
CONSTANTS
    u1 = u1
    w1 = w1
    w2 = w2
    L = L
    R = R
    x = x
    A = A
    B = B
    Null = Null
    Users = {u1}
    Workers = {w1, w2}
    Local = {L}
    Remote = {R}
    Topics = {x}
    Types = {A, B}
    Using = {x}
    Calling = {x}
    MaxCalls = 2
    MaxMessages = 1
    Patience = {TRUE, FALSE}
INVARIANT TypeOK
INVARIANT AnswerInTime
PROPERTY KeepsSession
PROPERTY AsyncAnswered
PROPERTY EveryCallReturns
CHECK_DEADLOCK FALSE
