SPECIFICATION FairSpec
CONSTANTS
    u = u
    w1 = w1
    w2 = w2
    quick = quick
    slow = slow
    A = A
    B = B
    Users = {u}
    Workers = {w1, w2}
    Topics = {quick, slow}
    Slow = {slow}
    Types = {A, B}
    QueueSize = 1
    MaxEntities = 2
    MaxMessages = 3
    MaxSessions = 2
INVARIANT TypeOK
INVARIANT PublisherInUse
INVARIANT SameTopicInOrder
INVARIANT SessionsApart
PROPERTY NotStarved
CHECK_DEADLOCK FALSE
