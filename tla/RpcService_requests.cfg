SPECIFICATION Spec
CONSTANTS
    T = T
    U = U
    m = m
    n = n
    o1 = o1
    o2 = o2
    a = a
    b = b
    Null = Null
    Names = {m, n}
    TopicNames = {a, b}
    Types = {T, U}
    Plain = {T}
    Objects = {o1, o2}
    PoolSize = 1
SYMMETRY Renamings
INVARIANT TypeOK
INVARIANT MapsMatchEntities
INVARIANT TopicsInUse
INVARIANT LeakOnlyWithLoan
PROPERTY FailedRequestLeavesOnlyType
PROPERTY ImplementsRegistry
