SPECIFICATION FairSpec
CONSTANTS
    u1 = u1
    u2 = u2
    w = w
    r = r
    s = s
    k = k
    Null = Null
    Users = {u1, u2}
    Receivers = {w}
    Readers = {r, s}
    Distant = {s}
    Nesting = {s}
    Keys = {k}
    MaxSamples = 2
    MaxBatch = 2
    MaxFaults = 2
INVARIANT TypeOK
INVARIANT PointerValid
INVARIANT NothingHeldBack
INVARIANT NoCallbackAfterDelete
PROPERTY NewestOnly
PROPERTY RequestsReturn
CHECK_DEADLOCK FALSE
