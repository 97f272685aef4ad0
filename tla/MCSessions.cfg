SPECIFICATION Spec
CONSTANTS
    r1 = r1
    r2 = r2
    r3 = r3
    Request = {r1, r2, r3}
    nthreads = 1
    MaxOpen = 2
    MayNotListen = TRUE
    Throwing <- Second
INVARIANTS
    TypeOK
PROPERTIES
    IsExchange
    RequestEnds
    SessionsEnd
