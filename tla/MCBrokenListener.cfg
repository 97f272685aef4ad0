SPECIFICATION Spec
CONSTANTS
    r1 = r1
    r2 = r2
    r3 = r3
    Request = {r1, r2}
    nthreads = 2
    MaxOpen = 2
    MayNotListen = TRUE
    Throwing <- Second
INVARIANT
    CalledForConnection
