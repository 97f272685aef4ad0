SPECIFICATION Spec
CONSTANTS
    u1 = u1
    u2 = u2
    k1 = k1
    k2 = k2
    k3 = k3
    User = {u1, u2}
    Client = {k1, k2, k3}
    UserOf <- MCUserOf
    Connection = {c1, c2}
    nthreads = 2
    DbErrors = FALSE
    MaxToken = 2
SYMMETRY Alike
INVARIANTS
    StopRevokesAll
