SPECIFICATION Spec
CONSTANTS
    Worker = {w1, w2}
    Main = Main
    Nobody = Nobody
    ServerFails = TRUE
INVARIANTS
    TypeOK
    TokenRevoked
PROPERTIES
    SignalEnds
CHECK_DEADLOCK FALSE
