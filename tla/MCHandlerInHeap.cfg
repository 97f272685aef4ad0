SPECIFICATION Spec
CONSTANTS
    Worker = {w1, w2}
    Main = Main
    Nobody = Nobody
    ServerFails = TRUE
PROPERTY
    EverySignalEnds
CHECK_DEADLOCK FALSE
