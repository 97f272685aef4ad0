SPECIFICATION Spec
CONSTANTS
    Worker = {w1, w2}
    Main = Main
    Nobody = Nobody
    ServerFails = FALSE
INVARIANTS
    LogsOutBeforeExit
    ExitsWithCode
CHECK_DEADLOCK FALSE
