SPECIFICATION TaskSpec
CONSTANTS
    Loops = {g1, g2, g3}
    NoLoop = NoLoop
    ExecuteFails = TRUE
INVARIANTS
    CloseReachesEveryLoop
    RunningTaskIsServed
PROPERTY
    ClosedTaskEnds
CHECK_DEADLOCK FALSE
