SPECIFICATION Spec
CONSTANTS
    c1 = c1
    c2 = c2
    c3 = c3
    Ids = {c1, c2}
    Restarts = 2
    Window = 2
    Outages = TRUE
    Partial = TRUE
    MaxTime = 4
    MaxCount = 2
    MaxBoot = 2
SYMMETRY Containers
CHECK_DEADLOCK FALSE
INVARIANTS AlarmIsReal CrashesAreRemembered LoopIsCaught
