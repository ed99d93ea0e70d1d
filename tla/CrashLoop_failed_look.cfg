SPECIFICATION Spec
CONSTANTS
    c1 = c1
    c2 = c2
    c3 = c3
    Ids = {c1}
    Restarts = 2
    Window = 2
    Outages = TRUE
    Partial = TRUE
    MaxTime = 3
    MaxCount = 3
    MaxBoot = 1
SYMMETRY Containers
CHECK_DEADLOCK FALSE
PROPERTY FailureIsHarmless
