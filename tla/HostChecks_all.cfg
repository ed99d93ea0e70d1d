SPECIFICATION Spec
CONSTANTS
    Total = 3
    Reserved = 0
    Warn = 60
    Alert = 90
    Horizon = 1
    RingMax = 2
    Scale <- MCScale
    Rate = 1
    MaxClock = 3
    MaxSteps = 1
    MaxBoot = 2
    MaxPages = 1
    MaxRuns = 3
CHECK_DEADLOCK FALSE
INVARIANTS
    DiskAlarmIsReal
    FillIsSeen
    SwapAlarmIsReal
    ThrashIsSeen
