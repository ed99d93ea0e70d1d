SPECIFICATION RFairSpec
CONSTANTS
    web = web
    crashloop = crashloop
    team = team
    oncall = oncall
    Keys = {web}
    Checks = {crashloop}
    CheckOf <- MCCheckOf
    DockerChecks = {crashloop}
    Replicas <- One
    Mutable = {}
    Channels = {team, oncall}
    Routing <- MCRouting
    MinTier <- MCMinTier
    Flap <- MCFlap
    Cooldown <- MCCooldown
    ResolveSamples = 2
    Clock <- MCClock
    MaxRun = 3
    MaxUndone = 1
    Faults = {"config", "load", "save", "report", "kill", "power", "forget"}
CHECK_DEADLOCK FALSE
INVARIANTS OneFirePerLoss FailureIsPinged RunNumberIsFresh
PROPERTIES SuccessIsEarned DryRunIsHarmless RunEnds
