SPECIFICATION HSpec
CONSTANTS
    web = web
    mem = mem
    crashloop = crashloop
    mem_pressure = mem_pressure
    team = team
    oncall = oncall
    Keys = {web}
    Checks = {crashloop, mem_pressure}
    CheckOf <- MCCheckOf
    DockerChecks = {crashloop}
    Replicas <- Two
    Mutable = {}
    Channels = {team, oncall}
    Routing <- MCRouting
    MinTier <- MCMinTier
    Flap <- MCFlap
    Cooldown <- MCCooldown
    ResolveSamples = 2
    Clock <- ClockOfTwo
    MaxRun = 4
CHECK_DEADLOCK FALSE
PROPERTY EpisodeEndsByRecovery
