SPECIFICATION HSpec
CONSTANTS
    web = web
    mem = mem
    crashloop = crashloop
    mem_pressure = mem_pressure
    team = team
    oncall = oncall
    Keys = {web}
    Checks = {crashloop, mem_pressure}
    CheckOf <- MCCheckOf
    DockerChecks = {crashloop}
    Replicas <- One
    Mutable = {web}
    Channels = {team, oncall}
    Routing <- MCRouting
    MinTier <- MCMinTier
    Flap <- MCFlap
    Cooldown <- MCCooldown
    ResolveSamples = 2
    Clock <- ClockOfFour
    MaxRun = 5
CHECK_DEADLOCK FALSE
INVARIANTS TypeOK ReminderNeverStarved BlindnessSaidOnce
PROPERTIES FireNeedsSustainedBad EpisodeEndsByRecovery NoEarlyReminder ResolvedGoesToTold KeepsContract
