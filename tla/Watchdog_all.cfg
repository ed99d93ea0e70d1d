SPECIFICATION Spec
CONSTANTS
    team = team
    oncall = oncall
    Channels = {team, oncall}
    Routing <- MCRouting
    MinTier <- MCMinTier
    Flap <- MCFlap
    Cooldown <- MCCooldown
    ResolveSamples = 2
    Levels = {1, 2}
    Processes = {timer, manual}
    timer = timer
    manual = manual
    Timer = timer
    Horizon = 1
INVARIANT AlarmsOnRecord
PROPERTIES FiresOnce AlarmIsHeard EndIsHeard
