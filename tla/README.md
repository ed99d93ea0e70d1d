# Verification of dokploy-sentinel

TLA+ models of dokploy-sentinel, the TLC runs that check them on small
instances, and TLAPS proofs of what matters most for every instance.

dokploy-sentinel is a watchdog for a Docker host.  A systemd timer starts one
short process a minute.  The process reads its configuration and its snapshot
(`state.json`), samples the host and Docker, evaluates its checks, advances one
small state machine per alert key, saves the snapshot, posts what it decided to
Slack, writes a report and pings a dead-man's switch.  Nothing runs between two
processes: all memory is in the snapshot, so most of what can go wrong goes
wrong *across* runs.

## The parts of the system

| Part | State | Operations | Hard because |
|---|---|---|---|
| Alert state machine (`internal/alert/statemachine.go`, `route.go`) | `snap.Alerts`: per key a status, tier, two counters, last notification, flags, channels | `Advance`: `handleBad`, `handleOK`, `handleUnknown`, `sweepDegraded`; `PrunePendingAlerts` | long histories of runs; several observations of one key; outages; mutes that come and go; a wall clock that is stepped |
| Run driver (`internal/app/run.go`, `cmdRun`) | the process, the file, the pings | load, collect, evaluate, advance, save, deliver, report, ping | every step can fail or be the last; order of save and send |
| Snapshot file (`internal/state`) | `state.json` | `Load`, `Save`, pruning | crashes, loss of power, corruption, two processes |
| Crash-loop check and baselines (`crashloop.go`, `baseline.go`) | `snap.Services`: restart count, boot id, exit events | `Evaluate`, `UpdateBaselines`, `PruneServices` | counters that reset, containers that are replaced or not inspected, a sliding window |
| Delivery (`send.go`, `heartbeat.go`) | none beyond the call | `Deliver`, `post`, `ping` | slow or lost answers, rate limits, sleeps that ignore the context |
| Exceptions (`except.go`) | none (rules of the configuration) | `Apply`, `ExcludedFromBudget` | order of rules, UNKNOWN observations, expiry dates |
| Collection (`internal/collect`) | none beyond the call | `collectDocker`, `inspectInto` | a fan-out under a deadline, containers that change while it looks |
| Container checks (`containers.go`) | none | `Evaluate` | partial samples, exclusions |
| Rate checks (`disk.go`, `swap.go`, `baseline.go`) | disk rings, vmstat baseline | `Evaluate`, `UpdateBaselines` | clock steps, counter resets, gaps |
| Level checks (`mem.go`, `diskInodes`) | none | `Evaluate` | boundaries; files that lack lines |
| Host and cgroup readers (`procfs.go`, `collect/disk.go`, `cgroup.go`) | none | `readMeminfo`, `collectDisks`, `resolveCgroupPath` | what is missing must not look like what is fine |
| Configuration (`internal/config`) | none | `Load`, `Validate`, `ParseByteSize` | what it lets through is what everything else relies on |
| Commands (`cmd/dokploy-sentinel`) | the exit code | `run`, `check`, `selftest` | each failure has to reach the exit code |
| Report, rendering, packaging | files, messages | formatting, shell | little control of their own |

How they interact: `RunOnce` calls collection, then the checks (which read the
*previous* snapshot), then the exceptions, then `Advance` and `UpdateBaselines`
(which write the snapshot in memory), then `Save`, `Deliver`, `report.Write` and
the heartbeat.  The two ways a run speaks to another are the snapshot file and
what people were told on Slack; the properties relate the two.

What makes each part correct:

* *Alerts*: a key fires only after sustained breaches, and an episode ends only
  after sustained measured recovery; "could not measure" neither fires nor
  resolves and is said once; reminders are neither early nor starved when the
  clock is stepped; RESOLVED goes to whoever was told.
* *Run*: no FIRE twice because of a failure; success is pinged only when earned,
  and failure whenever a run that has its configuration ends with an error; a dry
  run leaves no trace but the ping of a failure; every run ends.
* *Crash loop*: no alarm without crashes; every crash a run has seen counts for
  the window; OK only of what was measured; bounded state.
* *Collection, container checks and exceptions*: what is said of limits is true of
  Docker; nothing is missing from a budget that is OK but what a container whose
  cgroup was not read uses above the floor; a container that could not be inspected
  is UNKNOWN, never absent; a mute hides nothing, an expired rule does nothing but warn; the
  fan-out ends.
* *Rate checks*: no alarm but of what two readings show, whatever the clock does;
  what every reading shows is alarmed of.
* *Delivery*: no duplicates, bounded time, spacing, the ping gets through.
* *Runs over one file, without end*: whoever was told of an alarm is on record to
  be told of its end; whatever was killed or lost, an alarm that stays is heard
  of and one that ends leaves the file.
* *Configuration and commands*: what is accepted defines every alert and reaches
  every tier, but where a threshold is `nan`; a pattern means what a shell means, of
  names without a star; exit code 0 is earned; what is missing from a file of the
  host hides no breach, and makes one up in two ways only; every configured path is
  spoken of, but those without a device, of which one is.

## Modules

| Module | What it is |
|---|---|
| `AlertContract` | What the alert machine promises its readers: episodes per key, and which notices may be said in which order to whom. No runs, counters or clock. |
| `AlertMachine` | The machine: `Advance` and its handlers over the alert table, one run after another. Implements `AlertContract`. |
| `AlertHistory` | `AlertMachine` plus history variables (what the runs measured, who was told, how far the clock went) and the properties that need them. |
| `AlertMachineProofs` | Theorems about `AlertMachine`. |
| `AlertHistoryProofs` | Theorems about `AlertHistory`. Extends `AlertMachineProofs`. |
| `RunLifecycle` | The process around the machine: extends `AlertMachine` with the file, the faults, delivery and pings. |
| `RunLifecycleProofs` | Theorems about `RunLifecycle`. Extends `AlertMachineProofs`. |
| `CrashLoop` | One service, its containers as Docker runs them, and the runs that sample it. |
| `CrashLoopProofs` | Theorems about `CrashLoop`. |
| `Delivery` | The posts and the success ping at the end of one run, in real time. |
| `DeliveryProofs` | Theorems about `Delivery`. |
| `Watchdog` | Runs without end over one snapshot file, the timer's and an operator's, which may overlap; one alert key of `AlertMachine`. |
| `WatchdogProofs` | Theorems about `Watchdog`. |
| `Exceptions` | The rules and what they do to observations: operators without state. |
| `Globs` | `globMatch`, and what a shell means by a pattern. |
| `Sampling` | One run's look at Docker: the fan-out, the container checks, the exceptions. Extends `Exceptions` and `HostReaders`. |
| `Configuration` | What `Decode` makes of a file, what `Validate` lets through, the settings read off it. Extends `Exceptions`. |
| `HostReaders` | What is read of `/proc`, the filesystems and a cgroup. |
| `LevelChecks` | The checks that compare one figure with a threshold. Extends `Configuration`, `HostReaders`. |
| `Sentinel` | The program from its command line on: composes `Configuration`, `HostReaders`, `LevelChecks`, `Globs` and `Sampling`. |
| `SentinelProofs` | Theorems about `Sentinel` and the modules it composes. |
| `HostChecks` | The disk ring and the vmstat baseline over runs, and the verdicts taken from them. |
| `HostChecksProofs` | Theorems about `HostChecks`. |
| `MCAlertHistory`, `MCRunLifecycle`, `MCWatchdog`, `MCCrashLoop`, `MCDelivery`, `MCSampling`, `MCSentinel`, `MCHostChecks` | Values for the constants of the runs. |

### AlertMachine and the code

`alerts` is `snap.Alerts` (a key that is not in the map is `NoState`), `runID`,
`now` and the observations are the arguments of `Advance`, `decisions` its
result.  A run is `BeginRun`, any number of `Observe` steps (one per turn of the
loop in `Advance`; the order of the observations and which there are is the
environment's choice, at most `Replicas[k]` of a key), `EndObserve`, one
`SweepDegraded` per key in the dark (Go's map order is the choice of the key)
and `PrunePending`.  Each branch of each handler is an action:

* `handleUnknown`: `Freeze`, `Degrade`
* `handleBad`: `Damp`, `Fire`, `Escalate`, `DeEscalate`, `Remind`, `StaySilent`;
  the lines before the branches (open the key, clamp the clock, count) are
  `Breached`, which every one of them stores
* `handleOK`: `Forget`, `AwaitRecovery`, `Resolve`
* the guard at the head of the loop: `Ignore`

A mute is a flag of the observation (`muted`), as in the code: the step is made
and its decision dropped.  `down` is the set of checks whose whole source is
UNKNOWN: their keys yield no observation in that run, and their one coarse
observation (scope `docker`) has no state of its own, as nothing ever fires under
it.  Times are readings of the wall clock; `Clock` may jump either way between
runs.  Left out: texts, mentions, `first_detected`, `fired_at`,
`last_tier_notified` and `last_measured`, which the code writes and no transition
reads.

### RunLifecycle and the code

`stage` is how far `RunOnce` has come, `disk` what `Load` would read, `platter`
what would be there after a loss of power (`Save` syncs the file, not the
directory), `outbox` what `Deliver` has still to post, `pings` and `exit` what the
outside sees of the run.  `Start`, `Built`, `DryStop`, `Save`, `SaveFails`,
`Deliver` (one post), `NextDecision` (the head of the outbox has nobody left to be
posted to), `Report`, `ReportFails`, `LoadFails` and `ConfigFails` are the
statements and early returns of `RunOnce` and `cmdRun` in their order; `Kill`,
`WriteBack`, `PowerLoss` and `LoseState` are what happens to the process and its
file, each switched on by the constant `Faults`.  A post either reaches its
channel or does not.  `fires` counts FIREs that reached a channel while the
snapshot on file has the key firing.

### Watchdog and the code

`AlertMachine` bounds the number of runs; `Watchdog` does not, so it can say what
happens eventually.  `disk` is the one key in `state.json`; per process, `stage`,
`copy` and `outbox` are how far its run is, its snapshot in memory and what it has
still to post.  `Start(p)` is `Load` through `Advance`: all of it works on the
process's own copy, and what the other does meanwhile shows only at the rename
(`Save`).  `HandleBad` and `HandleOK` are the handlers of the machine as functions
of a copy, put together from `AlertMachine`'s own `Breached`, `Recovering` and
`Notified` (an INSTANCE per copy).  `Post`, `PostFails`, `SaveFails`, `Kill` and
`Finish` are what can become of a run after that; `LoseState` is a snapshot that is
deleted or does not parse.  A dry run is to the others a run that was killed before
its save.

To keep the states finite without a bound on runs, times are told back from the
present (`Tick` lets every record sink by one; beyond `Horizon` no cooldown can
tell them apart), and counters that no comparison reads any more are set to 0
(`Canonical`).  `condition` is the truth: it changes at will until `CalmDown`, then
stays, can be measured, and nothing fails any more.  `heard` is the last word of
each channel.  Two history variables say what cannot be asked for: `missed`, the
channels whose all-clear was lost (no run repeats it), and `overlapped`, that two
runs wrote over each other and file and channels have not agreed at rest since.
That blindness was said is left out; `AlertHistory` follows it.  So is a stepped
clock.

### CrashLoop and the code

`docker` is the truth: each container's state, restart count, finish time and
whether it crashed.  Containers crash in place (restart policy), stop, are
removed, replaced by new ones (Swarm), and the host reboots; these actions are
external.  `Run(insp)` is a run that reached Docker and inspected `insp`:
`Updated` is `UpdateBaselines` for the service and `Verdict(insp)` is what
`evalService` says at that moment.  `BlindRun` is a run in an outage, in which
`PruneServices` still runs.  The verdict is an operator of the state, so the
properties about it are invariants over every inspection a run could make now.
A container that is gone keeps its record in `docker` for the properties only;
the check sees `Listed`.  Whole seconds; the clock only moves forward (clock steps
are the subject of `AlertHistory`).  `LastOOMKill` and the representative
container are left out: no verdict reads them.

Four history variables serve the properties: `restarted` and `seen` are what
really happened since runs last looked, `steady` says that a run inspected one
container and that nothing replaced it, rebooted the host or hid Docker since, and
`whole` that the restart count on record was read from every container.

### Delivery and the code

A post is one step from its sleep to its answer, so `clock` is the time since
the run began and `at` the post the loop is at.  A request gives up at the
client's timeout or at the context's deadline, whichever is first (`GivesUp`);
sleeps do not look at the context.  `Accepted`, `Refused`, `Limited` and `Broken`
are the ways out of one turn of the loop in `post`; `PingAnswered`, `PingRefused`
and `PingFails` of the one in `ping`.  Reading the body and rendering take no
time; a decision whose target has no URL or does not render is not a post.

### Exceptions, Sampling and the code

A rule's `match` maps each field it gives to the set of values its glob accepts,
so `MatchSpec` is the conjunction of `matchSpec` and a glob is never spelled out.
A container offers its short service name and its key, an observation only the
short name, as `targetFromContainer` and `targetFromObs` have it.  `ApplyRule` is
mute, then threshold, then retier; `Transformed` folds the live rules in their order
over one observation, and `Apply` is that of each, with a warning per expired rule.  `now` is in parts of
a day of `Day`, so the last day of a rule has an inside.

`stage` is how far `collectDocker` has come, `worker` the goroutine of each listed
container, `found` the `Container` structs it fills.  `Acquire` and `GiveUp` are the
two arms of the select (the first stays possible after the deadline: Go chooses at
random among those that are ready), `Inspected` and `InspectFails` the ways out of
`inspectInto`, which give the slot back in the same step.  `expired` is `dctx` being
done.  `ComesUp`, `GoesDown` and `Removed` are Docker changing under the run.
`Evaluate` is `EvaluateAll` for the three checks that walk containers, followed by
`Apply`; what it needs besides (rules, time, whether meminfo was read, what the
history says of crashes) is one of the `Cases`.  Which container represents a
service depends on the list's order and on finish times, and is left open among
those the code can pick.  Container states other than running are one state,
`exited`; sums are in whole units, and the reserve is part of `Usable`.  The
identity of a container is the same in the list and in its inspection.  What a
running container's cgroup shows is one of its `Views`, read with `ReadCgroup`.

### Sentinel and the code

A command meets a `situation`: a configuration file, what the environment has for
its reference, a host, and whether Docker is `busy`.  `Load` and `Refused` are
`config.Load` with `Decode` and `Validate`; `CheckPasses`, `Probe` and
`SelftestEnds` the commands `check` and `selftest`; `ReadHost`, `CollectDocker` (the
steps of `Sampling`) and `EvaluateAll` those of `run` up to the report (`Build`).
What a probe of selftest finds is a choice.  What becomes of the observations after
the report is `AlertMachine`'s, what becomes of the run `RunLifecycle`'s.

`Configuration`: percentages are whole numbers and ratios hundredths; a threshold
may be `NaN`, which TOML has and no comparison holds of, so that
`requirePercent`, which rejects what it finds out of range, lets it through, and
`requireOrdered` does not.  `ByteSizes` is the set of what `ParseByteSize` may
return, of a number in hundredths: a fraction of a byte is cut off, and a number no
int64 can hold is converted as the machine pleases.  TOML
syntax, durations and unknown keys are flags of the file.  Left out of validation:
the heartbeat's address and mentions.

`HostReaders`: a file of `key value` lines is a function from the keys whose lines
parse, so an unreadable file and one without the lines look alike, as they do to
the code.  `CollectDisks` is one reading per device, under the first path that can
be read.  Stat and statfs fail independently: a path whose stat fails has device 0
(`Device`), as in the code.  A container's cgroup is a `view`: what `/proc/<pid>/cgroup` says and which
directories there are, with or without a `memory.current`.  The path the process
names is final; only if it names none are the two layouts by id tried, and the first
with a `memory.current` taken.

`LevelChecks`: the three checks that have no memory, whole; and of `disk_fill`,
`swap_thrash` and `declared_overcommit`, whose figures are those of `HostChecks` and
`Sampling`, how they use their thresholds (`DiskFill`, `SwapThrash`, `UsableOf`), for
what validation lets through (`MemoryTiers`, `DiskTiers`, `RateAndBudget`).

`Globs`: `GlobMatch` is the loop of `globMatch` as a function of its four variables,
over the `Cursors` the loop can be at (past their star, and past what it gave up);
`ShellMatch` is the reference definition.

### HostChecks and the code

`used` and `pswpin` are the host's figures, `snap` the part of the snapshot the two
checks read.  `Run(statfs, vmstat, id)` is `UpdateBaselines` after a run that could or
could not read the filesystem, the counters and the boot id (`NoBoot` is the empty
string).  `DiskVerdict` and `SwapVerdict` are what a run would say that began now, so
their properties are invariants.  Rates are fixed-point: `Scale` is a common
multiple of the intervals times the halvings, so that `\div` loses nothing in the
run.  `Window` is what the last readings were by the history, not by the ring.
A host without swap never pages and is left out.

## Runs

| Run | Shows | Bounds |
|---|---|---|
| `alert` | `TypeOK`, `FireNeedsSustainedBad`, `EpisodeEndsByRecovery`, `ReminderNeverStarved`, `NoEarlyReminder`, `ResolvedGoesToTold`, `BlindnessSaidOnce`, and `KeepsContract`: the machine implements `AlertContract` | one Docker key that may be muted at any observation, 5 runs, clock readings 1..4 in any order, flap 2/2/1, cooldown 3/2/0, two channels of which one has a floor, outages |
| `run_faults` | `OneFirePerLoss`, `FailureIsPinged`, `RunNumberIsFresh`, `SuccessIsEarned`, `DryRunIsHarmless`, `RunEnds` | 3 runs, every fault, one save undone by a loss of power, one tier routed to nobody |
| `watchdog` | `AlarmsOnRecord`, `FiresOnce`, `AlarmIsHeard`, `EndIsHeard` | two processes without end, tiers ALERT and PAGE, flap 2 and 1, two channels, a cooldown of one tick |
| `crash_loop` | `AlarmIsReal`, `CrashesAreRemembered`, `LoopIsCaught` | 2 containers that restart in place, are replaced and removed, 4 seconds, window 2, 2 boots, outages, failed inspections, lost state |
| `sampling` | `BudgetIsWhole`, `LimitsAreTrue`, `NeverAbsent`, `NothingHidden`, `ExpiredRulesAreInert`; `AcceptedIsUsable`, `PatternsAreGlobs`, `PartialReadsAreSafe`, `EveryPathIsSpokenOf`, `ExitIsHonest`, `CommandEnds` | the program: some 1,600 configuration files; some 1,800 hosts, 1,110 that vary memory and 729 that vary disks; selftest; and a run at a busy Docker with 3 containers, two of one service, two inspections at a time, a container changing meanwhile, seven cases of rules, dates and crash counts |
| `host_checks` | `DiskAlarmIsReal`, `FillIsSeen`, `SwapAlarmIsReal`, `ThrashIsSeen` | 3 runs, ring of 2, clock 1..3 with one step to any reading, 2 boots, any failed reads, lost state |
| `delivery` | `TakenAtMostOnce`, `RunIsBounded`, `RequestsAreSpaced`, `PingedUnlessLate` | 4 posts, the code's durations in quarter seconds |

Why the bounds are enough.  Five runs hold a full episode with damping (2) and
recovery (2) and one more; four clock readings hold a step back from beyond a
cooldown of 3; tiers are all three there are.  Three runs in the lifecycle
hold a FIRE, what goes wrong, and the run that would repeat it; the properties
compare one run with the next.  Two containers
reach the threshold of two crashes; a window of 2 in 4 seconds expires events.
Four posts with a full Retry-After or timeout each do not use up the two
minutes, but a late start with them does, so both sides of the deadline occur.

Three containers and two slots make one goroutine wait for another; the cases hold
a rule on its last day and one day later, an exclusion that has and has not
expired, two rules that re-decide one observation, and a sum that is over or not
depending on whether a cgroup was read.  Three readings through a ring of two let
one go, and one step of the clock among them makes an interval zero, negative or
too short.

Two processes are what it takes to overlap; a third adds only more of the same,
since a save replaces the whole file.  A horizon of one tick tells a reminder that is
due from one that is not, and one tier that fires at once and goes to both channels
and one that damps and goes to one make a channel that is told and one that is not.

A configuration file edits one section of the shipped one at a time and gives its
fields every value on either side of each limit, and NaN: the sections are validated
independently, but for targets and routing, which are edited together.  Patterns have
up to four characters of `a`, `b`, `*`, `?` and names up to four of `a`, `b`: two stars,
with a false start after the first, fit in.  Sizes are 1.5, 3 and 7
of a unit and what no integer can be.  A host lacks any one line, MemAvailable,
or both; three paths lie on three devices in all ways, and of each stat, statfs or
both work.  The run has some 133,000 distinct states; every exception that its
properties name does occur in it: a `nan` for each of the five thresholds, and a
verdict made up in each of the three ways of `MadeUp`.

Deadlock is checked for `delivery` and `sampling`, which end in an explicit
step that changes nothing, and for `watchdog`, which never stops; the others stop at
their bound on runs or on time.

These runs find the code at odds with what it or its documents say; each is a
run that must fail, listed with the quoted line under `findings` in
`PROJECT.json`:

| Run | Property | What happens |
|---|---|---|
| `replicas_resolve_early` | `EpisodeEndsByRecovery` | two containers of one service share an `unbounded_mem` key, and one run's two OK observations count as two samples |
| `resolved_without_fire` | `ResolvedWasTold` | a key that fired while muted is resolved, unmuted, to channels that never heard of it |
| `crash_failed_look` | `FailureIsHarmless` | a service first seen uninspected gets a baseline of 0; an outage prunes the baseline |
| `budget_unread` | `NeverUnderReported` | a container whose cgroup cannot be read counts with the floor, and the budget is OK |
| `unknown_redecided` | `UnknownStaysUnknown` | a rule with a threshold turns UNKNOWN into OK |

`crash_loop` passes although it allows failed inspections and outages, because its
properties ask only of what they can know: `AlarmIsReal` while the count on record
is `whole`, `LoopIsCaught` while the service is `steady`.  In the same way `alert` passes
with mutes: `ResolvedGoesToTold` asks of the episodes in which nothing was muted.  `sampling` passes with the
same rules as `unknown_redecided`: its properties speak of the other checks, and of
breaches rather than of what is unknown.

Four disagreements have no run that fails.  There the property of a passing run
says exactly what the code does, the exception included and named in its comment, so
that nothing else can hide behind it; each is under `findings` as well:

| Run | Property | What it states |
|---|---|---|
| `run_faults` | `FailureIsPinged` | of all ends with an error, only a configuration that does not load is not pinged (`main.go:74`, against `05-alerting.md:107`) |
| `sampling` | `AcceptedIsUsable` | which five thresholds may be `nan` (`validate.go:238`, against `06-config.md:84`), and what becomes of each check: `disk_inodes`, `swap_thrash`, the projection of `disk_fill` and the guard of `committed_as` never fire, and `declared_overcommit` has nothing to promise, so that it ALERTs of whatever is declared |
| `sampling` | `PartialReadsAreSafe` | a line missing from meminfo hides no breach, but makes one up (`MadeUp`): without MemAvailable `mem_pressure` judges the free memory, and PAGEs if MemFree is missing too (`procfs.go:52`, against its comment); without SwapTotal the guard of `committed_as` ALERTs (`mem.go:60`) |
| `sampling` | `EveryPathIsSpokenOf` | paths whose stat fails while statfs works pass for one device, and all but one are dropped (`disk.go:34`, against `disk.go:17`) |

Other places where the code and its documents differ, met on the way and not
covered by a property: the restart delta is one per run and the
threshold one per window (`crashloop.go:62`, `04-checks.md:124`); exit events of a
service that is gone are never trimmed, so its entry stays (`baseline.go:39`,
`io.go:132`); a Slack that does not answer uses up the context of the run, so that
the success ping is given up without an attempt (`run.go:107`,
`05-alerting.md:105`), and makes the run outlast the timer's interval
(`main.go:82`, `02-architecture.md:43`); the spacing of posts allows four a second to
one channel (`send.go:16`, against its comment's "~1 msg/sec"); one remembered exit below the threshold is
enough to say OK of a service whose running container was not inspected
(`crashloop.go:75`, against `crashloop.go:73`); the rename is lost with the power after
the FIRE was sent, and the next run sends it again (`io.go:71`, against `run.go:95`;
`OneFirePerLoss` bounds it); a threshold rule that says OK resets the tier, so a
later, stricter rule promotes at WARN what the check fires at ALERT
(`except.go:178`, `crashloop.go:90`); a `service` pattern that only matches the full
service key excludes from the budget and does not mute (`except.go:62`); the fill
rate does not warm up after a reboot (`disk.go:83` says it does), and a step of the
clock that leaves a short interval makes it too steep (`disk.go:100`).

The same of configuration and readers: a pattern tries an equal character before its
star, so `*` does not match a name that begins with a star (`except.go:230`, against
`except.go:221`; `PatternsAreGlobs` speaks of names without one); the `tier` a check
overrides is validated and never applied (`validate.go:152`); `requirePositive` has no
upper bound, so a threshold of `inf` is accepted like one of `nan`; a
configuration that does not load ends the run at once, without the last known good one
and the alert that `06-config.md:91` promises; `swap_thrash` says "no swap" of a
host whose meminfo and swaps cannot be read, against `sample.go:4`; a container in a
cgroup namespace of its own names a path that is not there, and the layouts by id are
not tried; `disk_inodes` walks the paths of `disk_fill`, so it says nothing at all
where that check is off and has no paths; its key moves to another path of the device
when the first one fails.  RESOLVED is posted once: a kill or a failed post loses it
for good (`05-alerting.md:82`; the `missed` of `Watchdog`), and two runs at once can
both fire and leave a channel with an alarm that only the next episode corrects (its
`overlapped`).

Every property of a passing run has a mutant in `PROJECT.json`: a definition of
the model changed as a plausible bug would change the code, under which TLC
finds the property violated.

## Fairness

`run_faults` states weak fairness of `Process`, the steps a run takes by itself.  The code justifies it: the process waits for nothing without
a timeout (the HTTP clients, the Docker client, the context), and a `Kill` ends
the run.  The timer is not fair, nor is any fault.  With it, `RunEnds` holds.

`watchdog` states weak fairness of `Tick` and of the steps of each process: the timer
starts a run again 60 s after the last (`OnUnitActiveSec`), a run waits for nothing
without a timeout, and time passes.  An operator's runs are not fair in their start,
only in going on once begun; faults are not fair.  `AlarmIsHeard` and `EndIsHeard` speak
of what follows once the condition stays and nothing fails any more (`CalmDown`, which
need not happen): no schedule makes a channel hear that never answers.

`sampling` states weak fairness of `Program`: each of its steps waits at most for
a timeout (the Docker client's per call, the deadline's own timer, those of selftest),
and Docker's own changes are not fair.  With it, `CommandEnds` holds, even if the
deadline only passes when nothing else can happen.

## Proofs

Every invariant and every action property of every passing run is also a theorem,
and so is the refinement `KeepsContract`, of all of `AlertMachine`.

### What the theorems assume

The constants are whatever these assumptions, which TLC evaluates in the runs, admit:

* `ConfigAssumption` (`AlertMachine`), `WatchdogAssumption`: what `Validate` accepts.
  Damping and `ResolveSamples` are positive, cooldowns natural numbers; nothing is
  asked of the routing or of the clock.  `FaultsAssumption`: any set of faults.
* `CrashLoopAssumption`, `HostAssumption`: positive thresholds, windows, rings and
  rates; the two levels of `disk_fill` in order, as `Validate` has them.
* `DeliveryAssumption`: a run begins before its deadline; a Retry-After that is waited
  for is at least the spacing and at most its cap.
* `SamplingAssumption`: sizes are numbers; a container that can be read uses at least
  its working set, caches included; rules are those `Validate` accepts.
* `ConfigurationAssumption`, `SituationsAssumption`: fields have the types TOML gives
  them (`WellTyped`: a threshold is an integer or `NaN`); the secret of the environment
  is not a reference again; what can be read of a host is the truth, and MemAvailable is
  not below MemFree (`PlausibleHost`; any line may be missing).  `SubjectsAssumption`:
  names have no star.  `ShippedAssumption` ties the constants of `Sampling` to the shipped
  configuration.

Four theorems need more, stated as their hypothesis:

* `OnePerRun` (`\A k : Replicas[k] = 1`): one observation of a key per run.  Without it
  `FireNeedsSustainedBad` and `EpisodeEndsByRecovery` are false, as the counters count
  observations and not runs: `replicas_resolve_early` is the counterexample.
  `OneFirePerLoss` is false as well (with two replicas and `ResolveSamples = 1` one run can
  resolve a key and fire it again).  In the code every check has one observation per
  key and run, but for `unbounded_mem` of services with several containers on the host.
* `WholeSlopes` (every interval divides `Scale`): the rates of `HostChecks` are
  fixed-point, and the code's are floating-point.  A slope that `\div` rounds down could be
  missed by the model for no reason of the code's, so `FillIsSeen` is stated of the
  instances where nothing is rounded.  The run is one of them.  What no rounding can
  make, a false alarm, is proved of all (`NoFalseProjection`).

### The theorems and the invariants under them

None of the properties is inductive by itself.  What has to be added, and why:

* **`AlertMachineProofs`**: `TypeCorrect`, and `ContractKept` (`Spec => KeepsContract`).
  The refinement maps a key to its episode when it is firing.  The strengthening is
  `Untold`: a key that is not firing has no notified channels, so a new episode starts
  with none.  Each handler maps to one action of the contract or to a stutter
  (`ObserveRefines`).
* **`AlertHistoryProofs`**: `HistoryInv` relates the record of each key to its history.
  `InTime`: a key measured BAD in this run was notified within its cooldown of now
  (`RemindersKeepComing`: the clamp sees to it after a step back).  `Patient`: the
  machine never believes it waited longer than the clock went forward
  (`RemindersWaited`).  `Remembered`: the channels on record are those that were told,
  unless something was muted (`ResolvedReachesTold`).  `Reported`: the flag for
  blindness says whether blindness was said (`BlindnessIsSaidOnce`).  Under
  `OnePerRun`, `CountInv` adds that a run looks at a key once (`LookedOnce`) and that no
  counter is ahead of the runs in a row that measured so (`DampingHonest`,
  `RecoveryHonest`): `FiresOnSustainedBad`, `EndsByRecovery`.
* **`RunLifecycleProofs`**: `RInv` has the types of process and file, `Dated` (no table is
  ahead of its run number), `Untouched` (a key the run has not looked at is as the file
  has it), `HonestPings`, and `OnFile` (a run that delivers has its own snapshot on
  file and is not dry).  From it `FailuresArePinged`, `RunNumbersAreFresh`,
  `SuccessIsHonest`, `DryRunsAreHarmless` (which speaks of the pings too: a dry run that
  cannot load its state pings failure).  `NoStorm` adds `NewlyFiring` (a FIRE is decided
  only of a key that does not fire on file), `Owed` (a FIRE in the outbox is on file,
  and each one posted before was undone) and `Budget` (the FIREs that went out are at
  most the saves undone, and one more while the file has the key firing).
* **`WatchdogProofs`**: `WatchdogInv`, for any number of processes.  At rest the property is
  its own invariant (`OnDisk`); a run under way holds a copy the file does not have yet,
  or a file whose posts are still out, so `Decided` says that everyone who believes
  in an alarm is on the record the run holds, or is owed the all-clear in its outbox.
  `OneAtATime` ties all of it to runs that did not overlap.  From it `BelieversOnRecord`
  and `NoSecondFire`.
* **`CrashLoopProofs`**: `CrashesRemembered` rests on `Corpses` (a crash stays with its
  container, which is a corpse or gone) and `Remembered` (the events of the entry are the
  crashes that runs have seen, each until it leaves the window): the property says
  nothing of the events that the next run will merge.  `NoFalseAlarm` adds `Baselined`:
  while the count on record is `whole`, no listed container has restarted more often
  since than the history says (without `whole`, `crash_failed_look` is the
  counterexample).  `NoMissedLoop` rests on the converse, `Followed`: while `steady`, the
  one container is ahead of its record by just what the history says.
* **`HostChecksProofs`**: `NoFalsePage` rests on `Accounted` (the counter exceeds its
  baseline by at most what came in since, also when it began again at a reboot),
  `ThrashIsPaged` on `Current` (by all that came in since, if the baseline is of this
  boot).  `NoFalseProjection` and `NoFillMissed` rest on `Ring` (the ring of the snapshot
  is the last readings), `NoFillMissed` also on `Dated` (all of them are in the clock's
  range); then on an average that stays on one side of what all of its slopes are on
  one side of, by induction along the ring.
* **`DeliveryProofs`**: `TypeCorrect`; `NoDuplicates` by `Untaken` (a post Deliver has not
  finished with has not been taken: the only retry follows a 429); `Bounded` by `Budget`
  (what the posts and pings so far may have cost beyond the deadline); `Spaced` by
  `Rested` (where the loop does not sleep before a request, the spacing is behind it
  already); `PingGetsThrough` by `Tried` (every attempt that was made failed on the
  network, or the deadline has passed).
* **`SentinelProofs`**: `SentinelInv` has one part per stage of a command.  `CollectInv`
  is the fan-out: what ran all the while is listed as running, and what an inspection
  filled in is true.  `Configured`: nothing happens without a configuration that is in
  order.  `HostIsRead`: the level checks speak of what was read of the host.  `Silent` and
  `Judged`: nothing is said before the end, and then the rules were applied to true
  measurements of everything.
  `LimitsAreHonest`, `NothingIsAbsent` and `BudgetIsComplete` follow, the last but for
  containers whose cgroup was not read (`Unread`; with them it is false, and
  `budget_unread` is the counterexample); the sum of the budget is over a set, and its induction (`IsSum`) takes members away one by one.
  `ExpiredRulesOnlyWarn` and `MutesOnlyRelabel` go along the fold of the rules over an
  observation: what each rule keeps, all of them keep.
  `ExitIsEarned` and `AcceptedFilesAreUsable` go through `Validate`, the latter with `NaN`
  for any threshold: where order is demanded it is refused (`FourLevels`,
  `ThreeLevels`), elsewhere the statement says what the check then does.
  `MissingLinesHideNothing` compares the verdicts on a host with those on
  the same host with lines missing.  `PathsAreSpokenOf` is an induction along the list
  of paths (`IsWalk`), each standing for the device it passes for.
  `PatternsMatchAsInShells` is the correctness of `globMatch`.  Every turn of the loop
  lowers a `Rank` (how many stars may follow, then what the star may still give up,
  then what is left of the subject), so the loop has a value.  Along it, `Aligned`
  says that since the star last gave up a character no star was passed and pattern and
  subject were taken one for one, and `Answer` is what the loop must come to: the rest
  matches here, or what follows the star matches further on.  That forgetting earlier
  stars loses nothing is `FurtherOn`.

### How induction is done

The induction theorems of the library take an operator as a parameter and cannot be used
with the provers at hand.  The fact that a nonempty set has a minimal element for a
well-founded relation (`WFMin`) takes a set, and gives induction for sets of numbers
(`SetInduction`).  A recursive function is then shown to exist and to satisfy its
equation (one lemma each: `WalkExists`, `LoopExists`, `FromExists`, ...), and what it
computes follows by induction over its domain.  No module declares a RECURSIVE
operator.

### What is only model-checked

* `RunEnds`, `AlarmIsHeard`, `EndIsHeard` and `CommandEnds`: liveness under fairness, and
  ENABLED, are out of the prover's reach.
* The properties of the runs that must fail, which are false.

## What is not modelled

* The negotiation of Docker's API version and its JSON; TOML and JSON syntax.
* What is read and judged by no check of this version: load averages, OOM kills, CPU
  throttling, `memory.max`.
* Texts: report summaries, Slack payloads, journal lines, mentions; and the fields of
  the snapshot that only texts read.
* The installers and the unit files (shell and systemd), but for the timer's interval,
  the order of its runs and the memory cap that kills one.
* Thresholds of `inf`, and percentages with fractions: the thresholds of the model are
  integers or `NaN`.  An `inf` passes where there is no upper bound: as a level it is never
  reached, and as `days_to_full_alert` it is always (`disk.go:64`).
* A boot id that cannot be read on both sides of a reboot, in `CrashLoop` (the code
  then compares restart counts of two boots); `HostChecks` has it.
* Exceptions and several keys in `Watchdog`, and a stepped clock there: keys share
  nothing in `Advance` but the file, and the other modules have both.

## Plan

What is left is to prove more of what the runs show, or to need less for it:

* a bound in observations instead of runs for `FireNeedsSustainedBad` and
  `EpisodeEndsByRecovery` that holds for any `Replicas`, so that `OnePerRun` is only needed to
  read it as runs;
* that `Watchdog`'s runs are those of `RunLifecycle` for one key: its `Start` is one
  run of the machine over a copy;
* the safety half of the liveness properties: what may keep a run from its end is a
  finite number of steps (a variant for `Process` and for `Program`);
* one lemma about functions defined along a list for the folds, walks and sums of
  `SentinelProofs` and `HostChecksProofs`, which now have one each.
