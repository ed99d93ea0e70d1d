------------------------------- MODULE Sentinel -------------------------------
(***************************************************************************)
(* The program from its command line on: main loads the configuration, and *)
(* either says what it thinks of it (check), probes what it names          *)
(* (selftest), or reads the host, collects from Docker as in Sampling,     *)
(* evaluates and builds the report (run).  What becomes of the             *)
(* observations is AlertMachine's, what becomes of the run RunLifecycle's. *)
(***************************************************************************)
EXTENDS Sampling, LevelChecks, Globs

CONSTANTS
    Situations,     \* what a command may meet: [command, file, secret, host, busy]
    Shipped,        \* the configuration whose figures Sampling's constants are
    Subjects        \* names a pattern may be matched against

\* What the model takes from a file has the shape and the types it has in Config.
WellTyped(file) ==
    /\ {"targets", "mem_pressure", "committed_as", "declared_overcommit", "disk_fill",
        "disk_inodes", "swap_thrash", "exceptions"} \subseteq DOMAIN file
    /\ \A name \in DOMAIN file.targets : "url" \in DOMAIN file.targets[name]
    /\ {"headroom_reserve_pct", "headroom_floor"} \subseteq
          DOMAIN file.declared_overcommit
    /\ LET mp == file.mem_pressure
           ca == file.committed_as
           df == file.disk_fill
       IN  {mp.warn, mp.alert, mp.page, ca.warn, ca.alert, ca.commit_vs_swap_ratio,
            df.warn, df.alert, df.days_to_full_alert, file.disk_inodes.alert,
            file.swap_thrash.pswpin_pages_per_sec,
            file.declared_overcommit.headroom_reserve_pct} \subseteq Int \cup {NaN}
    /\ LET paths == file.disk_fill.paths
       IN  Len(paths) \in Nat /\ DOMAIN paths = 1..Len(paths)
    /\ \A i \in DOMAIN file.exceptions : Len(file.exceptions[i].match.name) \in Nat

\* A situation's host is a record [truth, meminfo, swaps, mounted]: what
\* /proc/meminfo would say in full, what can be read of it, how many devices
\* /proc/swaps lists, and the filesystem behind each path.
PlausibleHost(h) ==
    /\ \A key \in {"MemTotal", "MemFree", "MemAvailable", "Committed_AS", "SwapTotal"} :
          key \in DOMAIN h.truth /\ h.truth[key] \in Nat
    /\ \A key \in DOMAIN h.meminfo : h.meminfo[key] = h.truth[key]
    /\ h.truth["MemAvailable"] >= h.truth["MemFree"]
    /\ h.swaps \in Nat \cup {Unreadable}

\* The environment's value of a secret is no reference itself.
ASSUME SituationsAssumption ==
    \A s \in Situations :
        /\ s.command \in {"run", "check", "selftest"} /\ s.busy \in BOOLEAN
        /\ s.secret # "${URL}"
        /\ WellTyped(s.file) /\ PlausibleHost(s.host)

\* A star is not a character of names.
ASSUME SubjectsAssumption ==
    \A name \in Subjects :
        Len(name) \in Nat /\ \A i \in 1..Len(name) : name[i] # "*"

\* Sampling checks its containers against the configuration that is shipped.
ASSUME ShippedAssumption ==
    /\ Concurrency = Shipped.inspect_concurrency
    /\ Floor = Shipped.declared_overcommit.headroom_floor
    /\ Restarts = Shipped.crashloop.restarts

VARIABLES
    situation,      \* what this command meets, which does not change
    cfg,            \* the configuration, once it is loaded
    host,           \* what the run read of the host
    verdicts,       \* what the level checks said of it
    probes,         \* the results of selftest's probes so far
    report,         \* what the run wrote down
    exit            \* the exit code

ours == <<situation, cfg, host, verdicts, probes, report, exit>>
svars == <<vars, ours>>

Nothing == [loaded |-> FALSE]
NotRead == [read |-> FALSE]
NoReport == [findings |-> {}, suppressed |-> {}]
Going == -1

Loaded == cfg # Nothing
Command(c) == situation.command = c /\ exit = Going

-----------------------------------------------------------------------------
(* config.Load *)

Load ==
    /\ exit = Going /\ ~Loaded
    /\ cfg' \in {c \in Decode(situation.file, situation.secret) : Validate(c)}
    /\ UNCHANGED <<vars, situation, host, verdicts, probes, report, exit>>

Refused ==
    /\ exit = Going /\ ~Loaded
    /\ LET files == Decode(situation.file, situation.secret)
       IN  files = {} \/ \E c \in files : ~Validate(c)
    /\ exit' = 1
    /\ UNCHANGED <<vars, situation, cfg, host, verdicts, probes, report>>

CheckPasses ==
    /\ Command("check") /\ Loaded
    /\ exit' = 0
    /\ UNCHANGED <<vars, situation, cfg, host, verdicts, probes, report>>

-----------------------------------------------------------------------------
(* Selftest: the two directories, Docker, then the targets *)

Probed == 3 + Cardinality(DOMAIN cfg.targets)

Probe(ok) ==
    /\ Command("selftest") /\ Loaded /\ Len(probes) < Probed
    /\ probes' = Append(probes, ok)
    /\ UNCHANGED <<vars, situation, cfg, host, verdicts, report, exit>>

\* SelftestEnds gone wrong: the last probe decides.
SelftestEndsOnLast ==
    /\ Command("selftest") /\ Loaded /\ Len(probes) = Probed
    /\ exit' = IF Last(probes) THEN 0 ELSE 1
    /\ UNCHANGED <<vars, situation, cfg, host, verdicts, probes, report>>

SelftestEnds ==
    /\ Command("selftest") /\ Loaded /\ Len(probes) = Probed
    /\ exit' = IF \A i \in DOMAIN probes : probes[i] THEN 0 ELSE 1
    /\ UNCHANGED <<vars, situation, cfg, host, verdicts, probes, report>>

-----------------------------------------------------------------------------
(* Collect, EvaluateAll and Build *)

ReadHost ==
    /\ Command("run") /\ Loaded /\ host = NotRead
    /\ LET mem == ReadMeminfo(situation.host.meminfo)
       IN  host' = [mem   |-> mem,
                    swap  |-> SwapPresent(mem, situation.host.swaps),
                    disks |-> CollectDisks(cfg.disk_fill.paths, situation.host.mounted)]
    /\ UNCHANGED <<vars, situation, cfg, verdicts, probes, report, exit>>

\* collectDocker, once the host is read.
CollectDocker ==
    /\ Command("run") /\ host # NotRead
    /\ \/ DeadlineHits \/ PingAnswered \/ Unreachable \/ Listed
       \/ \E c \in Containers : Goroutine(c)
       \/ Gather
    /\ UNCHANGED ours

Build(obs) ==
    [findings   |-> {o \in obs : ~o.suppressed},
     suppressed |-> {o \in obs : o.suppressed}]

\* The checks of the host and those of the containers see the same sample.
EvaluateAll ==
    /\ Command("run") /\ host # NotRead
    /\ Evaluate
    /\ given'.memory = (host.mem.health = "OK")
    /\ verdicts' = LevelObservations(cfg, host)
    /\ report' = Build(observations')
    /\ UNCHANGED <<situation, cfg, host, probes, exit>>

-----------------------------------------------------------------------------
\* Docker has nothing running where it is not what the situation is about.
SInit ==
    /\ situation \in Situations
    /\ docker \in IF situation.busy THEN [Containers -> {"new", "running", "exited"}]
                 ELSE {[c \in Containers |-> "new"]}
    /\ Init
    /\ cfg = Nothing /\ host = NotRead /\ verdicts = {}
    /\ probes = <<>> /\ report = NoReport /\ exit = Going

Program ==
    \/ Load \/ Refused \/ CheckPasses
    \/ (\E ok \in BOOLEAN : Probe(ok)) \/ SelftestEnds
    \/ ReadHost \/ CollectDocker \/ EvaluateAll

Surroundings == situation.busy /\ Environment /\ UNCHANGED ours

Over == exit # Going \/ stage = "done"

SNext == Program \/ Surroundings \/ (Over /\ UNCHANGED svars)

\* Everything the program waits for has a timeout of its own.
SSpec == SInit /\ [][SNext]_svars /\ WF_svars(Program)

-----------------------------------------------------------------------------
(* Properties *)

\* Whatever the command meets, it comes to an end: the file is refused, a probe
\* times out, wg.Wait in collectDocker returns.
CommandEnds == <>Over

\* Samples and cooldowns of every check and tier are in range whatever overrides
\* them, channels exist and have an address, and the floor is what the file says
\* unless no byte count can be.
AlertingIsDefined ==
    /\ cfg.resolve_samples >= 1
    /\ \A check \in Phase1CheckIDs \cup {"exception_expired"}, tier \in Tiers :
          FlapSamplesOf(cfg, check, tier) >= 1 /\ CooldownOf(cfg, check, tier) >= 0
    /\ \A tier \in Tiers : \A name \in cfg.routing[tier] :
          name \in DOMAIN cfg.targets /\ cfg.targets[name].url \notin {"", "${URL}"}
    /\ LET size == situation.file.declared_overcommit.headroom_floor
           bytes == (size.number * Units[size.unit]) \div 100
       IN  size.number # NaN /\ bytes <= MaxBytes =>
               cfg.declared_overcommit.headroom_floor = bytes

\* A host of which `used` in a hundred are used; one that has promised so many
\* hundredths of twice its memory and has so much swap; a filesystem with `used` in
\* a hundred inodes used.
Sample(used) ==
    [health |-> "OK", total |-> 100, available |-> 100 - used, committed |-> 0, swap |-> 0]
Promise(committed, swap) ==
    [health |-> "OK", total |-> 200, available |-> 200, committed |-> committed,
     swap |-> swap]
Inodes(used) ==
    [path |-> "", health |-> "OK", device |-> 0, inodes |-> 100, inodesUsed |-> used]

\* Every tier that a check compares with a threshold, and its being content, has a
\* host: of load, of promises with and without swap, of space now and to come, of
\* inodes, of pages a second, and of memory to promise.
MemoryTiers ==
    LET mp == cfg.mem_pressure
        ca == cfg.committed_as
        ratio == ca.commit_vs_swap_ratio
    IN  /\ mp.enabled => {Severity(MemPressure(mp, Sample(used))) : used \in 0..100} = 0..3
        /\ ca.enabled =>
              /\ {Severity(CommittedAS(ca, Promise(p, 100 * p))) :
                      p \in {1, 2 * ca.warn, 2 * ca.alert}} = 0..2
              /\ ratio \notin {0, NaN} => SwapGuard(ca, Promise(2 * ratio + 1, 0))

DiskTiers ==
    LET df == cfg.disk_fill
        di == cfg.disk_inodes
    IN  /\ df.enabled =>
              /\ {Severity(DiskFill(df, used, {})) : used \in 0..100} = 0..2
              /\ Severity(DiskFill(df, 0, {0})) =
                    IF df.days_to_full_alert = NaN THEN 0 ELSE 2
        /\ di.enabled => {Severity(DiskInodes(di, Inodes(used))) : used \in 0..100} =
                             IF di.alert = NaN THEN {0} ELSE {0, 2}

RateAndBudget ==
    LET rate == cfg.swap_thrash.pswpin_pages_per_sec
        do == cfg.declared_overcommit
    IN  /\ cfg.swap_thrash.enabled =>
              {Severity(SwapThrash(cfg.swap_thrash, r)) : r \in {0, rate} \ {NaN}} =
                  IF rate = NaN THEN {0} ELSE {0, 3}
        /\ do.enabled => \A usable \in UsableOf(do, 100) :
                             usable >= 1 <=> do.headroom_reserve_pct # NaN

\* What check passes is what the alert machine and the checks are built on: no
\* override, target or size of an accepted file leaves an alert undefined, and no
\* threshold leaves a tier out of reach, but for what validate.go 238-248 lets
\* through against 06-config.md 84: with NaN for it, disk_inodes, swap_thrash, the
\* projection of disk_fill or the guard of committed_as never fires, and
\* declared_overcommit has nothing to promise.
AcceptedIsUsable ==
    exit = 0 => AlertingIsDefined /\ MemoryTiers /\ DiskTiers /\ RateAndBudget

\* A rule of a file that check passes matches what a shell would have its pattern
\* match, so a mute reaches the containers it is meant for and no other.
PatternsAreGlobs ==
    exit = 0 => \A i \in DOMAIN cfg.exceptions : \A subject \in Subjects :
        LET pattern == cfg.exceptions[i].match.name
        IN  GlobMatch(pattern, subject) = ShellMatch(pattern, subject)

\* What the level checks would say had all of the files been read.
InFull(check) ==
    LET mem == ReadMeminfo(situation.host.truth)
    IN  IF check = "mem_pressure" THEN MemPressure(cfg.mem_pressure, mem)
        ELSE CommittedAS(cfg.committed_as, mem)

\* What mem_pressure would say of the memory that is free.
OfFree ==
    MemPressure(cfg.mem_pressure, [ReadMeminfo(situation.host.truth) EXCEPT
                                      !.available = situation.host.truth["MemFree"]])

\* A verdict v that the file gives and the whole file would not: without
\* MemAvailable, what the free memory comes to, and PAGE when MemFree is missing as
\* well; without SwapTotal, ALERT, the promise being held against the memory alone.
MadeUp(v) ==
    LET missing == {"MemAvailable", "MemFree", "SwapTotal"} \ DOMAIN situation.host.meminfo
    IN  IF v.check = "committed_as" THEN "SwapTotal" \in missing /\ Severity(v) = 2
        ELSE /\ "MemAvailable" \in missing
             /\ Severity(v) = IF "MemFree" \in missing THEN 3 ELSE Severity(OfFree)

\* A file that lacks a line never hides a breach: a memory check says UNKNOWN or
\* what is no milder than the truth.  It can make one up, in the ways of MadeUp and
\* in no other (procfs.go 45-52, of which the comment at 49 means to keep a host
\* from reading as 100% used, and mem.go 60-62).  Swap that is listed anywhere is
\* not overlooked.
PartialReadsAreSafe ==
    host # NotRead =>
        /\ \A v \in verdicts : v.check \in {"mem_pressure", "committed_as"} =>
              /\ v.health = "UNKNOWN" \/ Severity(v) >= Severity(InFull(v.check))
              /\ Severity(v) > Severity(InFull(v.check)) => MadeUp(v)
        /\ (\/ host.mem.health = "OK" /\ Field(situation.host.meminfo, "SwapTotal") > 0
            \/ situation.host.swaps \notin {Unreadable, 0}) => host.swap

\* Every configured path is spoken of: one that cannot be read as UNKNOWN, one that
\* can through exactly one reading of what it passes for.  That is its device; but
\* those whose stat fails while statfs works all pass for device 0, so that one of
\* them is spoken of and the others are dropped, whatever they lie on (disk.go 34,
\* against disk.go 17: only what actually resolved is taken for the same).
EveryPathIsSpokenOf ==
    stage = "done" /\ "disk_inodes" \in Enabled(cfg) =>
        \A i \in DOMAIN cfg.disk_fill.paths :
            LET mounted == situation.host.mounted
                path == cfg.disk_fill.paths[i]
                spoken == {v \in verdicts : v.check = "disk_inodes"}
            IN  IF mounted[path].readable
                  THEN Cardinality({v \in spoken :
                           /\ v.health # "UNKNOWN"
                           /\ Device(mounted[v.scope]) = Device(mounted[path])}) = 1
                  ELSE \E v \in spoken : v.scope = path /\ v.health = "UNKNOWN"

\* An exit code of 0 is earned: what would run is valid, and selftest went all
\* the way and found everything in order.  A file that is refused, or not yet
\* accepted, has nothing read, asked or posted.
ExitIsHonest ==
    /\ exit = 0 =>
          /\ Loaded /\ Validate(cfg)
          /\ situation.command = "selftest" => probes = [i \in 1..Probed |-> TRUE]
    /\ ~Loaded => host = NotRead /\ stage = "ping" /\ probes = <<>>

\* A mute relabels, it never hides: what a check found BAD is in the report, and
\* BAD, unless a live rule that matches it asks for more than was measured.
NothingHidden ==
    stage = "done" => \A o \in raw : o.health = "BAD" =>
        \E p \in report.findings \cup report.suppressed :
            /\ SameKey(o, p)
            /\ p.health = "BAD" \/ Excused(o)
=============================================================================
