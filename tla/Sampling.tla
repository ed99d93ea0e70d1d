------------------------------- MODULE Sampling -------------------------------
(***************************************************************************)
(* One run's look at Docker: collectDocker with its bounded fan-out of     *)
(* inspections under one deadline, the checks that walk the containers     *)
(* (unbounded_mem, declared_overcommit, crashloop) and the exceptions      *)
(* applied to what they say.                                               *)
(*                                                                         *)
(* Containers come and go while the run looks.  An inspection reads its    *)
(* container whole or not at all; one that fails, or loses to the          *)
(* deadline, leaves what the list said.  The deadline can pass between any *)
(* two steps.                                                              *)
(***************************************************************************)
EXTENDS Exceptions, HostReaders, Integers, FiniteSets

CONSTANTS
    Containers,     \* container ids
    Identity,       \* their names, images, services and labels
    Limit,          \* HostConfig.Memory, 0 for none
    WorkingSet,     \* what they use
    Views,          \* how their cgroups may show
    Concurrency,    \* docker.inspect_concurrency
    Usable,         \* RAM less the reserve
    Floor,          \* declared_overcommit.headroom_floor
    Restarts,       \* checks.crashloop.restarts
    Cases,          \* what a run may find besides: [rules, now, memory, crashes]
    MaxChanges      \* bound on what Docker does while the run looks

\* The rules are what Validate lets through, and their thresholds and last days
\* are numbers.  A case's crashes give per service key the crashes of its window
\* and its restarts in place.  Used memory is the working set and caches, of
\* which memory.stat, if it can be read, names some.
ASSUME SamplingAssumption ==
    /\ IsFiniteSet(Containers) /\ NoContainer \notin Containers
    /\ Limit \in [Containers -> Nat] /\ WorkingSet \in [Containers -> Nat]
    /\ {Unreadable, Missing} \cap Int = {}
    /\ \A c \in Containers : \A view \in Views[c] : \A path \in DOMAIN view.tree :
          LET dir   == view.tree[path]
              cache == Field(dir.stat, "inactive_file")
          IN  dir.current \notin {Unreadable, Missing} =>
                 dir.current \in Nat /\ cache \in Nat /\ dir.current - cache >= WorkingSet[c]
    /\ Concurrency \in Nat \ {0} /\ Restarts \in Nat \ {0}
    /\ Usable \in Nat /\ Floor \in Nat /\ MaxChanges \in Nat /\ Day \in Nat \ {0}
    /\ \A case \in Cases :
          /\ case.now \in Nat
          /\ \A c \in Containers :
                LET crashes == case.crashes[Identity[c].key]
                IN  crashes.window \in Nat /\ crashes.delta \in Nat
          /\ Len(case.rules) \in Nat /\ DOMAIN case.rules = 1..Len(case.rules)
          /\ \A i \in DOMAIN case.rules :
                LET rule == case.rules[i]
                IN  /\ ValidRule(rule)
                    /\ rule.expires \in Nat \cup {NoExpiry}
                    /\ \A id \in DOMAIN rule.thresholds : rule.thresholds[id] \in Int

VARIABLES
    docker,         \* the truth: each container's state
    stage,          \* how far the run has come
    expired,        \* the collection deadline has passed
    worker,         \* the goroutine of each listed container
    health,         \* DockerInfo.Health
    found,          \* DockerInfo.Containers
    given,          \* the case this run met, once it evaluates
    raw,            \* what the checks said
    observations,   \* what is left of it after the exceptions
    changed         \* history: containers that changed while the run looked

vars == <<docker, stage, expired, worker, health, found, given, raw,
          observations, changed>>
results == <<given, raw, observations>>

Unlisted == [listed |-> FALSE, running |-> FALSE, inspected |-> FALSE,
             limit |-> 0, resolved |-> FALSE, used |-> 0]

-----------------------------------------------------------------------------
(* Docker *)

Become(c, state) ==
    /\ stage \in {"ping", "list", "inspect"} /\ Cardinality(changed) < MaxChanges
    /\ docker' = [docker EXCEPT ![c] = state]
    /\ changed' = changed \cup {c}
    /\ UNCHANGED <<stage, expired, worker, health, found, results>>

ComesUp(c)  == docker[c] \in {"new", "exited"} /\ Become(c, "running")
GoesDown(c) == docker[c] = "running" /\ Become(c, "exited")
Removed(c)  == docker[c] \in {"running", "exited"} /\ Become(c, "gone")

-----------------------------------------------------------------------------
(* collectDocker *)

DeadlineHits ==
    /\ stage \in {"ping", "list", "inspect"} /\ ~expired
    /\ expired' = TRUE
    /\ UNCHANGED <<docker, stage, worker, health, found, results, changed>>

PingAnswered ==
    /\ stage = "ping" /\ ~expired
    /\ stage' = "list"
    /\ UNCHANGED <<docker, expired, worker, health, found, results, changed>>

\* The ping or the list fails: the whole source is UNKNOWN.
Unreachable ==
    /\ stage \in {"ping", "list"}
    /\ stage' = "evaluate"
    /\ health' = "UNKNOWN"
    /\ UNCHANGED <<docker, expired, worker, found, results, changed>>

\* The list, exited containers included, and one goroutine for each.
Listed ==
    /\ stage = "list" /\ ~expired
    /\ stage' = "inspect"
    /\ health' = "OK"
    /\ found' = [c \in Containers |->
                    [Unlisted EXCEPT !.listed  = docker[c] \in {"running", "exited"},
                                     !.running = docker[c] = "running"]]
    /\ worker' = [c \in Containers |->
                    IF found'[c].listed THEN "waiting" ELSE "none"]
    /\ UNCHANGED <<docker, expired, results, changed>>

Worker(c, from, to) ==
    /\ stage = "inspect" /\ worker[c] = from
    /\ worker' = [worker EXCEPT ![c] = to]
    /\ UNCHANGED <<docker, stage, expired, health, results, changed>>

\* The semaphore has room; select may take it although the deadline has passed.
Acquire(c) ==
    /\ Cardinality({d \in Containers : worker[d] = "inspecting"}) < Concurrency
    /\ Worker(c, "waiting", "inspecting")
    /\ UNCHANGED found

GiveUp(c) == expired /\ Worker(c, "waiting", "returned") /\ UNCHANGED found

\* An answer in time; the cgroup of a running container is read as it shows.
Inspected(c) ==
    /\ ~expired /\ docker[c] # "gone"
    /\ Worker(c, "inspecting", "returned")
    /\ \E view \in Views[c] :
           LET stats == IF docker[c] = "running" THEN ReadCgroup(view) ELSE NoStats
           IN  found' = [found EXCEPT ![c] =
                  [listed |-> TRUE, running |-> docker[c] = "running",
                   inspected |-> TRUE, limit |-> Limit[c],
                   resolved |-> stats.health = "OK", used |-> stats.workingSet]]

\* InspectFails gone wrong: the inspection is tried again.
InspectAgain(c) == Worker(c, "inspecting", "waiting") /\ UNCHANGED found

\* An error, a container that is gone, the call's timeout or the deadline.
InspectFails(c) == Worker(c, "inspecting", "returned") /\ UNCHANGED found

\* wg.Wait
Gather ==
    /\ stage = "inspect"
    /\ \A c \in Containers : worker[c] \in {"none", "returned"}
    /\ stage' = "evaluate"
    /\ UNCHANGED <<docker, expired, worker, health, found, results, changed>>

-----------------------------------------------------------------------------
(* The checks that walk the containers *)

Running(c) == found[c].running
Excluded(case, c) == ExcludedFromBudget(case.rules, case.now, Identity[c])

\* Running containers that no live rule excludes.  Gone wrong: only the
\* inspected ones of them.
WalkedInspected(case) ==
    {c \in Containers : Running(c) /\ found[c].inspected /\ ~Excluded(case, c)}

Walked(case) == {c \in Containers : Running(c) /\ ~Excluded(case, c)}

\* An observation that is of no container, and one that is linked to one.
Unlinked(check, scope, h, tier) ==
    [check |-> check, scope |-> scope, of |-> NoContainer, health |-> h,
     tier |-> tier, value |-> 0, target |-> EmptyTarget, suppressed |-> FALSE]

Linked(check, c, h, tier, value) ==
    [check |-> check, scope |-> Identity[c].key, of |-> c, health |-> h,
     tier |-> tier, value |-> value, target |-> TargetFromObs(Identity[c]),
     suppressed |-> FALSE]

\* UnboundedMem gone wrong: a container that was not inspected has no limit.
UnboundedOrUnseen(case) ==
    {IF found[c].limit = 0 THEN Linked("unbounded_mem", c, "BAD", "WARN", 1)
     ELSE Linked("unbounded_mem", c, "OK", "WARN", 0) : c \in Walked(case)}

UnboundedMem(case) ==
    {IF ~found[c].inspected
       THEN Linked("unbounded_mem", c, "UNKNOWN", "WARN", 0)
     ELSE IF found[c].limit = 0
       THEN Linked("unbounded_mem", c, "BAD", "WARN", 1)
       ELSE Linked("unbounded_mem", c, "OK", "WARN", 0) : c \in Walked(case)}

\* The limit, or the headroom of a container without one.
Declared(c) ==
    IF found[c].limit > 0 THEN found[c].limit ELSE Max({Floor, found[c].used})

\* DeclaredOvercommit gone wrong: what was not inspected is left out of the sum.
OvercommitOfInspected(case) ==
    LET budget == {c \in Walked(case) : found[c].inspected}
    IN  IF MapThenSumSet(Declared, budget) > Usable
          THEN Unlinked("declared_overcommit", "host", "BAD", "ALERT")
          ELSE Unlinked("declared_overcommit", "host", "OK", "WARN")

DeclaredOvercommit(case) ==
    IF \/ ~case.memory \/ health # "OK"
       \/ \E c \in Walked(case) : ~found[c].inspected
      THEN Unlinked("declared_overcommit", "host", "UNKNOWN", "WARN")
    ELSE IF MapThenSumSet(Declared, Walked(case)) > Usable
      THEN Unlinked("declared_overcommit", "host", "BAD", "ALERT")
      ELSE Unlinked("declared_overcommit", "host", "OK", "WARN")

\* groupByService
Services == {Identity[c].key : c \in {d \in Containers : found[d].listed}}
Grouped(s) == {c \in Containers : found[c].listed /\ Identity[c].key = s}

\* A running container of the service if there is one.  Which one, or which of
\* the exited ones, depends on the order of the list and on finish times.
Representatives(s) ==
    IF \E c \in Grouped(s) : Running(c) THEN {c \in Grouped(s) : Running(c)}
    ELSE Grouped(s)

\* Containers that were not inspected show no restarts.
Crashes(case, s) ==
    LET delta == IF \E c \in Grouped(s) : found[c].inspected
                   THEN case.crashes[s].delta ELSE 0
    IN  Max({case.crashes[s].window, delta})

CrashLoop(case, s, rep) ==
    IF /\ \E c \in Grouped(s) : Running(c) /\ ~found[c].inspected
       /\ case.crashes[s].window = 0
      THEN Linked("crashloop", rep, "UNKNOWN", "WARN", Crashes(case, s))
    ELSE IF Crashes(case, s) >= Restarts
      THEN Linked("crashloop", rep, "BAD", "ALERT", Crashes(case, s))
      ELSE Linked("crashloop", rep, "OK", "ALERT", Crashes(case, s))

Evaluate ==
    /\ stage = "evaluate"
    /\ \E case \in Cases, rep \in [Services -> Containers] :
           /\ \A s \in Services : rep[s] \in Representatives(s)
           /\ given' = case
           /\ raw' = {DeclaredOvercommit(case)} \cup
                  IF health = "OK"
                    THEN UnboundedMem(case) \cup
                           {CrashLoop(case, s, rep[s]) : s \in Services}
                    ELSE {Unlinked(check, "docker", "UNKNOWN", "WARN") :
                             check \in PerContainerCheckIDs}
           /\ observations' = Apply(case.rules, case.now, raw')
    /\ stage' = "done"
    /\ UNCHANGED <<docker, expired, worker, health, found, changed>>

-----------------------------------------------------------------------------
NoCase == [rules |-> <<>>, now |-> 0, memory |-> TRUE, crashes |-> <<>>]

Init ==
    /\ docker \in [Containers -> {"new", "running", "exited"}]
    /\ stage = "ping" /\ expired = FALSE
    /\ worker = [c \in Containers |-> "none"]
    /\ health = "UNKNOWN"
    /\ found = [c \in Containers |-> Unlisted]
    /\ given = NoCase /\ raw = {} /\ observations = {}
    /\ changed = {}

Goroutine(c) == Acquire(c) \/ GiveUp(c) \/ Inspected(c) \/ InspectFails(c)

Collector ==
    \/ DeadlineHits \/ PingAnswered \/ Unreachable \/ Listed
    \/ \E c \in Containers : Goroutine(c)
    \/ Gather \/ Evaluate

Environment == \E c \in Containers : ComesUp(c) \/ GoesDown(c) \/ Removed(c)

Terminated == stage = "done" /\ UNCHANGED vars

Next == Collector \/ Environment \/ Terminated

\* Every step of the collector waits at most for a timeout of its own.
Spec == Init /\ [][Next]_vars /\ WF_vars(Collector)

-----------------------------------------------------------------------------
(* Properties *)

\* What a rule's dates say, by the calendar: the day it is, and the rules whose
\* last day is not over.
Today == given.now \div Day
Live == {i \in DOMAIN given.rules :
            given.rules[i].expires = NoExpiry \/ Today <= given.rules[i].expires}

\* The containers that ran all the while, and those of them that count.
Steady == {c \in Containers \ changed : docker[c] = "running"}
Counted ==
    {c \in Steady :
        ~\E i \in Live :
            /\ given.rules[i].exclude
            /\ MatchSpec(given.rules[i].match, TargetFromContainer(Identity[c]))}

\* What a container may take, whatever the run could read of it: its limit, or what
\* it uses and the floor at least.
Cost(c) == IF Limit[c] > 0 THEN Limit[c] ELSE Max({Floor, WorkingSet[c]})

\* Those without a limit whose cgroup the run could not read.
Unread ==
    {c \in Counted : Limit[c] = 0 /\ found[c].inspected /\ ~found[c].resolved}

\* What is used without a limit was read without the cache, or not at all.
Exact == \A c \in Counted : found[c].used \in {0, WorkingSet[c]}

\* When declared_overcommit says OK, all that ran all the while and counts fits, but
\* for what has no limit and a cgroup that could not be read: inspections that
\* failed, the deadline and containers that changed take nothing from the sum.  It
\* says BAD of a quiet host only when the sum is over.
BudgetIsWhole ==
    \A o \in observations : o.check = "declared_overcommit" =>
        /\ o.health = "OK" => MapThenSumSet(Cost, Counted \ Unread) <= Usable
        /\ o.health = "BAD" /\ changed = {} /\ Exact
              => MapThenSumSet(Cost, Counted) > Usable

\* The budget is not under-reported: OK is only said of a sum that fits, and what is
\* incomplete is UNKNOWN (containers.go 93-94, 05-alerting.md: a cgroup read error is
\* UNKNOWN).  The code breaks it: a container whose cgroup cannot be read counts with
\* the floor, whatever it uses.
NeverUnderReported ==
    \A o \in observations : o.check = "declared_overcommit" /\ o.health = "OK" =>
        MapThenSumSet(Cost, Counted) <= Usable

\* unbounded_mem speaks of the limits Docker has, never of what the run could
\* not read, whatever the exceptions did to the observation.
LimitsAreTrue ==
    \A o \in observations : o.check = "unbounded_mem" /\ o.of \in Containers =>
        /\ o.health = "BAD" => Limit[o.of] = 0
        /\ o.health = "OK" => Limit[o.of] > 0

\* A failed source is UNKNOWN, never absence: what ran all the while and counts
\* is spoken of, even though its inspection failed, and a check that saw no
\* containers leaves its mark for sweepDegraded.
NeverAbsent ==
    stage = "done" =>
        IF health = "OK"
          THEN \A c \in Counted :
                  /\ \E o \in observations : o.check = "unbounded_mem" /\ o.of = c
                  /\ \E o \in observations :
                        o.check = "crashloop" /\ o.scope = Identity[c].key
          ELSE \A check \in PerContainerCheckIDs :
                  \E o \in observations : o.check = check /\ o.scope = "docker"

SameKey(o, p) == o.check = p.check /\ o.scope = p.scope /\ o.of = p.of

\* A live rule that matches an observation asks for more than was measured.
Excused(o) ==
    \E i \in Live :
        /\ o.check \in DOMAIN given.rules[i].thresholds
        /\ given.rules[i].thresholds[o.check] > o.value
        /\ MatchSpec(given.rules[i].match, o.target)

\* A rule whose last day is over does nothing but warn of itself, and one whose
\* last day is not over does not warn.
ExpiredRulesAreInert ==
    /\ \A i \in DOMAIN given.rules :
          (ExpiryWarn(i) \in observations) <=> (stage = "done" /\ i \notin Live)
    /\ \A o \in raw :
          (\A i \in Live : ~MatchSpec(given.rules[i].match, o.target))
              => o \in observations

\* What a check could not measure stays UNKNOWN (05-alerting.md: UNKNOWN freezes
\* the key).  The code breaks it: a threshold re-decides whatever it is given.
UnknownStaysUnknown ==
    \A o \in raw : o.health = "UNKNOWN" =>
        \E p \in observations : SameKey(o, p) /\ p.health = "UNKNOWN"
=============================================================================
