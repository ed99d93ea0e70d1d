------------------------------ MODULE CrashLoop ------------------------------
(***************************************************************************)
(* The crashloop check and the delta baselines it lives on: one service,   *)
(* its containers as Docker runs them, and the runs of the watchdog that   *)
(* sample them (crashloop.Evaluate, then UpdateBaselines on the snapshot). *)
(*                                                                         *)
(* Between two runs the containers crash in place, exit, are replaced, the *)
(* host reboots.  A run may find Docker unreachable, may fail to inspect   *)
(* some of the containers before its deadline, and may have lost its state *)
(* file.  Times are whole seconds of a clock that only goes forward.       *)
(***************************************************************************)
EXTENDS Integers, FiniteSets

CONSTANTS
    Ids,            \* container ids; an id is never used again
    Restarts,       \* checks.crashloop.restarts
    Window,         \* checks.crashloop.window
    Outages,        \* whether Docker can be unreachable
    Partial,        \* whether inspections can fail
    MaxTime,        \* bound on the clock
    MaxCount,       \* bound on a container's restart count
    MaxBoot         \* bound on the reboots

ASSUME CrashLoopAssumption ==
    /\ IsFiniteSet(Ids)
    /\ Restarts \in Nat \ {0} /\ Window \in Nat \ {0}
    /\ Outages \in BOOLEAN /\ Partial \in BOOLEAN
    /\ MaxTime \in Nat /\ MaxCount \in Nat /\ MaxBoot \in Nat

VARIABLES
    time,       \* the wall clock
    boot,       \* the host's boot id
    docker,     \* Ids -> the container as Docker knows it
    service,    \* snap.Services[key]; known is FALSE when there is no entry
    snapBoot,   \* snap.BootID, 0 in a fresh snapshot
    baseline,   \* hadBaseline: a snapshot was loaded
    restarted,  \* history: restarts in place since a run last inspected
    steady,     \* history: that run saw one container, it is still that one, and
                \* Docker has been reachable since
    whole,      \* history: the count on record is that of a whole inspection
    seen        \* history: containers whose crash exit some run has seen

history == <<restarted, steady, whole, seen>>
vars == <<time, boot, docker, service, snapBoot, baseline, history>>

-----------------------------------------------------------------------------
(* Docker *)

New == [state |-> "new", restarts |-> 0, finished |-> 0, crash |-> FALSE]

Listed  == {i \in Ids : docker[i].state \notin {"new", "gone"}}
Running == {i \in Ids : docker[i].state = "running"}

Tick ==
    /\ time < MaxTime
    /\ time' = time + 1
    /\ UNCHANGED <<boot, docker, service, snapBoot, baseline, history>>

Become(i, c) ==
    /\ docker' = [docker EXCEPT ![i] = c]
    /\ UNCHANGED <<time, boot, service, snapBoot, baseline>>

Create(i) ==
    /\ docker[i].state = "new"
    /\ Become(i, [docker[i] EXCEPT !.state = "running"])
    /\ steady' = FALSE
    /\ UNCHANGED <<restarted, whole, seen>>

\* The restart policy: the container keeps its id, the daemon counts.
CrashInPlace(i) ==
    /\ docker[i].state = "running" /\ docker[i].restarts < MaxCount
    /\ Become(i, [docker[i] EXCEPT !.state = "restarting", !.restarts = @ + 1])
    /\ restarted' = restarted + 1
    /\ UNCHANGED <<steady, whole, seen>>

BackUp(i) ==
    /\ docker[i].state = "restarting"
    /\ Become(i, [docker[i] EXCEPT !.state = "running"])
    /\ UNCHANGED history

\* The container is left as a corpse, of a crash or of a clean completion.
Stop(i, crash) ==
    /\ docker[i].state = "running"
    /\ Become(i, [docker[i] EXCEPT !.state = "exited", !.finished = time,
                                   !.crash = crash])
    /\ UNCHANGED history

Remove(i) ==
    /\ i \in Listed
    /\ Become(i, [docker[i] EXCEPT !.state = "gone"])
    /\ UNCHANGED history

\* The daemon starts what was running; it may have forgotten its counts.
Reboot ==
    /\ boot < MaxBoot
    /\ boot' = boot + 1
    /\ \E reset \in BOOLEAN :
           docker' = [i \in Ids |->
                         IF i \in Running /\ reset
                           THEN [docker[i] EXCEPT !.restarts = 0] ELSE docker[i]]
    /\ steady' = FALSE
    /\ UNCHANGED <<time, service, snapBoot, baseline, restarted, whole, seen>>

-----------------------------------------------------------------------------
(* The check, on a sample in which the containers of insp were inspected *)

NoEntry == [known |-> FALSE, restarts |-> 0, boot |-> 0, events |-> {}]

Cutoff == time - Window

\* isCrashExit
CrashCorpses(insp) ==
    {i \in insp : docker[i].state = "exited" /\ docker[i].crash}

FreshEvents(insp) ==
    {[id |-> i, at |-> docker[i].finished] :
        i \in {j \in CrashCorpses(insp) : docker[j].finished >= Cutoff}}

\* WindowCrashes gone wrong: exits on record never get old.
AllTimeCrashes(insp) ==
    Cardinality({e.id : e \in service.events \cup FreshEvents(insp)})

\* countWindowCrashes
WindowCrashes(insp) ==
    Cardinality({e.id : e \in {f \in service.events : f.at >= Cutoff}
                              \cup FreshEvents(insp)})

Greatest(S) == CHOOSE n \in S : \A m \in S : m <= n

\* maxRestartCount: a container that was not inspected counts as zero.
CurrentCount(insp) == Greatest({0} \cup {docker[i].restarts : i \in insp})

HasDelta == baseline /\ snapBoot = boot /\ service.known /\ service.boot = boot

RestartDelta(insp) ==
    IF HasDelta /\ CurrentCount(insp) >= service.restarts
      THEN CurrentCount(insp) - service.restarts ELSE 0

\* Crashes gone wrong: only corpses count.
CorpsesOnly(insp) == WindowCrashes(insp)

Crashes(insp) == Greatest({WindowCrashes(insp), RestartDelta(insp)})

\* evalService: what a run that samples the service now says of it.
Verdict(insp) ==
    CASE Listed = {} -> "absent"
      [] Running \ insp # {} /\ WindowCrashes(insp) = 0 -> "UNKNOWN"
      [] OTHER -> IF Crashes(insp) >= Restarts THEN "BAD" ELSE "OK"

-----------------------------------------------------------------------------
(* UpdateBaselines *)

\* MergedEvents gone wrong: what is no longer visible is forgotten.
VisibleEvents(insp) == FreshEvents(insp)

\* mergeExitEvents
MergedEvents(insp) ==
    {e \in service.events : e.at >= Cutoff /\ \A f \in FreshEvents(insp) : f.id # e.id}
    \cup FreshEvents(insp)

\* PruneServices: an entry this run has not touched goes once it has no event.
Pruned(s) == IF s.events = {} THEN NoEntry ELSE s

\* The entry after a run in which Docker answered.
Updated(insp) ==
    IF Listed = {} THEN Pruned(service)
    ELSE [known |-> TRUE, boot |-> boot, events |-> MergedEvents(insp),
          restarts |-> IF insp = {} THEN service.restarts ELSE CurrentCount(insp)]

-----------------------------------------------------------------------------
(* The runs *)

\* Docker answers, and insp is inspected before the deadline.
Run(insp) ==
    /\ service' = Updated(insp)
    /\ snapBoot' = boot /\ baseline' = TRUE
    /\ restarted' = IF insp = {} THEN restarted ELSE 0
    /\ steady' = IF insp = {} THEN steady ELSE Cardinality(Listed) = 1
    /\ whole' = (insp = Listed \/ (insp = {} /\ service.known /\ whole))
    /\ seen' = seen \cup {e.id : e \in FreshEvents(insp)}
    /\ UNCHANGED <<time, boot, docker>>

\* One observation for the whole check, and no baseline.
BlindRun ==
    /\ Outages
    /\ service' = Pruned(service)
    /\ snapBoot' = boot /\ baseline' = TRUE
    /\ steady' = FALSE
    /\ UNCHANGED <<time, boot, docker, restarted, whole, seen>>

\* state.json is deleted or corrupt.
LoseState ==
    /\ baseline
    /\ baseline' = FALSE /\ snapBoot' = 0 /\ service' = NoEntry
    /\ steady' = FALSE /\ seen' = {}
    /\ UNCHANGED <<time, boot, docker, restarted, whole>>

Init ==
    /\ time = 1 /\ boot = 1
    /\ docker = [i \in Ids |-> New]
    /\ service = NoEntry
    /\ snapBoot = 0 /\ baseline = FALSE
    /\ restarted = 0 /\ steady = FALSE /\ whole = TRUE /\ seen = {}

Inspectable == IF Partial THEN SUBSET Listed ELSE {Listed}

Watchdog ==
    \/ \E insp \in Inspectable : Run(insp)
    \/ BlindRun

Environment ==
    \/ Tick
    \/ Reboot
    \/ LoseState
    \/ \E i \in Ids :
        \/ Create(i)
        \/ CrashInPlace(i)
        \/ BackUp(i)
        \/ \E crash \in BOOLEAN : Stop(i, crash)
        \/ Remove(i)

Next == Watchdog \/ Environment

Spec == Init /\ [][Next]_vars

-----------------------------------------------------------------------------
(* Properties *)

Died == {i \in Ids : docker[i].crash /\ docker[i].finished >= Cutoff}

\* No false alarm: the check says BAD only when `restarts` containers of the
\* service have crashed within the window, or its containers have restarted that
\* often since the run that last read their counts.  A clean completion, a
\* replaced container, a reboot, an outage or a lost state file raises none; nor
\* do containers that were not inspected, if those of the baseline all were.
AlarmIsReal ==
    \A insp \in Inspectable : whole /\ Verdict(insp) = "BAD" =>
        Cardinality(Died) >= Restarts \/ restarted >= Restarts

\* A run that could not look: Docker was unreachable, or it inspected nothing.
FailedLook == BlindRun \/ (Listed # {} /\ Run({}))

\* A failure to collect never corrupts the deltas of the next run (baseline.go
\* 14-15): what that run will make of the restarts since the baseline is what it
\* would have made of them without the run that failed.  The code breaks it twice:
\* a service it sees for the first time gets a baseline of zero restarts, and an
\* outage drops the baseline of a service without exit events.
FailureIsHarmless ==
    [][FailedLook =>
        \A insp \in Inspectable : RestartDelta(insp)' = RestartDelta(insp)]_vars

\* What a run measures of a service that Swarm keeps replacing: every container
\* whose crash a run has seen counts for a whole window, once, also after Docker
\* has removed it, Docker was unreachable or the host has rebooted.
CrashesAreRemembered ==
    \A insp \in Inspectable :
        WindowCrashes(insp) =
            Cardinality(Died \cap (seen \cup CrashCorpses(insp)))

\* A container that Docker restarts in place often enough between two runs that
\* inspect it is reported by the second, whatever the runs in between made of it
\* that could reach Docker.
LoopIsCaught ==
    \A insp \in Inspectable \ {{}} :
        steady /\ restarted >= Restarts => Verdict(insp) = "BAD"
=============================================================================
