---------------------------- MODULE AlertMachine ----------------------------
(***************************************************************************)
(* The per-key alert state machine of internal/alert (Advance and its      *)
(* handlers) over the alert table of state.Snapshot, one run after another.*)
(*                                                                         *)
(* A run looks at the observations of its checks one by one (phase         *)
(* "observe"), sweeps the firing keys whose whole source is unavailable    *)
(* (phase "sweep") and drops the pending keys it did not see.  Which       *)
(* observations a run yields is the environment's choice: a key is         *)
(* observed at most Replicas[k] times, or not at all when its container is *)
(* gone or when the Docker source is down.  The wall clock is read once a  *)
(* run and may have been stepped either way since the last one.            *)
(***************************************************************************)
EXTENDS Integers, Sequences

CONSTANTS
    Keys,           \* alert keys, "check:scope"
    Checks,         \* check ids
    CheckOf,        \* the check of a key
    DockerChecks,   \* checks that collapse to one "docker" observation
    Replicas,       \* how many observations of a key one run can yield
    Mutable,        \* keys an exception rule can mute, from one run to the next
    Channels,       \* configured Slack targets
    Routing,        \* tier -> targets, [routing] of the configuration
    MinTier,        \* the floor of a target, 0 when it has none
    Flap,           \* check -> tier -> flap_samples in force
    Cooldown,       \* check -> tier -> cooldown in force
    ResolveSamples, \* alerting.resolve_samples
    Clock,          \* readings the wall clock can take
    MaxRun          \* bound on the number of runs

Tiers == 0..2       \* WARN, ALERT, PAGE

\* What Validate accepts (validate.go 66-77, 156-162), and the shape of the rest.
ASSUME ConfigAssumption ==
    /\ CheckOf \in [Keys -> Checks]
    /\ DockerChecks \subseteq Checks
    /\ Replicas \in [Keys -> Nat \ {0}]
    /\ Mutable \subseteq Keys
    /\ Routing \in [Tiers -> SUBSET Channels]
    /\ MinTier \in [Channels -> Tiers]
    /\ Flap \in [Checks -> [Tiers -> Nat \ {0}]]
    /\ Cooldown \in [Checks -> [Tiers -> Nat]]
    /\ ResolveSamples \in Nat \ {0}
    /\ Clock \subseteq Nat \ {0}
    /\ MaxRun \in Nat

VARIABLES
    alerts,     \* snap.Alerts: the state of every key
    runID,      \* the run in progress, or the last one; snap.RunCount after it
    now,        \* the clock reading of the run
    phase,      \* "idle", "observe" or "sweep"
    down,       \* checks whose source is UNKNOWN as a whole in this run
    left,       \* observations of a key this run may still yield
    decisions   \* what the run has decided to notify, in order

vars == <<alerts, runID, now, phase, down, left, decisions>>

-----------------------------------------------------------------------------
(* Data *)

Kinds == {"fire", "escalate", "reminder", "resolved", "degraded"}

KeyState ==
    [status : {"none", "pending", "firing"}, tier : Tiers,
     consecutiveBad : Nat, consecutiveOK : Nat,
     lastNotified : Nat, lastSeenRun : Nat,
     degradedNotified : BOOLEAN, notifiedTargets : SUBSET Channels]

\* The Go zero value; also stands for a key that is not in the map.
NoState ==
    [status |-> "none", tier |-> 0, consecutiveBad |-> 0, consecutiveOK |-> 0,
     lastNotified |-> 0, lastSeenRun |-> 0,
     degradedNotified |-> FALSE, notifiedTargets |-> {}]

Decision == [key : Keys, kind : Kinds, tier : Tiers, targets : SUBSET Channels]

Tracked(k) == alerts[k].status # "none"
Pending(k) == alerts[k].status = "pending"
Firing(k)  == alerts[k].status = "firing"

RouteTargets(t) == {c \in Routing[t] : t >= MinTier[c]}

-----------------------------------------------------------------------------
(* What an observation does to the state of its key *)

\* Clamped gone wrong: it forgets to clamp, starts from the epoch, or keeps the
\* elapsed time where the time belongs.
ClampMissing(ks) == ks
ClampToEpoch(ks) == [ks EXCEPT !.lastNotified = IF now < @ THEN 0 ELSE @]
ClampElapsed(ks) == [ks EXCEPT !.lastNotified = IF now < @ THEN now - @ ELSE @]

\* A clock that was stepped back past the last notification restarts the wait.
Clamped(ks) ==
    [ks EXCEPT !.lastNotified = IF now < @ THEN now ELSE @]

Opened(k, t) ==
    IF Tracked(k) THEN alerts[k]
                  ELSE [NoState EXCEPT !.status = "pending", !.tier = t]

\* The first lines of handleBad: open, clamp, count the breach.
Breached(k, t) ==
    [Clamped(Opened(k, t)) EXCEPT !.lastSeenRun = runID,
                                  !.degradedNotified = FALSE,
                                  !.consecutiveOK = 0,
                                  !.consecutiveBad = @ + 1]

\* The recovery bookkeeping of handleOK on a firing key.
Recovering(k) ==
    [Clamped(alerts[k]) EXCEPT !.lastSeenRun = runID,
                               !.degradedNotified = FALSE,
                               !.consecutiveBad = 0,
                               !.consecutiveOK = @ + 1]

\* Notified gone wrong: only the last notice's channels are remembered.
NotifiedLast(ks, t) ==
    [ks EXCEPT !.tier = t, !.lastNotified = now,
               !.notifiedTargets = RouteTargets(t)]

\* A notification goes out at tier t now: restart the cooldown, remember whom.
Notified(ks, t) ==
    [ks EXCEPT !.tier = t, !.lastNotified = now,
               !.notifiedTargets = @ \cup RouteTargets(t)]

FlapSamplesFor(k, t) == Flap[CheckOf[k]][t]
CooldownFor(k, t)    == Cooldown[CheckOf[k]][t]

-----------------------------------------------------------------------------
(* The run *)

Init ==
    /\ alerts = [k \in Keys |-> NoState]
    /\ runID = 0
    /\ now \in Clock
    /\ phase = "idle"
    /\ down = {}
    /\ left = [k \in Keys |-> 0]
    /\ decisions = <<>>

\* A timer firing, over the snapshot snap the last run left behind.
StartRun(snap, run) ==
    /\ run < MaxRun
    /\ alerts' = snap
    /\ runID' = run + 1
    /\ now' \in Clock
    /\ phase' = "observe"
    /\ down' \in {{}, DockerChecks}
    /\ left' = Replicas
    /\ decisions' = <<>>

BeginRun == phase = "idle" /\ StartRun(alerts, runID)

\* The run looks at one more observation of k.
Look(k) ==
    /\ phase = "observe"
    /\ left[k] > 0
    /\ CheckOf[k] \notin down
    /\ left' = [left EXCEPT ![k] = @ - 1]
    /\ UNCHANGED <<runID, now, phase, down>>

Store(k, ks) == alerts' = [alerts EXCEPT ![k] = ks]

\* Advance drops the decision of a muted observation; the handlers drop one
\* that has no target.
Announce(d, muted) ==
    decisions' = IF muted \/ d.targets = {} THEN decisions
                                            ELSE Append(decisions, d)

Notice(k, kind, t, to) == [key |-> k, kind |-> kind, tier |-> t, targets |-> to]

\* "Monitoring degraded", to whom the key was notified at its last known tier.
Blind(k) == Notice(k, "degraded", alerts[k].tier, alerts[k].notifiedTargets)

\* Advance skips a muted observation of a key it does not track; the handlers of
\* OK and UNKNOWN return at once for such a key.
Ignore(k, h, muted) ==
    /\ Look(k)
    /\ ~Tracked(k)
    /\ h = "BAD" => muted
    /\ UNCHANGED <<alerts, decisions>>

-----------------------------------------------------------------------------
(* handleUnknown *)

\* Nothing to say: the key is pending, or its blindness was already reported.
Freeze(k) ==
    /\ Look(k)
    /\ Tracked(k)
    /\ Firing(k) => alerts[k].degradedNotified
    /\ Store(k, [alerts[k] EXCEPT !.lastSeenRun = runID])
    /\ UNCHANGED decisions

\* The first UNKNOWN of a firing key since it was last measured.  The decision
\* is made even when it has no target.
Degrade(k, muted) ==
    /\ Look(k)
    /\ Firing(k)
    /\ ~alerts[k].degradedNotified
    /\ Store(k, [alerts[k] EXCEPT !.lastSeenRun = runID,
                                  !.degradedNotified = TRUE])
    /\ decisions' = IF muted THEN decisions ELSE Append(decisions, Blind(k))

-----------------------------------------------------------------------------
(* handleBad: the observation of k is BAD at tier t *)

Bad(k, muted) == Look(k) /\ (Tracked(k) \/ ~muted)

\* Still damping.
Damp(k, t, muted) ==
    /\ Bad(k, muted)
    /\ ~Firing(k)
    /\ Breached(k, t).consecutiveBad < FlapSamplesFor(k, t)
    /\ Store(k, Breached(k, t))
    /\ UNCHANGED decisions

Fire(k, t, muted) ==
    /\ Bad(k, muted)
    /\ ~Firing(k)
    /\ Breached(k, t).consecutiveBad >= FlapSamplesFor(k, t)
    /\ Store(k, [Notified(Breached(k, t), t) EXCEPT !.status = "firing"])
    /\ Announce(Notice(k, "fire", t, RouteTargets(t)), muted)

\* Escalate gone wrong: any change of tier is announced as one.
EscalateOnChange(k, t, muted) ==
    /\ Bad(k, muted)
    /\ Firing(k)
    /\ t # alerts[k].tier
    /\ Store(k, Notified(Breached(k, t), t))
    /\ Announce(Notice(k, "escalate", t, RouteTargets(t)), muted)

Escalate(k, t, muted) ==
    /\ Bad(k, muted)
    /\ Firing(k)
    /\ t > alerts[k].tier
    /\ Store(k, Notified(Breached(k, t), t))
    /\ Announce(Notice(k, "escalate", t, RouteTargets(t)), muted)

\* Better but still bad: recorded, never sent; the cooldown starts over.
DeEscalate(k, t, muted) ==
    /\ Bad(k, muted)
    /\ Firing(k)
    /\ t < alerts[k].tier
    /\ Store(k, [Breached(k, t) EXCEPT !.tier = t, !.lastNotified = now])
    /\ UNCHANGED decisions

CooldownElapsed(k, t) ==
    now - Breached(k, t).lastNotified >= CooldownFor(k, t)

Remind(k, t, muted) ==
    /\ Bad(k, muted)
    /\ Firing(k)
    /\ t = alerts[k].tier
    /\ CooldownElapsed(k, t)
    /\ Store(k, Notified(Breached(k, t), t))
    /\ Announce(Notice(k, "reminder", t, RouteTargets(t)), muted)

StaySilent(k, t, muted) ==
    /\ Bad(k, muted)
    /\ Firing(k)
    /\ t = alerts[k].tier
    /\ ~CooldownElapsed(k, t)
    /\ Store(k, Breached(k, t))
    /\ UNCHANGED decisions

-----------------------------------------------------------------------------
(* handleOK *)

\* A pending spike that clears is silently forgotten.
Forget(k) ==
    /\ Look(k)
    /\ Pending(k)
    /\ Store(k, NoState)
    /\ UNCHANGED decisions

AwaitRecovery(k) ==
    /\ Look(k)
    /\ Firing(k)
    /\ Recovering(k).consecutiveOK < ResolveSamples
    /\ Store(k, Recovering(k))
    /\ UNCHANGED decisions

Resolve(k, muted) ==
    /\ Look(k)
    /\ Firing(k)
    /\ Recovering(k).consecutiveOK >= ResolveSamples
    /\ Store(k, NoState)
    /\ Announce(Notice(k, "resolved", alerts[k].tier, alerts[k].notifiedTargets),
                muted)

-----------------------------------------------------------------------------
(* Advance *)

Healths == {"OK", "BAD", "UNKNOWN"}

\* One turn of the loop over the observations.
Observe(k, h, t, muted) ==
    \/ Ignore(k, h, muted)
    \/ h = "UNKNOWN" /\ (Freeze(k) \/ Degrade(k, muted))
    \/ h = "BAD" /\ \/ Damp(k, t, muted)
                    \/ Fire(k, t, muted)
                    \/ Escalate(k, t, muted)
                    \/ DeEscalate(k, t, muted)
                    \/ Remind(k, t, muted)
                    \/ StaySilent(k, t, muted)
    \/ h = "OK" /\ (Forget(k) \/ AwaitRecovery(k) \/ Resolve(k, muted))

\* The checks yield nothing more this run.
EndObserve ==
    /\ phase = "observe"
    /\ phase' = "sweep"
    /\ UNCHANGED <<alerts, runID, now, down, left, decisions>>

\* A firing key the run did not hear of, and whose whole source is down.
InTheDark(k) ==
    Firing(k) /\ alerts[k].lastSeenRun # runID /\ CheckOf[k] \in down

\* SweepDegraded gone wrong: it does not remember having said so.
SweepAndForget(k) ==
    /\ phase = "sweep"
    /\ InTheDark(k)
    /\ Store(k, [alerts[k] EXCEPT !.lastSeenRun = runID])
    /\ decisions' = IF alerts[k].degradedNotified
                      THEN decisions ELSE Append(decisions, Blind(k))
    /\ UNCHANGED <<runID, now, phase, down, left>>

\* sweepDegraded, one key.  There is no observation left to carry a mute.
SweepDegraded(k) ==
    /\ phase = "sweep"
    /\ InTheDark(k)
    /\ Store(k, [alerts[k] EXCEPT !.lastSeenRun = runID,
                                  !.degradedNotified = TRUE])
    /\ decisions' = IF alerts[k].degradedNotified
                      THEN decisions ELSE Append(decisions, Blind(k))
    /\ UNCHANGED <<runID, now, phase, down, left>>

\* Stale gone wrong: nothing is ever pruned, or firing keys are pruned too.
NeverStale(k) == FALSE
StaleOrFiring(k) == Tracked(k) /\ alerts[k].lastSeenRun # runID

Stale(k) == Pending(k) /\ alerts[k].lastSeenRun # runID

\* PrunePendingAlerts, once the sweep has no key left.
PrunePending ==
    /\ phase = "sweep"
    /\ \A k \in Keys : ~InTheDark(k)
    /\ alerts' = [k \in Keys |-> IF Stale(k) THEN NoState ELSE alerts[k]]
    /\ phase' = "idle"
    /\ UNCHANGED <<runID, now, down, left, decisions>>

Mutes(k) == IF k \in Mutable THEN BOOLEAN ELSE {FALSE}

Next ==
    \/ BeginRun
    \/ \E k \in Keys, h \in Healths, t \in Tiers :
           \E muted \in Mutes(k) : Observe(k, h, t, muted)
    \/ EndObserve
    \/ \E k \in Keys : SweepDegraded(k)
    \/ PrunePending

Spec == Init /\ [][Next]_vars

-----------------------------------------------------------------------------
(* Properties *)

\* The table, the phases of a run and its decisions are well formed.
TypeOK ==
    /\ alerts \in [Keys -> KeyState]
    /\ runID \in Nat
    /\ now \in Clock
    /\ phase \in {"idle", "observe", "sweep"}
    /\ down \in SUBSET Checks
    /\ left \in [Keys -> Nat]
    /\ decisions \in Seq(Decision)

\* The table read as episodes: a pending key has none, nor a key not tracked.
Contract ==
    INSTANCE AlertContract WITH
        episode <- [k \in Keys |-> IF Firing(k) THEN alerts[k].tier ELSE -1],
        told <- [k \in Keys |-> IF Firing(k) THEN alerts[k].notifiedTargets ELSE {}],
        outbox <- decisions

\* The machine keeps the contract of episodes, notices and channels: FIRE and
\* RESOLVED alternate per key, escalations only go up, a resolved notice goes to
\* the union of the channels of its episode, and nothing is said of a key
\* outside an episode.
KeepsContract == Contract!Spec
=============================================================================
