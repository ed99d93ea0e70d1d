------------------------------- MODULE Watchdog -------------------------------
(***************************************************************************)
(* Runs without end over one snapshot file: those the timer starts one     *)
(* after another, and those an operator starts by hand, which nothing      *)
(* keeps from overlapping them (no lock is taken).  A run loads the file,  *)
(* advances its copy of one alert key, saves the copy and posts what it    *)
(* decided.  It can be killed between any two steps, its save can fail and *)
(* its posts can get lost.                                                 *)
(*                                                                         *)
(* The alert key is that of AlertMachine, whose operators are used on the  *)
(* copies.  So that runs can go on for ever in finitely many states, times *)
(* are told back from the present, which is always the reading Horizon,    *)
(* and counters stop where no comparison can tell any more.                *)
(***************************************************************************)
EXTENDS Integers

CONSTANTS
    Channels, Routing, MinTier,         \* as in AlertMachine
    Flap, Cooldown, ResolveSamples,     \* of the one check there is
    Levels,     \* tiers the condition can have
    Processes,  \* the runs that can be under way at a time
    Timer,      \* the one among them that the timer starts
    Horizon     \* how far back a notification is told from an older one

ASSUME WatchdogAssumption ==
    /\ Timer \in Processes
    /\ Levels \subseteq 0..2
    /\ Routing \in [0..2 -> SUBSET Channels] /\ MinTier \in [Channels -> 0..2]
    /\ Flap \in [0..2 -> Nat \ {0}] /\ ResolveSamples \in Nat \ {0}
    /\ Cooldown \in [0..2 -> 0..Horizon]
    /\ Horizon \in Nat \ {0}

VARIABLES
    disk,       \* the key in state.json
    stage,      \* per process: "off", or how far its run has come
    copy,       \* per process: the key in its memory
    outbox,     \* per process: what it has still to post, and to whom
    condition,  \* the truth: a tier or Fine, once it stays; Changing before
    heard,      \* per channel: whether its last word was "alarm" or "all clear"
    missed,     \* history: channels whose last all-clear did not arrive
    overlapped  \* history: two runs were under way at once, and the file and
                \* the channels have not agreed at rest since

memory == <<stage, copy, outbox>>
vars   == <<disk, memory, condition, heard, missed, overlapped>>

\* The machine over a copy ks of the one key, in a run that began at t.
Machine(ks, t) ==
    INSTANCE AlertMachine WITH
        Keys <- {"key"}, Checks <- {"check"},
        CheckOf <- [k \in {"key"} |-> "check"], DockerChecks <- {"check"},
        Replicas <- [k \in {"key"} |-> 1], Mutable <- {},
        Flap <- [c \in {"check"} |-> Flap],
        Cooldown <- [c \in {"check"} |-> Cooldown],
        Clock <- 0..Horizon, MaxRun <- 1,
        alerts <- [k \in {"key"} |-> ks], runID <- 1, now <- t,
        phase <- "observe", down <- {}, left <- [k \in {"key"} |-> 1],
        decisions <- <<>>

Present == Horizon

\* From now on the condition stays, it can be measured and nothing fails.
Fine == -1
Changing == -2
Calm == condition # Changing

NoKey == Machine(0, 0)!NoState
Route(t) == Machine(0, 0)!RouteTargets(t)

-----------------------------------------------------------------------------
(* Advance, on the copy ks of a run that began at t *)

Nothing == [kind |-> "none", to |-> {}]

\* What an observation leads to: the key afterwards, and a notice.
Silently(ks) == [key |-> ks, notice |-> Nothing]
Saying(ks, kind, to) == [key |-> ks, notice |-> [kind |-> kind, to |-> to]]

\* HandleBad gone wrong: a key that fires and does not get worse is left alone.
HandleBadOnce(ks, t, tier) ==
    LET bad == Machine(ks, t)!Breached("key", tier)
        notified == Machine(ks, t)!Notified(bad, tier)
    IN  IF bad.status = "pending"
          THEN IF bad.consecutiveBad < Flap[tier] THEN Silently(bad)
               ELSE Saying([notified EXCEPT !.status = "firing"],
                           "fire", Route(tier))
        ELSE IF tier > bad.tier THEN Saying(notified, "escalate", Route(tier))
        ELSE Silently([bad EXCEPT !.tier = tier])

HandleBad(ks, t, tier) ==
    LET bad == Machine(ks, t)!Breached("key", tier)
        notified == Machine(ks, t)!Notified(bad, tier)
    IN  IF bad.status = "pending"
          THEN IF bad.consecutiveBad < Flap[tier] THEN Silently(bad)
               ELSE Saying([notified EXCEPT !.status = "firing"],
                           "fire", Route(tier))
        ELSE IF tier > bad.tier THEN Saying(notified, "escalate", Route(tier))
        ELSE IF tier < bad.tier
          THEN Silently([bad EXCEPT !.tier = tier, !.lastNotified = t])
        ELSE IF t - bad.lastNotified >= Cooldown[tier]
          THEN Saying(notified, "reminder", Route(tier))
        ELSE Silently(bad)

\* HandleOK gone wrong: every run counts the recovery from the start.
HandleOKFromOne(ks, t) ==
    IF ks.status # "firing" THEN Silently(NoKey)
    ELSE IF 1 < ResolveSamples
      THEN Silently([Machine(ks, t)!Recovering("key") EXCEPT !.consecutiveOK = 1])
    ELSE Saying(NoKey, "resolved", ks.notifiedTargets)

HandleOK(ks, t) ==
    LET ok == Machine(ks, t)!Recovering("key")
    IN  IF ks.status # "firing" THEN Silently(NoKey)
        ELSE IF ok.consecutiveOK < ResolveSamples THEN Silently(ok)
        ELSE Saying(NoKey, "resolved", ks.notifiedTargets)

\* A key that is not observed: PrunePendingAlerts drops it while it is pending.
Unseen(ks) == IF ks.status = "pending" THEN Silently(NoKey) ELSE Silently(ks)

\* That blindness was said is left out: it changes neither who believes what
\* nor any later step (AlertHistory follows it).
Advanced(ks, t, seen, tier) ==
    CASE seen = "OK"      -> HandleOK(ks, t)
      [] seen = "BAD"     -> HandleBad(ks, t, tier)
      [] seen = "UNKNOWN" -> Silently(ks)
      [] seen = "absent"  -> Unseen(ks)

\* The count of breaches is not read again once the key fires, and which run
\* saw the key last is settled by Advanced.
Canonical(ks) ==
    [ks EXCEPT !.lastSeenRun = 0,
               !.consecutiveBad = IF ks.status = "firing" THEN 0 ELSE @]

-----------------------------------------------------------------------------
(* One process *)

Under(p, from, to) ==
    /\ stage[p] = from
    /\ stage' = [stage EXCEPT ![p] = to]

\* What a run can find: anything at first, then what stays.
Found ==
    IF Calm THEN {[health |-> IF condition = Fine THEN "OK" ELSE "BAD",
                   tier |-> condition]}
    ELSE [health : {"OK", "UNKNOWN", "absent"}, tier : {Fine}]
           \cup [health : {"BAD"}, tier : Levels]

\* Load, the clock reading, collect, evaluate and Advance.  All of it is the
\* process's own: what another one does meanwhile shows at the save.
Start(p) ==
    /\ Under(p, "off", "advanced")
    /\ p = Timer \/ ~Calm
    /\ \E o \in Found :
           LET result == Advanced(disk, Present, o.health, o.tier)
           IN  /\ copy' = [copy EXCEPT ![p] = Canonical(result.key)]
               /\ outbox' = [outbox EXCEPT ![p] = result.notice]
    /\ overlapped' = (overlapped \/ \E q \in Processes : stage[q] # "off")
    /\ missed' = IF overlapped' THEN {} ELSE missed
    /\ UNCHANGED <<disk, condition, heard>>

\* The rename; the copy is of no further use.  A dry run never gets here: to the
\* others it is a run that was killed.
Save(p) ==
    /\ Under(p, "advanced", "deliver")
    /\ disk' = copy[p]
    /\ copy' = [copy EXCEPT ![p] = NoKey]
    /\ UNCHANGED <<outbox, condition, heard, missed, overlapped>>

\* One post that Slack takes, and one that it does not.
Post(p, c) ==
    /\ stage[p] = "deliver" /\ c \in outbox[p].to
    /\ outbox' = [outbox EXCEPT ![p].to = @ \ {c}]
    /\ \/ /\ outbox[p].kind \in {"fire", "escalate", "reminder"}
          /\ heard' = [heard EXCEPT ![c] = "alarm"]
          /\ missed' = missed \ {c}
       \/ /\ outbox[p].kind = "resolved"
          /\ heard' = [heard EXCEPT ![c] = "all clear"]
          /\ missed' = missed \ {c}
    /\ UNCHANGED <<disk, stage, copy, condition, overlapped>>

\* Whom the end of p would leave without their all-clear.
Undelivered(p) ==
    IF outbox[p].kind = "resolved" /\ ~overlapped THEN outbox[p].to ELSE {}

PostFails(p, c) ==
    /\ stage[p] = "deliver" /\ c \in outbox[p].to /\ ~Calm
    /\ outbox' = [outbox EXCEPT ![p].to = @ \ {c}]
    /\ missed' = missed \cup (Undelivered(p) \cap {c})
    /\ UNCHANGED <<disk, stage, copy, condition, heard, overlapped>>

\* What the channels last heard is what the file has, and nobody is running.
Agreed(running) ==
    running = {} /\ disk = NoKey /\ \A c \in Channels : heard[c] = "all clear"

Exit(p) ==
    /\ stage' = [stage EXCEPT ![p] = "off"]
    /\ copy' = [copy EXCEPT ![p] = NoKey]
    /\ outbox' = [outbox EXCEPT ![p] = Nothing]
    /\ overlapped' = (overlapped /\ ~Agreed({q \in Processes \ {p} : stage[q] # "off"}))
    /\ UNCHANGED <<disk, condition, heard>>

Finish(p) ==
    /\ stage[p] = "deliver" /\ outbox[p].to = {}
    /\ Exit(p)
    /\ UNCHANGED missed

\* SaveFails gone wrong: the run goes on and delivers.
SaveFailsGoOn(p) ==
    /\ ~Calm /\ Under(p, "advanced", "deliver")
    /\ copy' = [copy EXCEPT ![p] = NoKey]
    /\ UNCHANGED <<disk, outbox, condition, heard, missed, overlapped>>

\* The run ends without a post.
SaveFails(p) ==
    /\ stage[p] = "advanced" /\ ~Calm
    /\ Exit(p)
    /\ UNCHANGED missed

Kill(p) ==
    /\ stage[p] # "off" /\ ~Calm
    /\ Exit(p)
    /\ missed' = missed \cup (IF stage[p] = "deliver" THEN Undelivered(p) ELSE {})

\* What goes on by itself.
Steps(p) ==
    \/ p = Timer /\ Start(p)
    \/ Save(p)
    \/ \E c \in Channels : Post(p, c)
    \/ Finish(p)

-----------------------------------------------------------------------------
(* The world *)

\* A notification sinks back by one; beyond the horizon all are alike.
Sunk(t) == IF t = 0 THEN 0 ELSE t - 1
Older(ks) == [ks EXCEPT !.lastNotified = Sunk(@)]

Tick ==
    /\ disk' = Older(disk)
    /\ copy' = [p \in Processes |-> Older(copy[p])]
    /\ UNCHANGED <<stage, outbox, condition, heard, missed, overlapped>>

\* state.json is deleted or does not parse: what was on record is forgotten.
LoseState ==
    /\ ~Calm /\ \A p \in Processes : stage[p] = "off"
    /\ disk' = NoKey
    /\ missed' = IF overlapped THEN {}
                 ELSE missed \cup {c \in Channels : heard[c] = "alarm"}
    /\ UNCHANGED <<memory, condition, heard, overlapped>>

CalmDown ==
    /\ ~Calm
    /\ condition' \in {Fine} \cup Levels
    /\ UNCHANGED <<disk, memory, heard, missed, overlapped>>

Init ==
    /\ disk = NoKey
    /\ stage = [p \in Processes |-> "off"]
    /\ copy = [p \in Processes |-> NoKey]
    /\ outbox = [p \in Processes |-> Nothing]
    /\ condition = Changing
    /\ heard = [c \in Channels |-> "all clear"]
    /\ missed = {} /\ overlapped = FALSE

Next ==
    \/ \E p \in Processes :
          \/ Start(p)
          \/ Steps(p)
          \/ \E c \in Channels : PostFails(p, c)
          \/ SaveFails(p)
          \/ Kill(p)
    \/ Tick \/ LoseState \/ CalmDown

\* The timer keeps firing, a run keeps running, time passes.
Spec ==
    /\ Init /\ [][Next]_vars
    /\ WF_vars(Tick)
    /\ \A p \in Processes : WF_vars(Steps(p))

-----------------------------------------------------------------------------
(* Properties *)

\* Whom the file forgets is never told of the end.  Between runs, a channel
\* that believes in an alarm is one that the file will send the all-clear to,
\* whatever was killed, failed or lost before, unless its all-clear was itself
\* lost, or two runs wrote the file over each other.
AlarmsOnRecord ==
    (\A p \in Processes : stage[p] = "off") /\ ~overlapped =>
        \A c \in Channels : heard[c] = "alarm" =>
            c \in missed \/ (disk.status = "firing" /\ c \in disk.notifiedTargets)

\* A channel that believes in the alarm is not sent its FIRE again: only two
\* runs that load the same file can both fire, and only a channel that missed
\* the all-clear hears the next FIRE on top of the last.
FiresOnce ==
    [][\A p \in Processes, c \in Channels :
           Post(p, c) /\ outbox[p].kind = "fire" /\ heard[c] = "alarm"
               => overlapped \/ c \in missed]_vars

Concerned == IF condition \in Levels THEN Route(condition) ELSE {}

\* Saving before sending may lose a FIRE to a kill or to Slack, but never for
\* good: once the condition stays and nothing fails any more, every channel of
\* its tier hears of it, if only by the reminder, however the runs before
\* overlapped.
AlarmIsHeard == Calm ~> \A c \in Concerned : heard[c] = "alarm"

\* No zombie: once the condition stays fine and nothing fails, the key leaves
\* the file, and whoever still believes in an alarm missed an all-clear (which
\* no run repeats) or owes it to runs that overlapped.
EndIsHeard ==
    Calm /\ condition = Fine ~>
        /\ disk = NoKey
        /\ \A c \in Channels : heard[c] = "alarm" => overlapped \/ c \in missed
=============================================================================
