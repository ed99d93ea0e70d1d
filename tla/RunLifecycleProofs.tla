------------------------- MODULE RunLifecycleProofs -------------------------
(* What a run keeps true through faults, kills and losses of power: theorems   *)
(* about RunLifecycle, for every configuration and every set of faults.        *)
EXTENDS RunLifecycle, AlertMachineProofs

-----------------------------------------------------------------------------
(* The inductive invariant *)

\* The process, its files and the history are well formed.
RTypeOK ==
    /\ stage \in {"off", "advance", "built", "deliver"} /\ dry \in BOOLEAN
    /\ TypeOK /\ Untold
    /\ disk \in Snapshot /\ platter \in Snapshot
    /\ outbox \in Seq(Decision)
    /\ pings \in SUBSET {"start", "fail", "success"}
    /\ exit \in {"none", "ok", "error", "config", "killed"}
    /\ fires \in [Keys -> [Channels -> Nat]] /\ undone \in Nat

\* Nobody was told of a key that does not fire in the table of a snapshot.
Quiet(table) ==
    \A k \in Keys : table[k].status # "firing" => table[k].notifiedTargets = {}

\* No key of a table was seen by a run later than the table.
SeenBy(table, run) == \A k \in Keys : table[k].lastSeenRun <= run

\* The tables, in memory and on file, are those of runs up to their number.
Dated ==
    /\ SeenBy(alerts, runID)
    /\ SeenBy(disk.alerts, disk.runCount) /\ Quiet(disk.alerts)
    /\ SeenBy(platter.alerts, platter.runCount) /\ Quiet(platter.alerts)

\* A key the run has not looked at yet is as the file has it.
Untouched ==
    stage = "advance" /\ phase = "observe" =>
        \A k \in Keys :
            /\ left[k] <= Replicas[k]
            /\ left[k] = Replicas[k] =>
                  alerts[k].lastSeenRun < runID /\ alerts[k] = disk.alerts[k]

\* Nothing but the start is pinged under way, and that not by a dry run; an error
\* says so, but for one of the configuration.
HonestPings ==
    /\ stage # "off" => pings \subseteq {"start"}
    /\ stage # "off" /\ dry => pings = {}
    /\ stage = "off" /\ exit = "error" => "fail" \in pings /\ "success" \notin pings
    /\ stage = "off" /\ exit = "config" => pings = {}

\* Only a snapshot on file is spoken of, and never by a dry run.
OnFile ==
    stage = "deliver" => ~dry /\ disk = [alerts |-> alerts, runCount |-> runID]

RInv == RTypeOK /\ Dated /\ Untouched /\ HonestPings /\ OnFile

-----------------------------------------------------------------------------
(* The steps, as the invariants see them *)

\* The file a run finds missing.
LEMMA FreshFacts ==
    /\ Fresh \in Snapshot /\ Fresh.runCount = 0
    /\ \A k \in Keys : Fresh.alerts[k] = NoState
BY NoStateType DEF Fresh, Snapshot

\* Ending a run changes nothing of the table.
LEMMA ExitFacts ==
    ASSUME RTypeOK, NEW how, Exit(how)
    PROVE  /\ TypeOK' /\ Untold' /\ alerts' = alerts /\ runID' = runID
           /\ stage' = "off" /\ exit' = how /\ outbox' = <<>>
           /\ left' = left /\ decisions' = decisions
BY DEF Exit, RTypeOK, TypeOK, Untold, Firing

\* A run starts from the file, one number further.
LEMMA StartFacts ==
    ASSUME RTypeOK, Dated, Start
    PROVE  /\ TypeOK' /\ Untold' /\ alerts' = disk.alerts
           /\ runID' = disk.runCount + 1 /\ decisions' = <<>> /\ left' = Replicas
           /\ phase' = "observe"
<1>1. disk.alerts \in [Keys -> KeyState] /\ disk.runCount \in Nat
  BY DEF RTypeOK, Snapshot
<1>2. /\ alerts' = disk.alerts /\ runID' = disk.runCount + 1 /\ decisions' = <<>>
      /\ left' = Replicas /\ phase' = "observe" /\ now' \in Clock
      /\ down' \in {{}, DockerChecks}
  BY DEF Start, StartRun
<1>3. TypeOK'
  BY <1>1, <1>2, ConfigAssumption DEF TypeOK
<1>4. Untold'
  BY <1>2 DEF Untold, Firing, Dated, Quiet
<1>5. QED BY <1>2, <1>3, <1>4

\* A step of the machine inside a run is a step of the machine.
LEMMA AdvanceFacts ==
    ASSUME RTypeOK, Advance \/ Built
    PROVE  /\ TypeOK' /\ Untold' /\ Next
           /\ dry' = dry /\ disk' = disk /\ platter' = platter /\ outbox' = outbox
           /\ pings' = pings /\ exit' = exit /\ fires' = fires /\ undone' = undone
           /\ stage = "advance" /\ stage' \in {"advance", "built"}
           /\ runID' = runID /\ now' = now
<1>1. Next
  BY DEF Advance, Built, Next
<1>2. TypeOK' /\ Untold'
  BY <1>1, NextType, NextUntold DEF RTypeOK
<1>3. ASSUME NEW k \in Keys, NEW h \in Healths, NEW t \in Tiers,
             NEW muted \in Mutes(k), Observe(k, h, t, muted)
      PROVE  runID' = runID /\ now' = now
  BY <1>3 DEF Observe, Ignore, Freeze, Degrade, Damp, Fire, Escalate, DeEscalate,
              Remind, StaySilent, Bad, Forget, AwaitRecovery, Resolve, Look
<1>4. runID' = runID /\ now' = now
  BY <1>3 DEF Advance, Built, EndObserve, SweepDegraded, PrunePending
<1>5. QED BY <1>1, <1>2, <1>4 DEF Advance, Built

\* What becomes of one key in a step of the machine: it is left alone, observed,
\* swept or pruned.
LEMMA AdvancedKey ==
    ASSUME RTypeOK, Advance \/ Built, NEW j \in Keys
    PROVE  \/ alerts'[j] = alerts[j] /\ left'[j] = left[j]
           \/ /\ phase = "observe" /\ left[j] \in Nat \ {0} /\ left'[j] = left[j] - 1
              /\ \E h \in Healths, t \in Tiers, muted \in BOOLEAN :
                    Outcome(j, h, t, muted)
           \/ /\ phase = "sweep" /\ left'[j] = left[j]
              /\ Firing(j) /\ Same(j)
           \/ /\ phase = "sweep" /\ left'[j] = left[j]
              /\ Pending(j) /\ alerts'[j] = NoState
<1>1. ASSUME NEW k \in Keys, NEW h \in Healths, NEW t \in Tiers,
             NEW muted \in Mutes(k), Observe(k, h, t, muted)
      PROVE  \/ alerts'[j] = alerts[j] /\ left'[j] = left[j]
             \/ /\ phase = "observe" /\ left[j] \in Nat \ {0}
                /\ left'[j] = left[j] - 1
                /\ Outcome(j, h, t, muted) /\ muted \in BOOLEAN
  <2>1. muted \in BOOLEAN
    BY DEF Mutes
  <2>2. /\ Outcome(k, h, t, muted)
        /\ \A i \in Keys \ {k} : alerts'[i] = alerts[i]
    BY <1>1, <2>1, ObserveOutcomes DEF RTypeOK
  <2>3. Look(k)
    BY <1>1 DEF Observe, Ignore, Freeze, Degrade, Damp, Fire, Escalate, DeEscalate,
                Remind, StaySilent, Bad, Forget, AwaitRecovery, Resolve
  <2>4. phase = "observe" /\ left[k] \in Nat \ {0} /\ left'[k] = left[k] - 1
        /\ \A i \in Keys \ {k} : left'[i] = left[i]
    BY <2>3, LookFacts DEF RTypeOK, TypeOK
  <2>5. QED BY <2>1, <2>2, <2>4
<1>2. ASSUME NEW k \in Keys, SweepDegraded(k)
      PROVE  \/ alerts'[j] = alerts[j] /\ left'[j] = left[j]
             \/ /\ phase = "sweep" /\ left'[j] = left[j]
                /\ Firing(j) /\ Same(j)
  BY <1>2, SweptFacts DEF SweepDegraded, RTypeOK
<1>3. CASE EndObserve
  BY <1>3 DEF EndObserve
<1>4. CASE PrunePending
  BY <1>4 DEF PrunePending, Stale
<1>5. QED BY <1>1, <1>2, <1>3, <1>4 DEF Advance, Built

\* A step of the machine dates what it touches with its own run.
LEMMA AdvancedDate ==
    ASSUME RTypeOK, Dated, Advance \/ Built, NEW j \in Keys
    PROVE  alerts'[j].lastSeenRun <= runID
<1>1. alerts[j].lastSeenRun <= runID /\ runID \in Nat
  BY DEF Dated, SeenBy, RTypeOK, TypeOK
<1>2. ASSUME NEW h \in Healths, NEW t \in Tiers, NEW muted \in BOOLEAN,
             Outcome(j, h, t, muted)
      PROVE  alerts'[j].lastSeenRun <= runID
  BY <1>1, <1>2
     DEF Outcome, Ignored, Frozen, Degraded, Same, Counted, Forgotten, Awaited,
         Resolved, NoState
<1>3. QED BY <1>1, <1>2, AdvancedKey DEF Same, NoState

-----------------------------------------------------------------------------
(* The invariant holds *)

\* Before the first run there is no file and nothing was said.
LEMMA RInitInv == RInit => RInv
<1> SUFFICES ASSUME RInit PROVE RInv
  OBVIOUS
<1>1. RTypeOK
  <2>1. TypeOK /\ Untold
    BY InitType, InitUntold DEF RInit
  <2>2. fires \in [Keys -> [Channels -> Nat]]
    BY DEF RInit
  <2>3. disk \in Snapshot /\ platter \in Snapshot
    BY FreshFacts DEF RInit
  <2>4. /\ stage = "off" /\ dry = FALSE /\ outbox = <<>> /\ pings = {}
        /\ exit = "none" /\ undone = 0
    BY DEF RInit
  <2>5. /\ dry \in BOOLEAN /\ pings \in SUBSET {"start", "fail", "success"}
        /\ stage \in {"off", "advance", "built", "deliver"}
        /\ exit \in {"none", "ok", "error", "config", "killed"}
    BY <2>4
  <2>6. outbox \in Seq(Decision) /\ undone \in Nat
    BY <2>4
  <2>7. QED BY <2>1, <2>2, <2>3, <2>5, <2>6 DEF RTypeOK
<1>2. Dated
  BY FreshFacts DEF RInit, Init, Dated, SeenBy, Quiet, NoState
<1>3. QED BY <1>1, <1>2 DEF RInit, RInv, Untouched, HonestPings, OnFile

\* Every step keeps the process well formed.
LEMMA RNextType == ASSUME RInv, RNext PROVE RTypeOK'
<1>1. RTypeOK /\ Dated
  BY DEF RInv
<1>2. [alerts |-> alerts, runCount |-> runID] \in Snapshot
  BY <1>1 DEF RTypeOK, TypeOK, Snapshot
<1>3. CASE Advance \/ Built
  BY <1>1, <1>3, AdvanceFacts DEF RTypeOK
<1>4. CASE Start
  BY <1>1, <1>4, StartFacts DEF RTypeOK, Start
<1>5. \A snap \in Snapshot : Settle(snap) => fires' \in [Keys -> [Channels -> Nat]]
  BY <1>1 DEF Settle, RTypeOK
<1>6. CASE Save
  BY <1>1, <1>2, <1>5, <1>6 DEF Save, RTypeOK, vars, TypeOK, Untold, Firing, Settle
<1>7. CASE \E c \in Channels : Deliver(c)
  <2>1. PICK c \in Channels : Deliver(c)
    BY <1>7
  <2>2. outbox[1] \in Decision /\ Head(outbox) = outbox[1] /\ Len(outbox) > 0
    BY <1>1, <2>1 DEF RTypeOK, Deliver
  <2>3. [outbox[1] EXCEPT !.targets = @ \ {c}] \in Decision
    BY <2>2 DEF Decision
  <2>4. outbox' \in Seq(Decision)
    BY <1>1, <2>1, <2>2, <2>3 DEF RTypeOK, Deliver
  <2>5. fires' \in [Keys -> [Channels -> Nat]]
    <3>1. outbox[1].key \in Keys
      BY <2>2 DEF Decision
    <3>2. \/ fires' = fires
          \/ fires' = [fires EXCEPT ![outbox[1].key][c] = @ + 1]
      BY <2>1, <2>2 DEF Deliver
    <3>3. fires[outbox[1].key] \in [Channels -> Nat]
      BY <1>1, <3>1 DEF RTypeOK
    <3>4. [fires[outbox[1].key] EXCEPT ![c] = @ + 1] \in [Channels -> Nat]
      BY <3>3
    <3>5. QED BY <1>1, <3>1, <3>2, <3>4 DEF RTypeOK
  <2>6. QED BY <1>1, <2>1, <2>4, <2>5
            DEF Deliver, RTypeOK, vars, TypeOK, Untold, Firing
<1>8. CASE NextDecision
  BY <1>1, <1>8 DEF NextDecision, RTypeOK, vars, TypeOK, Untold, Firing
<1>9. CASE \/ ConfigFails \/ LoadFails \/ DryStop \/ SaveFails \/ Report
           \/ ReportFails \/ Kill \/ PowerLoss
  <2>1. Exit("ok") \/ Exit("error") \/ Exit("config") \/ Exit("killed")
    BY <1>9 DEF ConfigFails, LoadFails, DryStop, SaveFails, Report, ReportFails,
                Kill, PowerLoss
  <2>2. /\ TypeOK' /\ Untold' /\ stage' = "off" /\ outbox' = <<>>
        /\ exit' \in {"ok", "error", "config", "killed"}
    BY <1>1, <2>1, ExitFacts
  <2>3. /\ dry' \in BOOLEAN /\ platter' = platter /\ fires' = fires
        /\ disk' \in {disk, platter} /\ undone' \in {undone, undone + 1}
        /\ pings' \in {{}, {"fail"}, pings, pings \cup {"fail"},
                       pings \cup {"success"}}
    BY <1>1, <1>9 DEF RTypeOK, ConfigFails, LoadFails, DryStop, SaveFails, Report,
                      ReportFails, Kill, PowerLoss
  <2>4. pings' \in SUBSET {"start", "fail", "success"}
    <3>1. pings \in SUBSET {"start", "fail", "success"}
      BY <1>1 DEF RTypeOK
    <3>2. QED BY <2>3, <3>1
  <2>5. undone' \in Nat /\ disk' \in Snapshot /\ outbox' \in Seq(Decision)
    BY <1>1, <2>2, <2>3 DEF RTypeOK
  <2>6. /\ stage' \in {"off", "advance", "built", "deliver"}
        /\ exit' \in {"none", "ok", "error", "config", "killed"}
    BY <2>2
  <2>7. platter' \in Snapshot /\ fires' \in [Keys -> [Channels -> Nat]]
    BY <1>1, <2>3 DEF RTypeOK
  <2>8. QED BY <2>2, <2>3, <2>4, <2>5, <2>6, <2>7 DEF RTypeOK
<1>10. CASE WriteBack
  BY <1>1, <1>10 DEF WriteBack, RTypeOK, vars, TypeOK, Untold, Firing
<1>11. CASE LoseState
  <2>1. fires' \in [Keys -> [Channels -> Nat]]
    BY <1>1, <1>11 DEF LoseState, RTypeOK, Settle
  <2>2. QED BY <1>1, <1>11, <2>1, FreshFacts
            DEF LoseState, RTypeOK, vars, TypeOK, Untold, Firing
<1>12. QED BY <1>3, <1>4, <1>6, <1>7, <1>8, <1>9, <1>10, <1>11
           DEF RNext, Process

\* No step lets a key be seen by a run later than its table.
LEMMA RNextDated == ASSUME RInv, RNext PROVE Dated'
<1>1. RTypeOK /\ Dated
  BY DEF RInv
<1>2. CASE Advance \/ Built
  <2>1. /\ runID' = runID /\ disk' = disk /\ platter' = platter
    BY <1>1, <1>2, AdvanceFacts
  <2>2. SeenBy(alerts, runID)'
    BY <1>1, <1>2, <2>1, AdvancedDate DEF SeenBy
  <2>3. QED BY <1>1, <2>1, <2>2 DEF Dated, SeenBy, Quiet
<1>3. CASE Start
  <2>1. alerts' = disk.alerts /\ runID' = disk.runCount + 1
        /\ disk' = disk /\ platter' = platter
    BY <1>1, <1>3, StartFacts DEF Start
  <2>2. disk.runCount \in Nat /\ \A k \in Keys : disk.alerts[k].lastSeenRun \in Nat
    BY <1>1 DEF RTypeOK, Snapshot, KeyState
  <2>3. QED BY <1>1, <2>1, <2>2 DEF Dated, SeenBy, Quiet
<1>4. CASE Save
  <2>1. alerts' = alerts /\ runID' = runID /\ platter' = platter
        /\ disk'.alerts = alerts /\ disk'.runCount = runID
    BY <1>4 DEF Save, vars
  <2>2. QED BY <1>1, <2>1 DEF Dated, SeenBy, Quiet, RTypeOK, Untold, Firing
<1>5. CASE \/ ConfigFails \/ LoadFails \/ DryStop \/ SaveFails \/ Report
           \/ ReportFails \/ Kill \/ PowerLoss \/ WriteBack \/ NextDecision
           \/ \E c \in Channels : Deliver(c)
  <2>1. alerts' = alerts /\ runID' = runID
    BY <1>5 DEF ConfigFails, LoadFails, DryStop, SaveFails, Report, ReportFails,
                Kill, PowerLoss, WriteBack, NextDecision, Deliver, Exit, vars
  <2>2. disk' \in {disk, platter} /\ platter' \in {disk, platter}
    BY <1>5 DEF ConfigFails, LoadFails, DryStop, SaveFails, Report, ReportFails,
                Kill, PowerLoss, WriteBack, NextDecision, Deliver
  <2>3. QED BY <1>1, <2>1, <2>2 DEF Dated, SeenBy, Quiet
<1>6. CASE LoseState
  <2>1. alerts' = alerts /\ runID' = runID /\ disk' = Fresh /\ platter' = Fresh
    BY <1>6 DEF LoseState, vars
  <2>2. QED BY <1>1, <2>1, FreshFacts DEF Dated, SeenBy, Quiet, NoState
<1>7. QED BY <1>2, <1>3, <1>4, <1>5, <1>6 DEF RNext, Process

\* A look at a key is counted: what was not looked at is as it was loaded.
LEMMA RNextUntouched == ASSUME RInv, RNext PROVE Untouched'
<1>1. RTypeOK /\ Dated /\ Untouched
  BY DEF RInv
<1> SUFFICES ASSUME stage' = "advance", phase' = "observe", NEW k \in Keys
             PROVE  /\ left'[k] <= Replicas[k]
                    /\ left'[k] = Replicas[k] =>
                         /\ alerts'[k].lastSeenRun < runID'
                         /\ alerts'[k] = disk'.alerts[k]
  BY DEF Untouched
<1>2. Replicas[k] \in Nat \ {0}
  BY ConfigAssumption
<1>3. CASE Advance
  <2>1. /\ stage = "advance" /\ disk' = disk /\ runID' = runID
    BY <1>1, <1>3, AdvanceFacts
  <2>2. phase = "observe"
    <3>1. ASSUME NEW j \in Keys, NEW h \in Healths, NEW t \in Tiers,
                 NEW muted \in Mutes(j), Observe(j, h, t, muted)
          PROVE  phase = "observe"
      BY <3>1 DEF Observe, Ignore, Freeze, Degrade, Damp, Fire, Escalate,
                  DeEscalate, Remind, StaySilent, Bad, Forget, AwaitRecovery,
                  Resolve, Look
    <3>2. QED BY <1>3, <3>1 DEF Advance, EndObserve, SweepDegraded
  <2>3. /\ left[k] <= Replicas[k]
        /\ left[k] = Replicas[k] =>
              alerts[k].lastSeenRun < runID /\ alerts[k] = disk.alerts[k]
    BY <1>1, <2>1, <2>2 DEF Untouched
  <2>4. \/ alerts'[k] = alerts[k] /\ left'[k] = left[k]
        \/ left[k] \in Nat \ {0} /\ left'[k] = left[k] - 1
    BY <1>1, <1>3, <2>2, AdvancedKey
  <2>5. QED BY <1>2, <2>1, <2>3, <2>4
<1>4. CASE Start
  <2>1. /\ alerts' = disk.alerts /\ runID' = disk.runCount + 1
        /\ left' = Replicas /\ disk' = disk
    BY <1>1, <1>4, StartFacts DEF Start
  <2>2. /\ disk.runCount \in Nat /\ disk.alerts[k].lastSeenRun \in Nat
        /\ disk.alerts[k].lastSeenRun <= disk.runCount
    BY <1>1 DEF RTypeOK, Snapshot, KeyState, Dated, SeenBy
  <2>3. QED BY <1>2, <2>1, <2>2
<1>5. CASE WriteBack
  <2>1. /\ alerts' = alerts /\ runID' = runID /\ left' = left /\ disk' = disk
        /\ stage' = stage /\ phase' = phase
    BY <1>5 DEF WriteBack, vars
  <2>2. QED BY <1>1, <2>1 DEF Untouched
<1>6. ~Built /\ ~Save /\ ~LoseState
  BY DEF Built, Save, LoseState
<1>7. \A c \in Channels : ~Deliver(c)
  BY DEF Deliver
<1>8. ~NextDecision
  BY DEF NextDecision
<1>9. /\ ~ConfigFails /\ ~LoadFails /\ ~DryStop /\ ~SaveFails /\ ~Report
      /\ ~ReportFails /\ ~Kill /\ ~PowerLoss
  BY DEF ConfigFails, LoadFails, DryStop, SaveFails, Report, ReportFails, Kill,
         PowerLoss, Exit
<1>10. QED BY <1>3, <1>4, <1>5, <1>6, <1>7, <1>8, <1>9 DEF RNext, Process

\* Success is pinged by the report alone, after every post, and an error is
\* pinged as one.
LEMMA RNextPings == ASSUME RInv, RNext PROVE HonestPings'
<1>1. HonestPings /\ RTypeOK
  BY DEF RInv
<1>2. CASE Advance \/ Built
  BY <1>1, <1>2, AdvanceFacts DEF HonestPings
<1>3. CASE Start
  BY <1>1, <1>3 DEF Start, HonestPings
<1>4. CASE ConfigFails \/ DryStop \/ Report \/ Kill \/ PowerLoss
  <2>1. stage' = "off" /\ exit' # "error" /\ (exit' = "config" => pings' = {})
    BY <1>4 DEF ConfigFails, DryStop, Report, Kill, PowerLoss, Exit
  <2>2. QED BY <2>1 DEF HonestPings
<1>5. CASE LoadFails
  BY <1>5 DEF LoadFails, Exit, HonestPings
<1>6. CASE SaveFails \/ ReportFails
  <2>1. /\ stage' = "off" /\ pings' = pings \cup {"fail"} /\ stage # "off"
        /\ exit' = "error"
    BY <1>6 DEF SaveFails, ReportFails, Exit
  <2>2. QED BY <1>1, <2>1 DEF HonestPings
<1>7. CASE \/ Save \/ NextDecision \/ WriteBack \/ LoseState
           \/ \E c \in Channels : Deliver(c)
  <2>1. /\ pings' = pings /\ exit' = exit /\ dry' = dry
        /\ stage' = stage \/ (stage = "built" /\ stage' = "deliver")
    BY <1>7 DEF Save, NextDecision, WriteBack, LoseState, Deliver
  <2>2. QED BY <1>1, <2>1 DEF HonestPings
<1>8. QED BY <1>2, <1>3, <1>4, <1>5, <1>6, <1>7 DEF RNext, Process

\* From its save on, a run's own snapshot is on file.
LEMMA RNextOnFile == ASSUME RInv, RNext PROVE OnFile'
<1>1. OnFile /\ RTypeOK
  BY DEF RInv
<1> SUFFICES ASSUME stage' = "deliver"
             PROVE  ~dry' /\ disk' = [alerts |-> alerts', runCount |-> runID']
  BY DEF OnFile
<1>2. CASE Save
  BY <1>2 DEF Save, vars
<1>3. CASE NextDecision \/ WriteBack \/ \E c \in Channels : Deliver(c)
  <2>1. /\ alerts' = alerts /\ runID' = runID /\ disk' = disk /\ dry' = dry
        /\ stage' = stage
    BY <1>3 DEF NextDecision, WriteBack, Deliver, vars
  <2>2. QED BY <1>1, <2>1 DEF OnFile
<1>4. ~Advance /\ ~Built /\ ~Start /\ ~LoseState
  BY DEF Advance, Built, Start, LoseState
<1>5. /\ ~ConfigFails /\ ~LoadFails /\ ~DryStop /\ ~SaveFails /\ ~Report
      /\ ~ReportFails /\ ~Kill /\ ~PowerLoss
  BY DEF ConfigFails, LoadFails, DryStop, SaveFails, Report, ReportFails, Kill,
         PowerLoss, Exit
<1>6. QED BY <1>2, <1>3, <1>4, <1>5 DEF RNext, Process

\* A step that changes nothing keeps the invariant.
LEMMA RStutterInv == RInv /\ UNCHANGED rvars => RInv'
BY DEF rvars, vars, RInv, RTypeOK, TypeOK, Untold, Firing, Dated, SeenBy, Quiet,
       Untouched, HonestPings, OnFile

\* The invariant of every behaviour.
THEOREM RunInvariant == RSpec => []RInv
<1>1. RInit => RInv
  BY RInitInv
<1>2. RInv /\ [RNext]_rvars => RInv'
  <2>1. ASSUME RInv, RNext PROVE RInv'
    BY <2>1, RNextType, RNextDated, RNextUntouched, RNextPings, RNextOnFile DEF RInv
  <2>2. QED BY <2>1, RStutterInv
<1>3. QED BY <1>1, <1>2, PTL DEF RSpec

\* No run that fails reports success, and it pings the failure wherever RunOnce
\* fails, and only there: not where main refuses the configuration.
THEOREM FailuresArePinged == RSpec => []FailureIsPinged
<1>1. RInv => FailureIsPinged
  BY DEF RInv, HonestPings, FailureIsPinged, Failed
<1>2. QED BY <1>1, RunInvariant, PTL

\* However runs were killed, failed or undone before, the number of a run is
\* larger than that of every run its table remembers.
THEOREM RunNumbersAreFresh == RSpec => []RunNumberIsFresh
<1>1. RInv => RunNumberIsFresh
  BY DEF RInv, Untouched, RunNumberIsFresh
<1>2. QED BY <1>1, RunInvariant, PTL

\* The success ping is sent only by a run whose own snapshot is on file and that
\* has tried to post everything it decided.
THEOREM SuccessIsHonest == RSpec => SuccessIsEarned
<1>1. ASSUME RInv, [RNext]_rvars, exit # "ok", exit' = "ok", ~dry
      PROVE  /\ disk = [alerts |-> alerts, runCount |-> runID]
             /\ outbox = <<>>
             /\ "success" \in pings' /\ "fail" \notin pings'
  <2>1. RNext
    BY <1>1 DEF rvars
  <2>2. ~Advance /\ ~Built
    BY <1>1, AdvanceFacts DEF RInv
  <2>3. /\ ~Start /\ ~LoseState /\ ~Save /\ ~NextDecision /\ ~WriteBack
        /\ \A c \in Channels : ~Deliver(c)
    BY <1>1 DEF Start, LoseState, Save, NextDecision, WriteBack, Deliver
  <2>4. /\ ~ConfigFails /\ ~LoadFails /\ ~DryStop /\ ~SaveFails /\ ~ReportFails
        /\ ~Kill /\ ~PowerLoss
    BY <1>1 DEF ConfigFails, LoadFails, DryStop, SaveFails, ReportFails, Kill,
                PowerLoss, Exit
  <2>5. Report
    BY <2>1, <2>2, <2>3, <2>4 DEF RNext, Process
  <2>6. stage = "deliver" /\ outbox = <<>> /\ pings' = pings \cup {"success"}
    BY <2>5 DEF Report
  <2>7. QED BY <1>1, <2>6 DEF RInv, OnFile, HonestPings
<1>2. RInv /\ [RNext]_rvars =>
        [exit # "ok" /\ exit' = "ok" /\ ~dry =>
            /\ disk = [alerts |-> alerts, runCount |-> runID]
            /\ outbox = <<>>
            /\ "success" \in pings' /\ "fail" \notin pings']_rvars
  BY <1>1
<1>3. QED BY <1>2, RunInvariant, PTL DEF RSpec, SuccessIsEarned

\* A dry run under way neither writes the file nor posts nor pings.
THEOREM DryRunsAreHarmless == RSpec => DryRunIsHarmless
<1>1. ASSUME RInv, [RNext]_rvars, dry, stage # "off"
      PROVE  disk' \in {disk, platter} /\ fires' = fires /\ pings' = pings
  <2>1. stage # "deliver"
    BY <1>1 DEF RInv, OnFile
  <2>2. CASE UNCHANGED rvars
    BY <2>2 DEF rvars
  <2>3. CASE Advance \/ Built
    BY <2>3, <1>1, AdvanceFacts DEF RInv
  <2>4. CASE RNext /\ ~Advance /\ ~Built
    BY <1>1, <2>1, <2>4
       DEF RNext, Process, ConfigFails, LoadFails, Start, DryStop, Save, SaveFails,
           Deliver, NextDecision, Report, ReportFails, Kill, WriteBack, PowerLoss,
           LoseState
  <2>5. QED BY <1>1, <2>2, <2>3, <2>4
<1>2. RInv' => (dry' /\ stage' # "off" => pings' = {})
  BY DEF RInv, HonestPings
<1>3. RInv /\ RInv' /\ [RNext]_rvars =>
        [/\ dry /\ stage # "off" =>
               disk' \in {disk, platter} /\ fires' = fires /\ pings' = pings
         /\ dry' /\ stage' # "off" => pings' = {}]_rvars
  BY <1>1, <1>2
<1>4. QED BY <1>3, RunInvariant, PTL DEF RSpec, DryRunIsHarmless

-----------------------------------------------------------------------------
(* No storm.  A run may post a FIRE it owes on top of those that went out       *)
(* before, so the count is bounded by what is still owed: a FIRE is owed only   *)
(* for a key the file did not have firing, and for such a key every FIRE that   *)
(* went out before was undone by a loss of power.  One observation of a key a   *)
(* run is assumed: two replicas can make one run fire, resolve and fire again.  *)

IsFire(d, k) == d.kind = "fire" /\ d.key = k

\* At most one FIRE of a key.
OneFire(s) ==
    \A i, j \in DOMAIN s :
        s[i].kind = "fire" /\ s[j].kind = "fire" /\ s[i].key = s[j].key => i = j

\* A FIRE of the run under way is of a key that fires now and not on file, and
\* whose one observation is used up.
NewlyFiring ==
    stage \in {"advance", "built"} =>
        /\ OneFire(decisions)
        /\ \A i \in DOMAIN decisions, k \in Keys :
              IsFire(decisions[i], k) =>
                  Firing(k) /\ left[k] = 0 /\ disk.alerts[k].status # "firing"

\* A FIRE still to be posted is on file, and every one posted before was undone.
Owed ==
    /\ stage # "deliver" => outbox = <<>>
    /\ OneFire(outbox)
    /\ \A i \in DOMAIN outbox, k \in Keys :
          IsFire(outbox[i], k) =>
              Firing(k) /\ \A c \in outbox[i].targets : fires[k][c] <= undone

\* The FIREs that went out of a key: one while the file has it firing, and one
\* more for every save that was undone.
Budget ==
    \A k \in Keys, c \in Channels :
        fires[k][c] <= undone + IF disk.alerts[k].status = "firing" THEN 1 ELSE 0

FireInv == RInv /\ NewlyFiring /\ Owed /\ Budget

\* A step of the machine decides at most one FIRE: of a key that it turns from
\* pending to firing.
LEMMA FireDecided ==
    ASSUME RTypeOK, Advance \/ Built
    PROVE  \/ decisions' = decisions
           \/ \E d \in Decision : /\ decisions' = Append(decisions, d)
                                 /\ d.kind # "fire"
           \/ \E d \in Decision : /\ decisions' = Append(decisions, d)
                                 /\ phase = "observe" /\ ~Firing(d.key)
                                 /\ Firing(d.key)' /\ left[d.key] \in Nat \ {0}
                                 /\ left'[d.key] = left[d.key] - 1
<1>1. TypeOK
  BY DEF RTypeOK
<1>2. \A k \in Keys : Blind(k) \in Decision /\ Blind(k).kind = "degraded"
  BY <1>1, BlindType DEF Blind, Notice
<1>3. ASSUME NEW k \in Keys, NEW h \in Healths, NEW t \in Tiers,
             NEW muted \in Mutes(k), Observe(k, h, t, muted)
      PROVE  \/ decisions' = decisions
             \/ \E d \in Decision : /\ decisions' = Append(decisions, d)
                                   /\ d.kind # "fire"
             \/ \E d \in Decision : /\ decisions' = Append(decisions, d)
                                   /\ phase = "observe" /\ ~Firing(d.key)
                                   /\ Firing(d.key)' /\ left[d.key] \in Nat \ {0}
                                   /\ left'[d.key] = left[d.key] - 1
  <2>1. muted \in BOOLEAN
    BY DEF Mutes
  <2>2. Outcome(k, h, t, muted)
    BY <1>3, <2>1, ObserveOutcomes DEF RTypeOK
  <2>3. Look(k)
    BY <1>3 DEF Observe, Ignore, Freeze, Degrade, Damp, Fire, Escalate, DeEscalate,
                Remind, StaySilent, Bad, Forget, AwaitRecovery, Resolve
  <2>4. phase = "observe" /\ left[k] \in Nat \ {0} /\ left'[k] = left[k] - 1
    BY <1>1, <2>3, LookFacts DEF TypeOK
  <2>5. RouteTargets(t) \in SUBSET Channels
    BY ConfigAssumption DEF RouteTargets
  <2>6. alerts[k].tier \in Tiers /\ alerts[k].notifiedTargets \in SUBSET Channels
    BY <1>1 DEF TypeOK, KeyState
  <2>7. CASE Fired(k, t, muted)
    <3>1. Notice(k, "fire", t, RouteTargets(t)) \in Decision
      BY <2>5, NoticeType DEF Kinds
    <3>2. Notice(k, "fire", t, RouteTargets(t)).key = k
      BY DEF Notice
    <3>3. ~Firing(k) /\ Firing(k)'
      BY <2>7 DEF Fired, Firing
    <3>4. \/ decisions' = decisions
          \/ decisions' = Append(decisions, Notice(k, "fire", t, RouteTargets(t)))
      BY <2>7 DEF Fired, Announce
    <3>5. QED BY <2>4, <3>1, <3>2, <3>3, <3>4
  <2>8. CASE Renotified(k, t, muted)
    <3>1. /\ Notice(k, "escalate", t, RouteTargets(t)) \in Decision
          /\ Notice(k, "reminder", t, RouteTargets(t)) \in Decision
      BY <2>5, NoticeType DEF Kinds
    <3>2. /\ Notice(k, "escalate", t, RouteTargets(t)).kind = "escalate"
          /\ Notice(k, "reminder", t, RouteTargets(t)).kind = "reminder"
      BY DEF Notice
    <3>3. \/ decisions' = decisions
          \/ decisions' = Append(decisions, Notice(k, "escalate", t, RouteTargets(t)))
          \/ decisions' = Append(decisions, Notice(k, "reminder", t, RouteTargets(t)))
      BY <2>8 DEF Renotified, Announce
    <3>4. QED BY <3>1, <3>2, <3>3
  <2>9. CASE Resolved(k, muted)
    <3> DEFINE d == Notice(k, "resolved", alerts[k].tier, alerts[k].notifiedTargets)
    <3>1. d \in Decision /\ d.kind = "resolved"
      BY <2>6, NoticeType DEF Kinds, Notice
    <3>2. decisions' = decisions \/ decisions' = Append(decisions, d)
      BY <2>9 DEF Resolved, Announce
    <3>3. QED BY <3>1, <3>2
  <2>10. CASE Degraded(k, muted)
    BY <1>2, <2>10 DEF Degraded
  <2>11. QED BY <2>2, <2>7, <2>8, <2>9, <2>10
             DEF Outcome, Ignored, Frozen, Damped, Eased, Silent, Forgotten, Awaited
<1>4. ASSUME NEW k \in Keys, SweepDegraded(k)
      PROVE  \/ decisions' = decisions
             \/ decisions' = Append(decisions, Blind(k))
  BY <1>4 DEF SweepDegraded
<1>5. CASE EndObserve \/ PrunePending
  BY <1>5 DEF EndObserve, PrunePending
<1>6. QED BY <1>2, <1>3, <1>4, <1>5 DEF Advance, Built

\* A key that the run has turned to firing and looked at stays so until the end.
LEMMA FiringStays ==
    ASSUME RTypeOK, Advance \/ Built, NEW k \in Keys, Firing(k), left[k] = 0
    PROVE  Firing(k)' /\ left'[k] = 0
BY AdvancedKey DEF Same, Firing, Pending

\* The machine adds at most one FIRE of a key, and only of a key not on file.
LEMMA AdvanceNewlyFiring ==
    ASSUME OnePerRun, FireInv, Advance \/ Built
    PROVE  NewlyFiring'
<1>1. RInv /\ RTypeOK /\ NewlyFiring /\ stage = "advance" /\ disk' = disk
      /\ decisions \in Seq(Decision)
  BY AdvanceFacts DEF FireInv, RInv, RTypeOK, TypeOK
<1>2. /\ OneFire(decisions)
      /\ \A i \in DOMAIN decisions, k \in Keys :
            IsFire(decisions[i], k) =>
                Firing(k) /\ left[k] = 0 /\ disk.alerts[k].status # "firing"
  BY <1>1 DEF NewlyFiring
<1>3. \A i \in DOMAIN decisions, k \in Keys :
         IsFire(decisions[i], k) =>
             Firing(k)' /\ left'[k] = 0 /\ disk'.alerts[k].status # "firing"
  BY <1>1, <1>2, FiringStays
<1>4. CASE decisions' = decisions
  BY <1>2, <1>3, <1>4 DEF NewlyFiring, OneFire
<1>5. ASSUME NEW d \in Decision, decisions' = Append(decisions, d),
             d.kind # "fire"
      PROVE  NewlyFiring'
  <2>1. /\ DOMAIN decisions = 1 .. Len(decisions) /\ Len(decisions) \in Nat
        /\ DOMAIN decisions' = 1 .. Len(decisions) + 1
        /\ \A i \in DOMAIN decisions : decisions'[i] = decisions[i]
        /\ decisions'[Len(decisions) + 1] = d
    BY <1>1, <1>5
  <2>2. \A i \in DOMAIN decisions' : decisions'[i].kind = "fire" =>
           i \in DOMAIN decisions /\ decisions'[i] = decisions[i]
    BY <1>5, <2>1
  <2>3. QED BY <1>2, <1>3, <2>2 DEF NewlyFiring, OneFire, IsFire
<1>6. ASSUME NEW d \in Decision, decisions' = Append(decisions, d),
             phase = "observe", ~Firing(d.key), Firing(d.key)',
             left[d.key] \in Nat \ {0}, left'[d.key] = left[d.key] - 1
      PROVE  NewlyFiring'
  <2>1. /\ DOMAIN decisions = 1 .. Len(decisions) /\ Len(decisions) \in Nat
        /\ DOMAIN decisions' = 1 .. Len(decisions) + 1
        /\ \A i \in DOMAIN decisions : decisions'[i] = decisions[i]
        /\ decisions'[Len(decisions) + 1] = d
    BY <1>1, <1>6
  <2>2. d.key \in Keys
    BY DEF Decision
  <2>3. left[d.key] = 1 /\ alerts[d.key] = disk.alerts[d.key]
    BY <1>1, <1>6, <2>2 DEF RInv, Untouched, OnePerRun
  <2>4. left'[d.key] = 0 /\ disk'.alerts[d.key].status # "firing"
    BY <1>1, <1>6, <2>3 DEF Firing
  <2>5. \A i \in DOMAIN decisions : ~IsFire(decisions[i], d.key)
    BY <1>2, <1>6, <2>2
  <2>6. OneFire(decisions)'
    BY <1>2, <2>1, <2>5 DEF OneFire, IsFire
  <2>7. ASSUME NEW i \in DOMAIN decisions', NEW k \in Keys,
               IsFire(decisions'[i], k)
        PROVE  Firing(k)' /\ left'[k] = 0 /\ disk'.alerts[k].status # "firing"
    <3>1. CASE i \in DOMAIN decisions
      BY <1>3, <2>1, <2>7, <3>1
    <3>2. CASE i = Len(decisions) + 1
      <4>1. k = d.key
        BY <2>1, <2>7, <3>2 DEF IsFire
      <4>2. QED BY <1>6, <2>4, <4>1
    <3>3. QED BY <2>1, <3>1, <3>2
  <2>8. QED BY <2>6, <2>7 DEF NewlyFiring
<1>7. QED BY <1>1, <1>4, <1>5, <1>6, FireDecided

\* The machine posts nothing.
LEMMA AdvanceOwes ==
    ASSUME FireInv, Advance \/ Built
    PROVE  Owed' /\ Budget'
<1>1. /\ stage = "advance" /\ stage' \in {"advance", "built"} /\ disk' = disk
      /\ outbox' = outbox /\ fires' = fires /\ undone' = undone
  BY AdvanceFacts DEF FireInv, RInv
<1>2. outbox' = <<>>
  BY <1>1 DEF FireInv, Owed
<1>3. QED BY <1>1, <1>2 DEF FireInv, Owed, Budget, OneFire

\* The save hands over the decisions: what it makes owed is not on the old file,
\* and a key it has not firing is forgiven.
LEMMA SaveOwes ==
    ASSUME FireInv, Save
    PROVE  Owed' /\ Budget'
<1>1. /\ stage = "built" /\ stage' = "deliver" /\ outbox' = decisions
      /\ alerts' = alerts /\ undone' = undone /\ disk'.alerts = alerts
      /\ fires' = [k \in Keys |-> IF alerts[k].status = "firing" THEN fires[k]
                                 ELSE [c \in Channels |-> 0]]
  BY DEF Save, Settle, vars
<1>2. /\ fires \in [Keys -> [Channels -> Nat]] /\ undone \in Nat
      /\ \A i \in DOMAIN decisions : decisions[i].targets \subseteq Channels
  <2>1. decisions \in Seq(Decision)
    BY DEF FireInv, RInv, RTypeOK, TypeOK
  <2>2. \A i \in DOMAIN decisions : decisions[i] \in Decision
    BY <2>1
  <2>3. QED BY <2>2 DEF FireInv, RInv, RTypeOK, Decision
<1>3. /\ OneFire(decisions)
      /\ \A i \in DOMAIN decisions, k \in Keys :
            IsFire(decisions[i], k) =>
                Firing(k) /\ disk.alerts[k].status # "firing"
  BY <1>1 DEF FireInv, NewlyFiring
<1>4. \A k \in Keys, c \in Channels :
         /\ fires[k][c] <= undone + 1
         /\ disk.alerts[k].status # "firing" => fires[k][c] <= undone
  BY <1>2 DEF FireInv, Budget
<1>5. Budget'
  <2> SUFFICES ASSUME NEW k \in Keys, NEW c \in Channels
               PROVE  fires'[k][c]
                        <= undone + IF alerts[k].status = "firing" THEN 1 ELSE 0
    BY <1>1 DEF Budget
  <2>1. CASE alerts[k].status = "firing"
    BY <1>1, <1>4, <2>1
  <2>2. CASE alerts[k].status # "firing"
    BY <1>1, <1>2, <2>2
  <2>3. QED BY <2>1, <2>2
<1>6. Owed'
  <2>1. ASSUME NEW i \in DOMAIN decisions, NEW k \in Keys, IsFire(decisions[i], k)
        PROVE  Firing(k)' /\ \A c \in decisions[i].targets : fires'[k][c] <= undone
    <3>1. Firing(k) /\ disk.alerts[k].status # "firing"
      BY <1>3, <2>1
    <3>2. fires'[k] = fires[k]
      BY <1>1, <3>1 DEF Firing
    <3>3. QED BY <1>1, <1>2, <1>4, <3>1, <3>2 DEF Firing
  <2>2. QED BY <1>1, <1>3, <2>1 DEF Owed, OneFire, IsFire
<1>7. QED BY <1>5, <1>6

\* A post uses up what was owed: the channel leaves the targets of the only FIRE
\* of the key.
LEMMA DeliverOwes ==
    ASSUME FireInv, NEW c \in Channels, Deliver(c)
    PROVE  Owed' /\ Budget'
<1> DEFINE d == outbox[1]
<1>1. /\ stage = "deliver" /\ stage' = stage /\ alerts' = alerts /\ disk' = disk
      /\ undone' = undone /\ disk.alerts = alerts
  BY DEF FireInv, RInv, OnFile, Deliver, vars
<1>2. /\ outbox \in Seq(Decision) /\ undone \in Nat
      /\ fires \in [Keys -> [Channels -> Nat]]
  BY DEF FireInv, RInv, RTypeOK
<1>3. /\ Head(outbox) = d /\ 1 \in DOMAIN outbox /\ d \in Decision
  BY <1>2 DEF Deliver
<1>4. /\ c \in d.targets
      /\ outbox' = [outbox EXCEPT ![1] = [d EXCEPT !.targets = @ \ {c}]]
      /\ \/ fires' = fires
         \/ /\ d.kind = "fire"
            /\ fires' = [fires EXCEPT ![d.key] = [fires[d.key] EXCEPT ![c] = @ + 1]]
  BY <1>3 DEF Deliver
<1>5. d.key \in Keys
  BY <1>3 DEF Decision
<1> DEFINE e == [d EXCEPT !.targets = @ \ {c}]
<1>6. e.kind = d.kind /\ e.key = d.key /\ e.targets = d.targets \ {c}
  BY <1>3 DEF Decision
<1>7. /\ DOMAIN outbox' = DOMAIN outbox /\ outbox'[1] = e
      /\ \A i \in DOMAIN outbox : i # 1 => outbox'[i] = outbox[i]
  BY <1>2, <1>3, <1>4
<1> HIDE DEF d, e
<1>8. /\ OneFire(outbox)
      /\ \A i \in DOMAIN outbox, k \in Keys :
            IsFire(outbox[i], k) =>
                Firing(k) /\ \A b \in outbox[i].targets : fires[k][b] <= undone
  BY DEF FireInv, Owed
<1>9. OneFire(outbox')
  BY <1>6, <1>7, <1>8 DEF OneFire, d
<1>10. ASSUME NEW k \in Keys, NEW b \in Channels, k # d.key \/ b # c
       PROVE  fires'[k][b] = fires[k][b]
  BY <1>2, <1>4, <1>5, <1>10
<1>11. \/ fires' = fires
       \/ /\ d.kind = "fire" /\ fires'[d.key][c] = fires[d.key][c] + 1
          /\ fires[d.key][c] <= undone /\ Firing(d.key)
  <2>1. d.kind = "fire" => fires[d.key][c] <= undone /\ Firing(d.key)
    BY <1>3, <1>4, <1>5, <1>8 DEF IsFire, d
  <2>2. QED BY <1>2, <1>4, <1>5, <2>1
<1>12. Budget'
  <2> SUFFICES ASSUME NEW k \in Keys, NEW b \in Channels
               PROVE  fires'[k][b]
                        <= undone + IF alerts[k].status = "firing" THEN 1 ELSE 0
    BY <1>1 DEF Budget
  <2>1. fires[k][b] <= undone + IF alerts[k].status = "firing" THEN 1 ELSE 0
    BY <1>1 DEF FireInv, Budget
  <2>2. CASE fires' = fires
    BY <2>1, <2>2
  <2>3. CASE k # d.key \/ b # c
    BY <1>10, <2>1, <2>3
  <2>4. CASE fires' # fires /\ k = d.key /\ b = c
    <3>1. fires'[k][b] = fires[k][b] + 1 /\ fires[k][b] <= undone
          /\ alerts[k].status = "firing"
      BY <1>11, <2>4 DEF Firing
    <3>2. fires[k][b] \in Nat
      BY <1>2
    <3>3. QED BY <1>2, <3>1, <3>2
  <2>5. QED BY <2>2, <2>3, <2>4
<1>13. ASSUME NEW i \in DOMAIN outbox, NEW k \in Keys, IsFire(outbox'[i], k)
       PROVE  Firing(k)' /\ \A b \in outbox'[i].targets : fires'[k][b] <= undone
  <2>1. IsFire(outbox[i], k)
    BY <1>6, <1>7, <1>13 DEF IsFire, d
  <2>2. Firing(k) /\ \A b \in outbox[i].targets : fires[k][b] <= undone
    BY <1>8, <2>1
  <2>3. outbox[i] \in Decision
    BY <1>2
  <2>4. outbox[i].targets \subseteq Channels
    BY <2>3 DEF Decision
  <2>5. CASE i = 1
    <3>1. outbox'[i].targets = outbox[i].targets \ {c}
      BY <1>6, <1>7, <2>5 DEF d
    <3>2. \A b \in outbox'[i].targets :
             b \in Channels /\ b # c /\ fires[k][b] <= undone
      BY <2>2, <2>4, <3>1
    <3>3. QED BY <1>1, <1>10, <2>2, <3>2 DEF Firing
  <2>6. CASE i # 1
    <3>1. outbox'[i] = outbox[i]
      BY <1>7, <2>6
    <3>2. d.kind = "fire" => k # d.key
      BY <1>3, <1>8, <2>1, <2>6 DEF OneFire, IsFire, d
    <3>3. \A b \in Channels : fires'[k][b] = fires[k][b]
      BY <1>4, <1>10, <3>2
    <3>4. QED BY <1>1, <2>2, <2>4, <3>1, <3>3 DEF Firing
  <2>7. QED BY <2>5, <2>6
<1>14. Owed'
  BY <1>1, <1>7, <1>9, <1>13 DEF Owed
<1>15. QED BY <1>12, <1>14

\* Moving on to the next decision drops one whose posts are through.
LEMMA NextOwes ==
    ASSUME FireInv, NextDecision
    PROVE  Owed' /\ Budget'
<1>1. /\ stage = "deliver" /\ stage' = stage /\ alerts' = alerts /\ disk' = disk
      /\ undone' = undone /\ fires' = fires /\ outbox' = Tail(outbox)
      /\ outbox # <<>> /\ outbox \in Seq(Decision)
  BY DEF NextDecision, vars, FireInv, RInv, RTypeOK
<1>2. \A i \in DOMAIN outbox' : i + 1 \in DOMAIN outbox /\ i \in Nat
                               /\ outbox'[i] = outbox[i + 1]
  BY <1>1
<1>3. /\ OneFire(outbox)
      /\ \A i \in DOMAIN outbox, k \in Keys :
            IsFire(outbox[i], k) =>
                Firing(k) /\ \A b \in outbox[i].targets : fires[k][b] <= undone
  BY DEF FireInv, Owed
<1>4. OneFire(outbox')
  BY <1>2, <1>3 DEF OneFire
<1>5. Owed'
  BY <1>1, <1>2, <1>3, <1>4 DEF Owed, Firing
<1>6. QED BY <1>1, <1>5 DEF FireInv, Budget

\* The end of a run leaves nothing owed; a loss of power that undoes its save is
\* counted.
LEMMA EndOwes ==
    ASSUME FireInv, \/ ConfigFails \/ LoadFails \/ DryStop \/ SaveFails \/ Report
                    \/ ReportFails \/ Kill \/ PowerLoss
    PROVE  Owed' /\ Budget'
<1>1. /\ outbox' = <<>> /\ fires' = fires
      /\ \/ disk' = disk /\ undone' \in {undone, undone + 1}
         \/ undone' = undone + 1
  BY DEF ConfigFails, LoadFails, DryStop, SaveFails, Report, ReportFails, Kill,
         PowerLoss, Exit
<1>2. /\ fires \in [Keys -> [Channels -> Nat]] /\ undone \in Nat
  BY DEF FireInv, RInv, RTypeOK
<1>3. Owed'
  BY <1>1 DEF Owed, OneFire
<1>4. Budget'
  <2> SUFFICES ASSUME NEW k \in Keys, NEW c \in Channels
               PROVE  fires[k][c] <= undone' +
                        IF disk'.alerts[k].status = "firing" THEN 1 ELSE 0
    BY <1>1 DEF Budget
  <2>1. fires[k][c] \in Nat
    BY <1>2
  <2>2. fires[k][c] <= undone + IF disk.alerts[k].status = "firing" THEN 1 ELSE 0
    BY DEF FireInv, Budget
  <2>3. QED BY <1>1, <1>2, <2>1, <2>2
<1>5. QED BY <1>3, <1>4

\* Every step keeps the count of FIREs behind what is owed and undone.
LEMMA RNextFires ==
    ASSUME OnePerRun, FireInv, RNext
    PROVE  NewlyFiring' /\ Owed' /\ Budget'
<1>1. CASE Advance \/ Built
  BY <1>1, AdvanceNewlyFiring, AdvanceOwes
<1>2. CASE Start
  <2>1. /\ stage = "off" /\ stage' = "advance" /\ decisions' = <<>> /\ disk' = disk
        /\ fires' = fires /\ undone' = undone /\ outbox' = outbox
    BY <1>2 DEF Start, StartRun
  <2>2. outbox' = <<>>
    BY <2>1 DEF FireInv, Owed
  <2>3. QED BY <2>1, <2>2 DEF FireInv, NewlyFiring, Owed, Budget, OneFire
<1>3. CASE Save
  BY <1>3, SaveOwes DEF Save, NewlyFiring
<1>4. CASE \E c \in Channels : Deliver(c)
  <2>1. stage' = "deliver"
    BY <1>4 DEF Deliver
  <2>2. QED BY <1>4, <2>1, DeliverOwes DEF NewlyFiring
<1>5. CASE NextDecision
  BY <1>5, NextOwes DEF NextDecision, NewlyFiring
<1>6. CASE \/ ConfigFails \/ LoadFails \/ DryStop \/ SaveFails \/ Report
           \/ ReportFails \/ Kill \/ PowerLoss
  <2>1. stage' = "off"
    BY <1>6 DEF ConfigFails, LoadFails, DryStop, SaveFails, Report, ReportFails,
                Kill, PowerLoss, Exit
  <2>2. QED BY <1>6, <2>1, EndOwes DEF NewlyFiring
<1>7. CASE WriteBack
  BY <1>7 DEF WriteBack, vars, FireInv, NewlyFiring, Owed, Budget, Firing
<1>8. CASE LoseState
  <2>1. /\ stage' = "off" /\ outbox' = outbox /\ undone' = undone
        /\ stage = "off"
    BY <1>8 DEF LoseState
  <2>2. \A k \in Keys, c \in Channels : fires'[k][c] = 0
    BY <1>8, FreshFacts, NoStateType DEF LoseState, Settle
  <2>3. undone \in Nat
    BY DEF FireInv, RInv, RTypeOK
  <2>4. outbox' = <<>>
    BY <2>1 DEF FireInv, Owed
  <2>5. QED BY <2>1, <2>2, <2>3, <2>4
            DEF FireInv, NewlyFiring, Owed, Budget, OneFire
<1>9. QED BY <1>1, <1>2, <1>3, <1>4, <1>5, <1>6, <1>7, <1>8 DEF RNext, Process

\* Nothing went out before the first run.
LEMMA RInitFires == RInit => FireInv
<1> SUFFICES ASSUME RInit PROVE NewlyFiring /\ Owed /\ Budget
  BY RInitInv DEF FireInv
<1>1. /\ stage = "off" /\ outbox = <<>> /\ undone = 0
      /\ \A k \in Keys, c \in Channels : fires[k][c] = 0
  BY DEF RInit
<1>2. QED BY <1>1 DEF NewlyFiring, Owed, Budget, OneFire

\* With one observation of a key a run at most, a channel is sent the FIRE of an
\* episode on file once, and once more for every save a loss of power undid,
\* whatever else fails, is killed, repeated or lost.
THEOREM NoStorm ==
    ASSUME OnePerRun PROVE RSpec => []OneFirePerLoss
<1>1. RInit => FireInv
  BY RInitFires
<1>2. FireInv /\ [RNext]_rvars => FireInv'
  <2>1. ASSUME FireInv, RNext PROVE FireInv'
    <3>1. RInv'
      BY <2>1, RNextType, RNextDated, RNextUntouched, RNextPings, RNextOnFile
         DEF FireInv, RInv
    <3>2. QED BY <2>1, <3>1, RNextFires DEF FireInv
  <2>2. FireInv /\ UNCHANGED rvars => FireInv'
    <3> SUFFICES ASSUME FireInv, UNCHANGED rvars PROVE FireInv'
      OBVIOUS
    <3>1. RInv'
      BY RStutterInv DEF FireInv
    <3>2. QED BY <3>1 DEF rvars, vars, FireInv, NewlyFiring, Owed, Budget, Firing
  <2>3. QED BY <2>1, <2>2
<1>3. FireInv => OneFirePerLoss
  <2> SUFFICES ASSUME FireInv, NEW k \in Keys, NEW c \in Channels
               PROVE  fires[k][c] <= 1 + undone
    BY DEF OneFirePerLoss
  <2>1. undone \in Nat /\ fires \in [Keys -> [Channels -> Nat]]
    BY DEF FireInv, RInv, RTypeOK
  <2>2. QED BY <2>1 DEF FireInv, Budget
<1>4. QED BY <1>1, <1>2, <1>3, PTL DEF RSpec
=============================================================================
