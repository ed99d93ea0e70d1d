---------------------------- MODULE RunLifecycle ----------------------------
(***************************************************************************)
(* One process per timer firing: cmdRun and Runner.RunOnce around the      *)
(* alert state machine.  A run loads the snapshot, advances the machine in *)
(* memory, saves the snapshot, delivers the decisions, writes the report   *)
(* and pings the heartbeat.  The process can be killed at any point, every *)
(* file operation can fail, a post can get lost, and the host can lose     *)
(* power before the renamed state file has reached the disk.               *)
(***************************************************************************)
EXTENDS AlertMachine

CONSTANTS
    Faults,     \* which of the faults below can occur
    MaxUndone   \* bound on the saves undone by a loss of power

ASSUME FaultsAssumption ==
    /\ Faults \subseteq {"config", "load", "save", "report",
                         "kill", "power", "forget"}
    /\ MaxUndone \in Nat

VARIABLES
    stage,      \* "off", or how far RunOnce has come
    dry,        \* --dry-run
    disk,       \* state.json as a process reads it
    platter,    \* state.json as it would be after a power loss
    outbox,     \* decisions Deliver has still to post
    pings,      \* heartbeat pings of the run
    exit,       \* how the last run ended
    fires,      \* history: FIREs of a key that reached a channel while the
                \* saved snapshot has the key firing
    undone      \* history: saves undone by a loss of power

rvars == <<vars, stage, dry, disk, platter, outbox, pings, exit, fires, undone>>

\* state.New(): what Load makes of a missing, corrupt or foreign file.
Fresh == [alerts |-> [k \in Keys |-> NoState], runCount |-> 0]

Snapshot == [alerts : [Keys -> KeyState], runCount : Nat]

RInit ==
    /\ Init
    /\ stage = "off"
    /\ dry = FALSE
    /\ disk = Fresh
    /\ platter = Fresh
    /\ outbox = <<>>
    /\ pings = {}
    /\ exit = "none"
    /\ fires = [k \in Keys |-> [c \in Channels |-> 0]]
    /\ undone = 0

-----------------------------------------------------------------------------
(* The process *)

\* The run is over; what it held in memory is of no further use.
Exit(how) ==
    /\ stage' = "off"
    /\ exit' = how
    /\ phase' = "idle"
    /\ outbox' = <<>>
    /\ UNCHANGED <<alerts, runID, now, down, left, decisions>>

\* config.Load fails: there is no heartbeat URL to ping.
ConfigFails ==
    /\ stage = "off" /\ "config" \in Faults
    /\ Exit("config")
    /\ pings' = {}
    /\ UNCHANGED <<dry, disk, platter, fires, undone>>

\* LoadFails gone wrong: it leaves without a ping.
LoadFailsQuietly ==
    /\ stage = "off" /\ "load" \in Faults
    /\ Exit("error")
    /\ dry' \in BOOLEAN
    /\ pings' = {}
    /\ UNCHANGED <<disk, platter, fires, undone>>

\* state.json is there and cannot be read.
LoadFails ==
    /\ stage = "off" /\ "load" \in Faults
    /\ Exit("error")
    /\ dry' \in BOOLEAN
    /\ pings' = {"fail"}
    /\ UNCHANGED <<disk, platter, fires, undone>>

\* Load succeeds; the start ping is skipped by a dry run.
Start ==
    /\ stage = "off"
    /\ StartRun(disk.alerts, disk.runCount)
    /\ stage' = "advance"
    /\ dry' \in BOOLEAN
    /\ pings' = IF dry' THEN {} ELSE {"start"}
    /\ exit' = "none"
    /\ UNCHANGED <<disk, platter, outbox, fires, undone>>

\* collect, evaluate and Advance, on the snapshot in memory.
Advance ==
    /\ stage = "advance"
    /\ \/ \E k \in Keys, h \in Healths, t \in Tiers :
              \E muted \in Mutes(k) : Observe(k, h, t, muted)
       \/ EndObserve
       \/ \E k \in Keys : SweepDegraded(k)
    /\ UNCHANGED <<stage, dry, disk, platter, outbox, pings, exit, fires, undone>>

Built ==
    /\ stage = "advance"
    /\ PrunePending
    /\ stage' = "built"
    /\ UNCHANGED <<dry, disk, platter, outbox, pings, exit, fires, undone>>

DryStop ==
    /\ stage = "built" /\ dry
    /\ Exit("ok")
    /\ UNCHANGED <<dry, disk, platter, pings, fires, undone>>

\* A FIRE counts until a snapshot is saved that no longer has the key firing.
Settle(snap) ==
    fires' = [k \in Keys |-> IF snap[k].status = "firing" THEN fires[k]
                             ELSE [c \in Channels |-> 0]]

\* Save gone wrong: a dry run saves too, or the run count is not carried over.
SaveDryToo ==
    /\ stage = "built"
    /\ disk' = [alerts |-> alerts, runCount |-> runID]
    /\ outbox' = decisions
    /\ stage' = "deliver"
    /\ Settle(alerts)
    /\ UNCHANGED <<vars, dry, platter, pings, exit, undone>>

SaveOldCount ==
    /\ stage = "built" /\ ~dry
    /\ disk' = [alerts |-> alerts, runCount |-> disk.runCount]
    /\ outbox' = decisions
    /\ stage' = "deliver"
    /\ Settle(alerts)
    /\ UNCHANGED <<vars, dry, platter, pings, exit, undone>>

\* state.Save up to the rename: the old file or the new one, never a mixture.
Save ==
    /\ stage = "built" /\ ~dry
    /\ disk' = [alerts |-> alerts, runCount |-> runID]
    /\ outbox' = decisions
    /\ stage' = "deliver"
    /\ Settle(alerts)
    /\ UNCHANGED <<vars, dry, platter, pings, exit, undone>>

\* SaveFails gone wrong: the error is reported and the run goes on.
SaveFailsGoOn ==
    /\ stage = "built" /\ ~dry /\ "save" \in Faults
    /\ outbox' = decisions
    /\ stage' = "deliver"
    /\ pings' = pings \cup {"fail"}
    /\ UNCHANGED <<vars, dry, disk, platter, exit, fires, undone>>

SaveFails ==
    /\ stage = "built" /\ ~dry /\ "save" \in Faults
    /\ Exit("error")
    /\ pings' = pings \cup {"fail"}
    /\ UNCHANGED <<dry, disk, platter, fires, undone>>

\* One post.  Its outcome is recorded and the loop moves on.
Deliver(c) ==
    /\ stage = "deliver" /\ outbox # <<>>
    /\ LET d == Head(outbox) IN
         /\ c \in d.targets
         /\ outbox' = [outbox EXCEPT ![1].targets = @ \ {c}]
         /\ \/ UNCHANGED fires
            \/ d.kind = "fire" /\ fires' = [fires EXCEPT ![d.key][c] = @ + 1]
    /\ UNCHANGED <<vars, stage, dry, disk, platter, pings, exit, undone>>

\* NextDecision gone wrong: the loop does not get past its last decision.
NextDecisionButLast ==
    /\ stage = "deliver" /\ Len(outbox) > 1 /\ Head(outbox).targets = {}
    /\ outbox' = Tail(outbox)
    /\ UNCHANGED <<vars, stage, dry, disk, platter, pings, exit, fires, undone>>

\* The targets of a decision, of which there may be none, are through.
NextDecision ==
    /\ stage = "deliver" /\ outbox # <<>> /\ Head(outbox).targets = {}
    /\ outbox' = Tail(outbox)
    /\ UNCHANGED <<vars, stage, dry, disk, platter, pings, exit, fires, undone>>

\* Deliver is through; the report is written and the success ping sent.
Report ==
    /\ stage = "deliver" /\ outbox = <<>>
    /\ Exit("ok")
    /\ pings' = pings \cup {"success"}
    /\ UNCHANGED <<dry, disk, platter, fires, undone>>

ReportFails ==
    /\ stage = "deliver" /\ outbox = <<>> /\ "report" \in Faults
    /\ Exit("error")
    /\ pings' = pings \cup {"fail"}
    /\ UNCHANGED <<dry, disk, platter, fires, undone>>

-----------------------------------------------------------------------------
(* What happens to the process and to its file *)

\* SIGKILL, the memory cap of the unit, a panic.
Kill ==
    /\ stage # "off" /\ "kill" \in Faults
    /\ Exit("killed")
    /\ UNCHANGED <<dry, disk, platter, pings, fires, undone>>

\* Save syncs the file and not its directory: the kernel writes the rename
\* back when it pleases.
WriteBack ==
    /\ "power" \in Faults /\ platter # disk
    /\ platter' = disk
    /\ UNCHANGED <<vars, stage, dry, disk, outbox, pings, exit, fires, undone>>

PowerLoss ==
    /\ "power" \in Faults
    /\ platter # disk => undone < MaxUndone
    /\ Exit("killed")
    /\ disk' = platter
    /\ undone' = IF platter # disk THEN undone + 1 ELSE undone
    /\ UNCHANGED <<dry, platter, pings, fires>>

\* state.json is deleted or corrupted between two runs.
LoseState ==
    /\ stage = "off" /\ "forget" \in Faults /\ disk # Fresh
    /\ disk' = Fresh
    /\ platter' = Fresh
    /\ Settle(Fresh.alerts)
    /\ UNCHANGED <<vars, stage, dry, outbox, pings, exit, undone>>

\* The steps RunOnce takes by itself once it has started.
Process ==
    \/ Advance
    \/ Built
    \/ DryStop
    \/ Save
    \/ SaveFails
    \/ \E c \in Channels : Deliver(c)
    \/ NextDecision
    \/ Report
    \/ ReportFails

RNext ==
    \/ ConfigFails
    \/ LoadFails
    \/ Start
    \/ Process
    \/ Kill
    \/ WriteBack
    \/ PowerLoss
    \/ LoseState

RSpec == RInit /\ [][RNext]_rvars

\* A process that is not killed keeps running: nothing in it waits without a
\* deadline.  The timer and the faults are not fair.
RFairSpec == RSpec /\ WF_rvars(Process)

-----------------------------------------------------------------------------
(* Properties *)

\* No storm: while the snapshot on file has a key firing, a channel is sent its
\* FIRE once, through failed saves, failed reports, dry runs and kills at any
\* point (Save comes before Deliver, and a failed Save ends the run).  Only a
\* loss of power that undoes a save can make it go out again, and then once.
OneFirePerLoss == \A k \in Keys, c \in Channels : fires[k][c] <= 1 + undone

\* The success ping is earned: a run sends it only when its own snapshot is on
\* file and it has tried to post everything it decided.
SuccessIsEarned ==
    [][exit # "ok" /\ exit' = "ok" /\ ~dry =>
           /\ disk = [alerts |-> alerts, runCount |-> runID]
           /\ outbox = <<>>
           /\ "success" \in pings' /\ "fail" \notin pings']_rvars

\* Exit code 1, of main or of RunOnce.
Failed == stage = "off" /\ exit \in {"error", "config"}

\* No run that ends with an error reports success, and RunOnce pings each of its
\* errors.  One error is not pinged: a configuration that does not load ends the
\* run in main (main.go 74-80), before there is a URL to ping; its exit code is all
\* there is, although 05-alerting.md has it among what is pinged.
FailureIsPinged ==
    Failed => /\ "success" \notin pings
              /\ "fail" \in pings <=> exit = "error"

\* From Load on, a dry run changes neither the file nor what the channels have seen
\* and pings nothing, and whatever it computed is forgotten: the next run starts
\* from the same file.  (One whose Load fails pings the failure, as any run does.)
DryRunIsHarmless ==
    [][/\ dry /\ stage # "off" =>
             disk' \in {disk, platter} /\ fires' = fires /\ pings' = pings
       /\ dry' /\ stage' # "off" => pings' = {}]_rvars

\* A run number is used by one saved run only, so "seen in this run" can never
\* be true of a key that an earlier run on file has seen.
RunNumberIsFresh ==
    stage = "advance" /\ phase = "observe" /\ left = Replicas =>
        \A k \in Keys : Tracked(k) => alerts[k].lastSeenRun < runID

\* Every run comes to an end, whatever it decided and whatever fails.
RunEnds == stage # "off" ~> stage = "off"
=============================================================================
