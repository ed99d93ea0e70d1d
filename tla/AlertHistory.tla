---------------------------- MODULE AlertHistory ----------------------------
(***************************************************************************)
(* AlertMachine with history variables: what the runs measured of every    *)
(* key and what the channels were told, kept beside the machine and never  *)
(* read by it.  The properties compare the machine with that record.       *)
(***************************************************************************)
EXTENDS AlertMachine

VARIABLES
    verdict,    \* worst health of the key in the run in progress, or "none"
    badRuns,    \* ended runs in a row that found the key BAD
    okRuns,     \* ended runs since the last BAD one that found the key OK
    told,       \* channels the decisions of the key's episode went to
    hushed,     \* the episode of the key had a muted observation
    blindSaid,  \* degraded notices since the key was last measured
    waited      \* how far the clock went forward since the key's last notice

record == <<verdict, badRuns, okRuns, told, hushed, blindSaid, waited>>
hvars  == <<vars, record>>

HInit ==
    /\ Init
    /\ verdict = [k \in Keys |-> "none"]
    /\ badRuns = [k \in Keys |-> 0]
    /\ okRuns = [k \in Keys |-> 0]
    /\ told = [k \in Keys |-> {}]
    /\ hushed = [k \in Keys |-> FALSE]
    /\ blindSaid = [k \in Keys |-> 0]
    /\ waited = [k \in Keys |-> 0]

HBeginRun ==
    /\ BeginRun
    /\ verdict' = [k \in Keys |-> "none"]
    /\ waited' = [k \in Keys |-> IF now' > now THEN waited[k] + (now' - now)
                                               ELSE waited[k]]
    /\ UNCHANGED <<badRuns, okRuns, told, hushed, blindSaid>>

\* BAD outweighs OK, which outweighs UNKNOWN.
Worst(v, h) ==
    IF "BAD" \in {v, h} THEN "BAD" ELSE IF "OK" \in {v, h} THEN "OK" ELSE h

\* The step decides to notify someone; the notice is the last of decisions'.
Says == Len(decisions') > Len(decisions)
Said == decisions'[Len(decisions')]

HObserve(k, h, t, muted) ==
    /\ Observe(k, h, t, muted)
    /\ verdict' = [verdict EXCEPT ![k] = Worst(@, h)]
    /\ told' = [told EXCEPT ![k] = IF ~Firing(k)' THEN {}
                                   ELSE IF Says THEN @ \cup Said.targets ELSE @]
    /\ hushed' = [hushed EXCEPT ![k] = Firing(k)' /\ (@ \/ muted)]
    /\ blindSaid' = [blindSaid EXCEPT ![k] = IF h # "UNKNOWN" THEN 0
                                             ELSE IF Says THEN @ + 1 ELSE @]
    /\ waited' = [waited EXCEPT ![k] = IF Says /\ h = "BAD" THEN 0 ELSE @]
    /\ UNCHANGED <<badRuns, okRuns>>

HEndObserve == EndObserve /\ UNCHANGED record

HSweepDegraded(k) ==
    /\ SweepDegraded(k)
    /\ blindSaid' = [blindSaid EXCEPT ![k] = IF Says THEN @ + 1 ELSE @]
    /\ UNCHANGED <<verdict, badRuns, okRuns, told, hushed, waited>>

\* The verdict of the run is in.  A run that did not see the key breaks a
\* series of BAD ones; UNKNOWN and absence leave the other series alone.
HPrunePending ==
    /\ PrunePending
    /\ badRuns' = [k \in Keys |-> CASE verdict[k] = "BAD" -> badRuns[k] + 1
                                    [] verdict[k] = "UNKNOWN" -> badRuns[k]
                                    [] OTHER -> 0]
    /\ okRuns' = [k \in Keys |-> CASE verdict[k] = "OK" -> okRuns[k] + 1
                                   [] verdict[k] = "BAD" -> 0
                                   [] OTHER -> okRuns[k]]
    /\ UNCHANGED <<verdict, told, hushed, blindSaid, waited>>

HNext ==
    \/ HBeginRun
    \/ \E k \in Keys, h \in Healths, t \in Tiers :
           \E muted \in Mutes(k) : HObserve(k, h, t, muted)
    \/ HEndObserve
    \/ \E k \in Keys : HSweepDegraded(k)
    \/ HPrunePending

HSpec == HInit /\ [][HNext]_hvars

-----------------------------------------------------------------------------
(* Properties *)

\* No false alert.  A key starts to fire only when it was measured BAD in as
\* many runs in a row as the flap damping of the tier it fires at asks for,
\* runs that could not measure it aside: whatever happened to the key before
\* (a spike that cleared, an outage, a change of tier) counts for nothing.
FireNeedsSustainedBad ==
    [][\A k \in Keys : ~Firing(k) /\ Firing(k)' =>
           badRuns[k] + 1 >= FlapSamplesFor(k, alerts'[k].tier)]_hvars

\* No false all-clear.  A firing key leaves the table only in a run that found
\* it OK and nothing but OK, the last of resolve_samples such runs with no BAD
\* one in between; an outage, a container that is gone, the pruning or a mute
\* never ends an episode.
EpisodeEndsByRecovery ==
    [][\A k \in Keys : Firing(k) /\ ~Firing(k)' =>
           verdict'[k] = "OK" /\ okRuns[k] + 1 >= ResolveSamples]_hvars

\* A clock stepped back cannot suppress reminders forever: after a run that
\* found a firing key BAD, less than its cooldown separates the run from the
\* last notification, and the last notification is not in the future.
ReminderNeverStarved ==
    phase = "idle" =>
        \A k \in Keys : Firing(k) /\ verdict[k] = "BAD" =>
            LET age == now - alerts[k].lastNotified IN
            age = 0 \/ age \in 0 .. CooldownFor(k, alerts[k].tier) - 1

\* ... nor make one early: a reminder is said only when the clock went forward
\* by the cooldown since the key's last notice, whatever steps back it took.
NoEarlyReminder ==
    [][Says /\ Said.kind = "reminder" =>
           waited[Said.key] >= CooldownFor(Said.key, Said.tier)]_hvars

\* RESOLVED goes to exactly the channels the episode's decisions went to, when
\* no observation of the episode was muted.
ResolvedGoesToTold ==
    [][Says /\ Said.kind = "resolved" /\ ~hushed[Said.key] =>
           Said.targets = told[Said.key]]_hvars

\* While a firing key cannot be measured, whether its own observation is
\* UNKNOWN or its whole source is down, this is said once and once only, until
\* it is measured again; a mute in the episode may have swallowed the notice.
BlindnessSaidOnce ==
    \A k \in Keys :
        /\ blindSaid[k] <= 1
        /\ phase = "idle" /\ Firing(k) /\ ~hushed[k]
             /\ (verdict[k] = "UNKNOWN" \/ CheckOf[k] \in down)
           => blindSaid[k] = 1

\* 05-alerting.md: RESOLVED fans out to exactly the channels that received sends.
\* The code breaks it for an episode that began under a mute.
ResolvedWasTold ==
    [][Says /\ Said.kind = "resolved" => Said.targets = told[Said.key]]_hvars
=============================================================================
