------------------------- MODULE AlertHistoryProofs -------------------------
(* What the runs measured and what the channels were told, against what the   *)
(* machine did: theorems about AlertHistory, for every configuration Validate  *)
(* accepts.                                                                    *)
EXTENDS AlertHistory, AlertMachineProofs

-----------------------------------------------------------------------------
(* What a step says *)

\* A step that leaves the decisions alone says nothing; one that appends a
\* decision says that decision.
LEMMA SaysFacts ==
    ASSUME TypeOK, NEW d \in Decision
    PROVE  /\ decisions' = decisions => ~Says
           /\ decisions' = Append(decisions, d) => Says /\ Said = d
BY DEF TypeOK, Says, Said

\* An announcement is said unless it is muted or has nobody to go to.
LEMMA AnnounceFacts ==
    ASSUME TypeOK, NEW d \in Decision, NEW muted \in BOOLEAN, Announce(d, muted)
    PROVE  /\ Says <=> ~muted /\ d.targets # {}
           /\ Says => Said = d
BY SaysFacts DEF Announce

\* What the outcomes of an observation say, and to whom.
LEMMA OutcomeSays ==
    ASSUME TypeOK, NEW k \in Keys, NEW h \in Healths, NEW t \in Tiers,
           NEW muted \in BOOLEAN
    PROVE  /\ decisions' = decisions => ~Says
           /\ Degraded(k, muted) =>
                /\ Says <=> ~muted
                /\ Says => Said = Blind(k)
           /\ Fired(k, t, muted) =>
                /\ Says <=> ~muted /\ RouteTargets(t) # {}
                /\ Says => Said = Notice(k, "fire", t, RouteTargets(t))
           /\ Renotified(k, t, muted) =>
                /\ Says <=> ~muted /\ RouteTargets(t) # {}
                /\ Says => \/ Said = Notice(k, "escalate", t, RouteTargets(t))
                           \/ /\ Said = Notice(k, "reminder", t, RouteTargets(t))
                              /\ now - ClampedTime(k) >= CooldownFor(k, t)
           /\ Resolved(k, muted) =>
                /\ Says <=> ~muted /\ alerts[k].notifiedTargets # {}
                /\ Says => Said = Notice(k, "resolved", alerts[k].tier,
                                        alerts[k].notifiedTargets)
<1>1. RouteTargets(t) \in SUBSET Channels
  BY ConfigAssumption DEF RouteTargets
<1>2. alerts[k].tier \in Tiers /\ alerts[k].notifiedTargets \in SUBSET Channels
  BY DEF TypeOK, KeyState
<1>3. /\ Notice(k, "fire", t, RouteTargets(t)) \in Decision
      /\ Notice(k, "escalate", t, RouteTargets(t)) \in Decision
      /\ Notice(k, "reminder", t, RouteTargets(t)) \in Decision
      /\ Notice(k, "resolved", alerts[k].tier, alerts[k].notifiedTargets) \in Decision
  BY <1>1, <1>2, NoticeType DEF Kinds
<1>4. \A kind, to : Notice(k, kind, t, to).targets = to
  BY DEF Notice
<1>5. Notice(k, "resolved", alerts[k].tier, alerts[k].notifiedTargets).targets
        = alerts[k].notifiedTargets
  BY DEF Notice
<1>6. decisions' = decisions => ~Says
  BY <1>3, SaysFacts
<1>7. ASSUME Degraded(k, muted)
      PROVE  (Says <=> ~muted) /\ (Says => Said = Blind(k))
  BY <1>6, <1>7, BlindType, SaysFacts DEF Degraded
<1>8. ASSUME Fired(k, t, muted)
      PROVE  /\ Says <=> ~muted /\ RouteTargets(t) # {}
             /\ Says => Said = Notice(k, "fire", t, RouteTargets(t))
  BY <1>3, <1>4, <1>8, AnnounceFacts DEF Fired
<1>9. ASSUME Renotified(k, t, muted)
      PROVE  /\ Says <=> ~muted /\ RouteTargets(t) # {}
             /\ Says => \/ Said = Notice(k, "escalate", t, RouteTargets(t))
                        \/ /\ Said = Notice(k, "reminder", t, RouteTargets(t))
                           /\ now - ClampedTime(k) >= CooldownFor(k, t)
  <2>1. CASE Announce(Notice(k, "escalate", t, RouteTargets(t)), muted)
    BY <1>3, <1>4, <2>1, AnnounceFacts
  <2>2. CASE /\ Announce(Notice(k, "reminder", t, RouteTargets(t)), muted)
             /\ now - ClampedTime(k) >= CooldownFor(k, t)
    BY <1>3, <1>4, <2>2, AnnounceFacts
  <2>3. QED BY <1>9, <2>1, <2>2 DEF Renotified
<1>10. ASSUME Resolved(k, muted)
       PROVE  /\ Says <=> ~muted /\ alerts[k].notifiedTargets # {}
              /\ Says => Said = Notice(k, "resolved", alerts[k].tier,
                                      alerts[k].notifiedTargets)
  BY <1>3, <1>5, <1>10, AnnounceFacts DEF Resolved
<1>11. QED BY <1>6, <1>7, <1>8, <1>9, <1>10

-----------------------------------------------------------------------------
(* The record is well formed, and the machine under it is AlertMachine *)

RecordOK ==
    /\ verdict \in [Keys -> {"none"} \cup Healths]
    /\ badRuns \in [Keys -> Nat] /\ okRuns \in [Keys -> Nat]
    /\ told \in [Keys -> SUBSET Channels] /\ hushed \in [Keys -> BOOLEAN]
    /\ blindSaid \in [Keys -> Nat] /\ waited \in [Keys -> Nat]

Sound == TypeOK /\ Untold /\ RecordOK

\* A step of the machine with its record is a step of the machine.
LEMMA HistoryIsOfMachine == [HNext]_hvars => [Next]_vars
<1> SUFFICES ASSUME HNext PROVE Next
  BY DEF hvars
<1>1. ASSUME NEW k \in Keys, NEW h \in Healths, NEW t \in Tiers,
             NEW muted \in Mutes(k), HObserve(k, h, t, muted)
      PROVE  Next
  BY <1>1 DEF HObserve, Next
<1>2. QED BY <1>1 DEF HNext, HBeginRun, HEndObserve, HSweepDegraded, HPrunePending, Next

\* A mute is a Boolean.
LEMMA MuteType == \A k : Mutes(k) \subseteq BOOLEAN
BY DEF Mutes

\* What one observation writes into the record of its key.
LEMMA HeardFacts ==
    ASSUME Sound, NEW k \in Keys, NEW h \in Healths, NEW t \in Tiers,
           NEW muted \in BOOLEAN, HObserve(k, h, t, muted)
    PROVE  /\ TypeOK' /\ Outcome(k, h, t, muted)
           /\ verdict'[k] = Worst(verdict[k], h)
           /\ told'[k] = IF ~Firing(k)' THEN {}
                         ELSE IF Says THEN told[k] \cup Said.targets ELSE told[k]
           /\ hushed'[k] = (Firing(k)' /\ (hushed[k] \/ muted))
           /\ blindSaid'[k] = IF h # "UNKNOWN" THEN 0
                              ELSE IF Says THEN blindSaid[k] + 1 ELSE blindSaid[k]
           /\ waited'[k] = IF Says /\ h = "BAD" THEN 0 ELSE waited[k]
           /\ badRuns' = badRuns /\ okRuns' = okRuns
<1>1. Observe(k, h, t, muted)
  BY DEF HObserve
<1>2. TypeOK' /\ Outcome(k, h, t, muted)
  BY <1>1, ObserveType, ObserveOutcomes DEF Sound
<1>3. QED BY <1>2 DEF HObserve, Sound, RecordOK

\* What a step leaves alone of a key it is not about.
Undisturbed(j) ==
    /\ alerts'[j] = alerts[j] /\ left'[j] = left[j]
    /\ verdict'[j] = verdict[j] /\ badRuns'[j] = badRuns[j]
    /\ okRuns'[j] = okRuns[j] /\ told'[j] = told[j] /\ hushed'[j] = hushed[j]
    /\ blindSaid'[j] = blindSaid[j] /\ waited'[j] = waited[j]

SameRun == now' = now /\ runID' = runID /\ down' = down

\* An observation is about one key of one run.
LEMMA OthersUndisturbed ==
    ASSUME Sound, NEW k \in Keys, NEW h \in Healths, NEW t \in Tiers,
           NEW muted \in BOOLEAN, HObserve(k, h, t, muted)
    PROVE  /\ SameRun /\ phase' = phase /\ phase = "observe"
           /\ left[k] \in Nat \ {0} /\ left'[k] = left[k] - 1
           /\ CheckOf[k] \notin down
           /\ \A j \in Keys \ {k} : Undisturbed(j)
<1>1. Observe(k, h, t, muted) /\ TypeOK
  BY DEF HObserve, Sound
<1>2. Look(k)
  BY <1>1 DEF Observe, Ignore, Freeze, Degrade, Damp, Fire, Escalate, DeEscalate,
              Remind, StaySilent, Bad, Forget, AwaitRecovery, Resolve
<1>3. \A j \in Keys \ {k} : alerts'[j] = alerts[j]
  BY <1>1, ObserveOutcomes DEF Sound
<1>4. \A j \in Keys \ {k} : left'[j] = left[j]
  BY <1>1, <1>2, LookFacts DEF TypeOK
<1>5. left'[k] = left[k] - 1
  BY <1>1, <1>2, LookFacts DEF TypeOK
<1>6. QED BY <1>1, <1>2, <1>3, <1>4, <1>5, LookFacts
             DEF HObserve, Sound, RecordOK, Undisturbed, SameRun

\* Initially nothing is known and nothing was said.
LEMMA InitSound == HInit => Sound
BY InitType, InitUntold DEF HInit, Sound, RecordOK

\* No step leaves the types, of the table or of the record.
LEMMA NextSound == Sound /\ [HNext]_hvars => Sound'
<1> SUFFICES ASSUME Sound, [HNext]_hvars PROVE Sound'
  OBVIOUS
<1>1. TypeOK' /\ Untold'
  BY HistoryIsOfMachine, NextType, NextUntold DEF Sound
<1> SUFFICES RecordOK'
  BY <1>1 DEF Sound
<1>2. ASSUME NEW k \in Keys, NEW h \in Healths, NEW t \in Tiers,
             NEW muted \in Mutes(k), HObserve(k, h, t, muted)
      PROVE  RecordOK'
  <2>1. muted \in BOOLEAN
    BY MuteType
  <2>2. Says => Said \in Decision
    BY <1>1 DEF Says, Said, TypeOK, Sound
  <2>3. Says => Said.targets \subseteq Channels
    BY <2>2 DEF Decision
  <2>4. told' \in [Keys -> SUBSET Channels]
    BY <1>2, <2>3 DEF HObserve, Sound, RecordOK
  <2>5. hushed' \in [Keys -> BOOLEAN]
    BY <1>2, <2>1 DEF HObserve, Sound, RecordOK
  <2>6. verdict' \in [Keys -> {"none"} \cup Healths]
    BY <1>2 DEF HObserve, Sound, RecordOK, Worst, Healths
  <2>7. blindSaid' \in [Keys -> Nat] /\ waited' \in [Keys -> Nat]
    BY <1>2 DEF HObserve, Sound, RecordOK
  <2>8. QED BY <1>2, <2>4, <2>5, <2>6, <2>7 DEF HObserve, Sound, RecordOK
<1>3. CASE HBeginRun
  <2>1. now \in Nat /\ now' \in Nat
    BY <1>1, ConfigAssumption DEF Sound, TypeOK
  <2>2. QED BY <1>3, <2>1 DEF HBeginRun, Sound, RecordOK
<1>4. ASSUME NEW k \in Keys, HSweepDegraded(k) PROVE RecordOK'
  BY <1>4 DEF HSweepDegraded, Sound, RecordOK
<1>5. CASE HPrunePending
  BY <1>5 DEF HPrunePending, Sound, RecordOK, Healths
<1>6. CASE HEndObserve \/ UNCHANGED hvars
  BY <1>6 DEF HEndObserve, hvars, record, Sound, RecordOK
<1>7. QED BY <1>2, <1>3, <1>4, <1>5, <1>6 DEF HNext

-----------------------------------------------------------------------------
(* What holds of every key between any two steps *)

\* A key measured BAD in this run was notified within its cooldown.
InTime(k) ==
    Firing(k) /\ verdict[k] = "BAD" =>
        /\ alerts[k].lastNotified <= now
        /\ \/ now = alerts[k].lastNotified
           \/ now - alerts[k].lastNotified < CooldownFor(k, alerts[k].tier)

\* The machine never believes it waited longer than the clock went forward.
Patient(k) == Firing(k) => now - alerts[k].lastNotified <= waited[k]

\* What the table remembers of an episode's channels is what they were told.
Remembered(k) ==
    /\ ~Firing(k) => told[k] = {} /\ ~hushed[k]
    /\ Firing(k) /\ ~hushed[k] => told[k] = alerts[k].notifiedTargets

\* The flag of a key says whether its blindness was reported, and a firing key
\* that this run cannot measure has the flag or is still to be swept.
Reported(k) ==
    /\ blindSaid[k] <= 1
    /\ ~Firing(k) \/ ~alerts[k].degradedNotified => blindSaid[k] = 0
    /\ Firing(k) /\ ~hushed[k] /\ alerts[k].degradedNotified => blindSaid[k] = 1
    /\ Firing(k) /\ verdict[k] = "UNKNOWN" => alerts[k].degradedNotified
    /\ Firing(k) /\ CheckOf[k] \in down =>
          /\ phase = "idle" => alerts[k].lastSeenRun = runID
          /\ alerts[k].lastSeenRun = runID => alerts[k].degradedNotified
    /\ alerts[k].lastSeenRun <= runID

KeyInv(k) == InTime(k) /\ Patient(k) /\ Remembered(k) /\ Reported(k)

\* A key that a step leaves alone keeps all of it.
LEMMA Kept ==
    ASSUME NEW j \in Keys, KeyInv(j), Undisturbed(j), SameRun,
           phase' # "idle" \/ phase' = phase
    PROVE  KeyInv(j)'
BY DEF KeyInv, InTime, Patient, Remembered, Reported, Undisturbed, SameRun,
       Firing, CooldownFor

\* The values an observation of k can find.
LEMMA Found ==
    ASSUME Sound, NEW k \in Keys
    PROVE  /\ alerts[k].status \in {"none", "pending", "firing"}
           /\ alerts[k].lastNotified \in Nat /\ alerts[k].lastSeenRun \in Nat
           /\ alerts[k].consecutiveOK \in Nat /\ alerts[k].consecutiveBad \in Nat
           /\ alerts[k].degradedNotified \in BOOLEAN
           /\ now \in Nat /\ runID \in Nat
           /\ waited[k] \in Nat /\ blindSaid[k] \in Nat
           /\ badRuns[k] \in Nat /\ okRuns[k] \in Nat
           /\ verdict[k] \in {"none"} \cup Healths /\ hushed[k] \in BOOLEAN
BY ConfigAssumption DEF Sound, TypeOK, RecordOK, KeyState

\* After an observation, the key was notified within its cooldown if it is BAD.
LEMMA HeardInTime ==
    ASSUME Sound, NEW k \in Keys, NEW h \in Healths, NEW t \in Tiers,
           NEW muted \in BOOLEAN, HObserve(k, h, t, muted), KeyInv(k)
    PROVE  InTime(k)'
<1> SUFFICES ASSUME Firing(k)', verdict'[k] = "BAD"
             PROVE  /\ alerts'[k].lastNotified <= now
                    /\ \/ now = alerts'[k].lastNotified
                       \/ now - alerts'[k].lastNotified
                            < CooldownFor(k, alerts'[k].tier)
  BY OthersUndisturbed DEF InTime, SameRun, CooldownFor
<1>1. Outcome(k, h, t, muted) /\ (h = "BAD" \/ verdict[k] = "BAD")
  BY HeardFacts DEF Worst, Healths
<1>2. ClampedTime(k) \in Nat /\ ClampedTime(k) <= now
      /\ (alerts[k].lastNotified <= now => ClampedTime(k) = alerts[k].lastNotified)
  BY Found, ClampedTimeFacts DEF ClampedTime, Sound
<1>3. \A u \in Tiers : CooldownFor(k, u) \in Nat
  BY ConfigAssumption DEF CooldownFor
<1>4. alerts'[k].status = "firing"
  BY DEF Firing
<1>5. CASE h = "BAD"
  <2>1. Fired(k, t, muted) \/ Renotified(k, t, muted) \/ Eased(k, t) \/ Silent(k, t)
    BY <1>1, <1>4, <1>5, Found DEF Outcome, Ignored, Damped, Tracked
  <2>2. QED BY <1>2, <1>3, <2>1, Found DEF Fired, Renotified, Eased, Silent
<1>6. CASE h # "BAD"
  <2>1. verdict[k] = "BAD"
    BY <1>1, <1>6
  <2>2. /\ Firing(k) /\ alerts'[k].tier = alerts[k].tier
        /\ alerts'[k].lastNotified \in {alerts[k].lastNotified, ClampedTime(k)}
    BY <1>1, <1>4, <1>6, NoStateType
       DEF Outcome, Ignored, Tracked, Frozen, Degraded, Same, Forgotten, Awaited,
           Resolved, Firing
  <2>3. QED BY <1>2, <2>1, <2>2 DEF KeyInv, InTime
<1>7. QED BY <1>5, <1>6

\* After an observation, the machine did not wait longer than the clock did.
LEMMA HeardPatient ==
    ASSUME Sound, NEW k \in Keys, NEW h \in Healths, NEW t \in Tiers,
           NEW muted \in BOOLEAN, HObserve(k, h, t, muted), KeyInv(k)
    PROVE  Patient(k)'
<1> SUFFICES ASSUME Firing(k)'
             PROVE  now - alerts'[k].lastNotified <= waited'[k]
  BY OthersUndisturbed DEF Patient, SameRun
<1>1. /\ Outcome(k, h, t, muted)
      /\ waited'[k] = IF Says /\ h = "BAD" THEN 0 ELSE waited[k]
  BY HeardFacts
<1>2. ClampedTime(k) \in {now, alerts[k].lastNotified}
  BY DEF ClampedTime
<1>3. alerts'[k].status = "firing"
  BY DEF Firing
<1>4. CASE h = "BAD"
  <2>1. Fired(k, t, muted) \/ Renotified(k, t, muted) \/ Eased(k, t) \/ Silent(k, t)
    BY <1>1, <1>3, <1>4, Found DEF Outcome, Ignored, Damped, Tracked
  <2>2. CASE Fired(k, t, muted) \/ Renotified(k, t, muted) \/ Eased(k, t)
    BY <1>1, <2>2, Found DEF Fired, Renotified, Eased
  <2>3. CASE Silent(k, t)
    <3>1. ~Says
      BY <2>3, OutcomeSays DEF Silent, Sound
    <3>2. QED BY <1>1, <1>2, <2>3, <3>1, Found DEF Silent, KeyInv, Patient
  <2>4. QED BY <2>1, <2>2, <2>3
<1>5. CASE h # "BAD"
  <2>1. /\ Firing(k)
        /\ alerts'[k].lastNotified \in {alerts[k].lastNotified, ClampedTime(k)}
    BY <1>1, <1>3, <1>5, NoStateType
       DEF Outcome, Ignored, Tracked, Frozen, Degraded, Same, Forgotten, Awaited,
           Resolved, Firing
  <2>2. QED BY <1>1, <1>2, <1>5, <2>1, Found DEF KeyInv, Patient
<1>6. QED BY <1>4, <1>5

\* After an observation, the table remembers the channels the key was told to.
LEMMA HeardRemembered ==
    ASSUME Sound, NEW k \in Keys, NEW h \in Healths, NEW t \in Tiers,
           NEW muted \in BOOLEAN, HObserve(k, h, t, muted), KeyInv(k)
    PROVE  Remembered(k)'
<1>1. /\ Outcome(k, h, t, muted)
      /\ told'[k] = IF ~Firing(k)' THEN {}
                    ELSE IF Says THEN told[k] \cup Said.targets ELSE told[k]
      /\ hushed'[k] = (Firing(k)' /\ (hushed[k] \/ muted))
  BY HeardFacts
<1> SUFFICES ASSUME Firing(k)', ~hushed'[k]
             PROVE  told'[k] = alerts'[k].notifiedTargets
  BY <1>1 DEF Remembered
<1>2. ~hushed[k] /\ ~muted /\ alerts'[k].status = "firing"
      /\ told'[k] = IF Says THEN told[k] \cup Said.targets ELSE told[k]
  BY <1>1 DEF Firing
<1>3. \/ Frozen(k) \/ Degraded(k, muted) \/ Fired(k, t, muted)
      \/ Renotified(k, t, muted) \/ Eased(k, t) \/ Silent(k, t) \/ Awaited(k)
  BY <1>1, <1>2, Found, NoStateType
     DEF Outcome, Ignored, Tracked, Damped, Forgotten, Resolved
<1>4. Firing(k) => told[k] = alerts[k].notifiedTargets
  BY <1>2 DEF KeyInv, Remembered
<1>5. ~Firing(k) => told[k] = {}
  BY DEF KeyInv, Remembered
<1>6. CASE Frozen(k) \/ Eased(k, t) \/ Silent(k, t) \/ Awaited(k)
  <2>1. ~Says
    BY <1>6, OutcomeSays DEF Sound, Frozen, Eased, Silent, Awaited
  <2>2. Firing(k) /\ alerts'[k].notifiedTargets = alerts[k].notifiedTargets
    BY <1>2, <1>6 DEF Frozen, Same, Eased, Silent, Awaited, Firing
  <2>3. QED BY <1>2, <1>4, <2>1, <2>2
<1>7. CASE Degraded(k, muted)
  <2>1. Firing(k) /\ alerts'[k].notifiedTargets = alerts[k].notifiedTargets
        /\ (Says => Said = Blind(k))
    BY <1>7, OutcomeSays DEF Sound, Degraded, Same
  <2>2. Blind(k).targets = alerts[k].notifiedTargets
    BY DEF Blind, Notice
  <2>3. QED BY <1>2, <1>4, <2>1, <2>2
<1>8. CASE Fired(k, t, muted)
  <2>1. /\ ~Firing(k) /\ alerts'[k].notifiedTargets = RouteTargets(t)
        /\ Says <=> RouteTargets(t) # {}
        /\ Says => Said = Notice(k, "fire", t, RouteTargets(t))
    BY <1>2, <1>8, OutcomeSays DEF Sound, Fired
  <2>2. Says => Said.targets = RouteTargets(t)
    BY <2>1 DEF Notice
  <2>3. QED BY <1>2, <1>5, <2>1, <2>2
<1>9. CASE Renotified(k, t, muted)
  <2>1. /\ Firing(k)
        /\ alerts'[k].notifiedTargets = alerts[k].notifiedTargets \cup RouteTargets(t)
        /\ Says <=> RouteTargets(t) # {}
        /\ Says => \/ Said = Notice(k, "escalate", t, RouteTargets(t))
                   \/ Said = Notice(k, "reminder", t, RouteTargets(t))
    BY <1>2, <1>9, OutcomeSays DEF Sound, Renotified
  <2>2. Says => Said.targets = RouteTargets(t)
    BY <2>1 DEF Notice
  <2>3. QED BY <1>2, <1>4, <2>1, <2>2
<1>10. QED BY <1>3, <1>6, <1>7, <1>8, <1>9

\* After an observation, the flag of the key says whether its blindness was
\* reported.
LEMMA HeardReported ==
    ASSUME Sound, NEW k \in Keys, NEW h \in Healths, NEW t \in Tiers,
           NEW muted \in BOOLEAN, HObserve(k, h, t, muted), KeyInv(k)
    PROVE  Reported(k)'
<1>1. /\ Outcome(k, h, t, muted)
      /\ verdict'[k] = Worst(verdict[k], h)
      /\ hushed'[k] = (Firing(k)' /\ (hushed[k] \/ muted))
      /\ blindSaid'[k] = IF h # "UNKNOWN" THEN 0
                         ELSE IF Says THEN blindSaid[k] + 1 ELSE blindSaid[k]
      /\ now' = now /\ runID' = runID /\ down' = down /\ CheckOf[k] \notin down
  BY HeardFacts, OthersUndisturbed DEF SameRun
<1>2. Reported(k) /\ Remembered(k)
  BY DEF KeyInv
<1>3. CASE h = "UNKNOWN"
  <2>1. \/ Ignored(k) /\ ~Says
        \/ Frozen(k) /\ ~Says
        \/ Degraded(k, muted) /\ (Says <=> ~muted)
    BY <1>1, <1>3, OutcomeSays DEF Outcome, Sound, Ignored, Frozen
  <2>2. CASE (Ignored(k) \/ Frozen(k)) /\ ~Says
    <3>1. /\ Firing(k)' <=> Firing(k)
          /\ alerts'[k].degradedNotified = alerts[k].degradedNotified
          /\ alerts'[k].lastSeenRun <= runID
          /\ Firing(k) => alerts[k].degradedNotified
      BY <1>2, <2>2, Found DEF Ignored, Frozen, Same, Firing, Tracked, Reported
    <3>2. QED BY <1>1, <1>2, <1>3, <2>2, <3>1, Found DEF Reported, Remembered
  <2>3. CASE Degraded(k, muted) /\ (Says <=> ~muted)
    <3>1. /\ Firing(k)' /\ Firing(k) /\ alerts'[k].degradedNotified
          /\ ~alerts[k].degradedNotified /\ alerts'[k].lastSeenRun = runID
      BY <2>3 DEF Degraded, Same, Firing
    <3>2. QED BY <1>1, <1>2, <1>3, <2>3, <3>1, Found DEF Reported
  <2>4. QED BY <2>1, <2>2, <2>3
<1>4. CASE h # "UNKNOWN"
  <2>1. blindSaid'[k] = 0 /\ verdict'[k] # "UNKNOWN"
    BY <1>1, <1>4 DEF Worst, Healths
  <2>2. ~Firing(k)' \/ ~alerts'[k].degradedNotified
    BY <1>1, <1>4, Found, NoStateType
       DEF Outcome, Ignored, Tracked, Counted, Forgotten, Awaited, Resolved, Firing
  <2>3. alerts'[k].lastSeenRun <= runID
    BY <1>1, <1>2, <1>4, Found
       DEF Outcome, Ignored, Counted, Forgotten, Awaited, Resolved, NoState, Reported
  <2>4. QED BY <1>1, <2>1, <2>2, <2>3 DEF Reported
<1>5. QED BY <1>3, <1>4

-----------------------------------------------------------------------------
(* The other steps of a run *)

\* A new run keeps the episodes: nothing is measured yet, nothing was seen yet.
LEMMA BegunKeeps ==
    ASSUME Sound, NEW k \in Keys, HBeginRun, KeyInv(k)
    PROVE  KeyInv(k)'
<1>1. /\ alerts' = alerts /\ runID' = runID + 1 /\ phase' = "observe"
      /\ now' \in Nat /\ verdict'[k] = "none" /\ phase = "idle"
      /\ waited'[k] = IF now' > now THEN waited[k] + (now' - now) ELSE waited[k]
      /\ hushed' = hushed /\ told' = told /\ blindSaid' = blindSaid
  BY ConfigAssumption DEF HBeginRun, BeginRun, StartRun
<1>2. InTime(k)' /\ Remembered(k)'
  BY <1>1 DEF InTime, Remembered, KeyInv, Firing
<1>3. Patient(k)'
  BY <1>1, Found DEF Patient, KeyInv, Firing
<1>4. Reported(k)'
  <2>1. Reported(k)
    BY DEF KeyInv
  <2>2. alerts[k].lastSeenRun < runID'
    BY <1>1, <2>1, Found DEF Reported
  <2>3. QED BY <1>1, <2>1, <2>2, Found DEF Reported, Firing
<1>5. QED BY <1>2, <1>3, <1>4 DEF KeyInv

\* The sweep reports the blindness it finds unreported, and nothing else.
LEMMA SweptKeeps ==
    ASSUME Sound, NEW k \in Keys, HSweepDegraded(k), KeyInv(k)
    PROVE  KeyInv(k)'
<1>1. /\ Firing(k) /\ Same(k) /\ alerts'[k].degradedNotified
      /\ decisions' = IF alerts[k].degradedNotified
                         THEN decisions ELSE Append(decisions, Blind(k))
      /\ now' = now /\ runID' = runID /\ phase' = phase /\ down' = down
      /\ verdict' = verdict /\ told' = told /\ hushed' = hushed /\ waited' = waited
      /\ blindSaid'[k] = IF Says THEN blindSaid[k] + 1 ELSE blindSaid[k]
      /\ phase = "sweep"
  BY SweptFacts DEF HSweepDegraded, SweepDegraded, Sound, RecordOK
<1>2. Says <=> ~alerts[k].degradedNotified
  BY <1>1, BlindType, SaysFacts DEF Sound
<1>3. InTime(k)' /\ Patient(k)' /\ Remembered(k)'
  BY <1>1 DEF KeyInv, InTime, Patient, Remembered, Same, Firing, CooldownFor
<1>4. Reported(k)'
  <2>1. Reported(k)
    BY DEF KeyInv
  <2>2. Firing(k)' /\ alerts'[k].lastSeenRun = runID
    BY <1>1 DEF Same, Firing
  <2>3. QED BY <1>1, <1>2, <2>1, <2>2, Found DEF Reported
<1>5. QED BY <1>3, <1>4 DEF KeyInv

\* The pruning ends no episode, and leaves no firing key of a source that is
\* down unseen.
LEMMA PrunedKeeps ==
    ASSUME Sound, NEW k \in Keys, HPrunePending, KeyInv(k)
    PROVE  KeyInv(k)'
<1>1. /\ alerts'[k] = IF Stale(k) THEN NoState ELSE alerts[k]
      /\ now' = now /\ runID' = runID /\ down' = down /\ phase' = "idle"
      /\ verdict' = verdict /\ told' = told /\ hushed' = hushed /\ waited' = waited
      /\ blindSaid' = blindSaid /\ ~InTheDark(k)
  BY DEF HPrunePending, PrunePending
<1>2. CASE Stale(k)
  <2>1. alerts'[k] = NoState /\ ~Firing(k) /\ ~Firing(k)'
    BY <1>1, <1>2 DEF Stale, Pending, Firing, NoState
  <2>2. QED BY <1>1, <2>1, Found
            DEF KeyInv, InTime, Patient, Remembered, Reported, NoState
<1>3. CASE ~Stale(k)
  <2>1. alerts'[k] = alerts[k] /\ (Firing(k)' <=> Firing(k))
    BY <1>1, <1>3 DEF Firing
  <2>2. QED BY <1>1, <2>1
            DEF KeyInv, InTime, Patient, Remembered, Reported, InTheDark, CooldownFor
<1>4. QED BY <1>2, <1>3

HistoryInv == Sound /\ \A k \in Keys : KeyInv(k)

\* Before the first run no key fires and nothing was said.
LEMMA InitHistory == HInit => HistoryInv
<1> SUFFICES ASSUME HInit, NEW k \in Keys PROVE KeyInv(k)
  BY InitSound DEF HistoryInv
<1>1. alerts[k] = NoState /\ runID = 0 /\ told[k] = {} /\ ~hushed[k]
      /\ blindSaid[k] = 0
  BY DEF HInit, Init
<1>2. ~Firing(k) /\ alerts[k].lastSeenRun = 0
  BY <1>1 DEF Firing, NoState
<1>3. QED BY <1>1, <1>2 DEF KeyInv, InTime, Patient, Remembered, Reported

\* Every step of a run keeps the invariant of every key.
LEMMA NextHistory == HistoryInv /\ [HNext]_hvars => HistoryInv'
<1> SUFFICES ASSUME HistoryInv, [HNext]_hvars, NEW j \in Keys
             PROVE  KeyInv(j)'
  BY NextSound DEF HistoryInv
<1>1. Sound /\ KeyInv(j)
  BY DEF HistoryInv
<1>2. ASSUME NEW k \in Keys, NEW h \in Healths, NEW t \in Tiers,
             NEW muted \in Mutes(k), HObserve(k, h, t, muted)
      PROVE  KeyInv(j)'
  <2>1. muted \in BOOLEAN
    BY MuteType
  <2>2. CASE j = k
    BY <1>1, <1>2, <2>1, <2>2, HeardInTime, HeardPatient, HeardRemembered,
       HeardReported DEF KeyInv
  <2>3. CASE j # k
    <3>1. Undisturbed(j) /\ SameRun /\ phase' = phase
      BY <1>1, <1>2, <2>1, <2>3, OthersUndisturbed
    <3>2. QED BY <1>1, <3>1, Kept
  <2>4. QED BY <2>2, <2>3
<1>3. CASE HBeginRun
  BY <1>1, <1>3, BegunKeeps
<1>4. CASE HEndObserve
  <2>1. Undisturbed(j) /\ SameRun /\ phase' = "sweep"
    BY <1>4 DEF HEndObserve, EndObserve, record, Undisturbed, SameRun
  <2>2. QED BY <1>1, <2>1, Kept
<1>5. ASSUME NEW k \in Keys, HSweepDegraded(k) PROVE KeyInv(j)'
  <2>1. CASE j = k
    BY <1>1, <1>5, <2>1, SweptKeeps
  <2>2. CASE j # k
    <3>1. Undisturbed(j) /\ SameRun /\ phase' = phase
      BY <1>1, <1>5, <2>2, SweptFacts
         DEF HSweepDegraded, SweepDegraded, Sound, RecordOK, Undisturbed, SameRun
    <3>2. QED BY <1>1, <3>1, Kept
  <2>3. QED BY <2>1, <2>2
<1>6. CASE HPrunePending
  BY <1>1, <1>6, PrunedKeeps
<1>7. CASE UNCHANGED hvars
  <2>1. Undisturbed(j) /\ SameRun /\ phase' = phase
    BY <1>7 DEF hvars, vars, record, Undisturbed, SameRun
  <2>2. QED BY <1>1, <2>1, Kept
<1>8. QED BY <1>2, <1>3, <1>4, <1>5, <1>6, <1>7 DEF HNext

\* The invariant of every behaviour.
THEOREM HistoryInvariant == HSpec => []HistoryInv
<1>1. HInit => HistoryInv
  BY InitHistory
<1>2. HistoryInv /\ [HNext]_hvars => HistoryInv'
  BY NextHistory
<1>3. QED BY <1>1, <1>2, PTL DEF HSpec

\* However the wall clock is stepped, a run that finds a firing key BAD leaves it
\* notified within its cooldown and not in the future.
THEOREM RemindersKeepComing == HSpec => []ReminderNeverStarved
<1>1. HistoryInv => ReminderNeverStarved
  <2> SUFFICES ASSUME HistoryInv, NEW k \in Keys, Firing(k), verdict[k] = "BAD"
               PROVE  LET age == now - alerts[k].lastNotified
                      IN  age = 0 \/ age \in 0 .. CooldownFor(k, alerts[k].tier) - 1
    BY DEF ReminderNeverStarved
  <2>1. Sound /\ InTime(k)
    BY DEF HistoryInv, KeyInv
  <2>2. alerts[k].tier \in Tiers
    BY <2>1 DEF Sound, TypeOK, KeyState
  <2>3. CooldownFor(k, alerts[k].tier) \in Nat
    BY <2>2, ConfigAssumption DEF CooldownFor
  <2>4. QED BY <2>1, <2>3, Found DEF InTime
<1>2. QED BY <1>1, HistoryInvariant, PTL

\* While a firing key cannot be measured this is said exactly once, whichever of
\* the two paths finds out: the observation of the key or the sweep.
THEOREM BlindnessIsSaidOnce == HSpec => []BlindnessSaidOnce
<1>1. HistoryInv => BlindnessSaidOnce
  <2> SUFFICES ASSUME HistoryInv, NEW k \in Keys
               PROVE  /\ blindSaid[k] <= 1
                      /\ phase = "idle" /\ Firing(k) /\ ~hushed[k]
                           /\ (verdict[k] = "UNKNOWN" \/ CheckOf[k] \in down)
                         => blindSaid[k] = 1
    BY DEF BlindnessSaidOnce
  <2>1. QED BY DEF HistoryInv, KeyInv, Reported
<1>2. QED BY <1>1, HistoryInvariant, PTL

\* Who says what: only an observation of the key announces a reminder or a
\* recovery.
LEMMA WhoSays ==
    ASSUME HistoryInv, HNext, Says, Said.kind \in {"reminder", "resolved"}
    PROVE  \E k \in Keys, t \in Tiers, muted \in BOOLEAN :
              \/ /\ Renotified(k, t, muted)
                 /\ Said = Notice(k, "reminder", t, RouteTargets(t))
                 /\ now - ClampedTime(k) >= CooldownFor(k, t)
              \/ /\ Resolved(k, muted)
                 /\ Said = Notice(k, "resolved", alerts[k].tier,
                                  alerts[k].notifiedTargets)
<1>1. TypeOK /\ Sound
  BY DEF HistoryInv, Sound
<1>2. ASSUME NEW k \in Keys, NEW h \in Healths, NEW t \in Tiers,
             NEW muted \in Mutes(k), HObserve(k, h, t, muted)
      PROVE  \/ /\ Renotified(k, t, muted)
                /\ Said = Notice(k, "reminder", t, RouteTargets(t))
                /\ now - ClampedTime(k) >= CooldownFor(k, t)
             \/ /\ Resolved(k, muted)
                /\ Said = Notice(k, "resolved", alerts[k].tier,
                                 alerts[k].notifiedTargets)
  <2> muted \in BOOLEAN
    BY MuteType
  <2>1. Outcome(k, h, t, muted)
    BY <1>1, <1>2, ObserveOutcomes DEF HObserve, Sound
  <2>2. Degraded(k, muted) \/ Fired(k, t, muted) \/ Renotified(k, t, muted)
          \/ Resolved(k, muted)
    BY <1>1, <2>1, OutcomeSays
       DEF Outcome, Ignored, Frozen, Damped, Eased, Silent, Forgotten, Awaited
  <2>3. \A kind, u, to : Notice(k, kind, u, to).kind = kind
    BY DEF Notice
  <2>4. Blind(k).kind = "degraded"
    BY DEF Blind, Notice
  <2>5. QED BY <1>1, <2>1, <2>2, <2>3, <2>4, OutcomeSays
<1>3. ~HBeginRun
  BY <1>1 DEF HBeginRun, BeginRun, StartRun, Says, TypeOK
<1>4. ~HEndObserve /\ ~HPrunePending
  BY <1>1 DEF HEndObserve, EndObserve, HPrunePending, PrunePending, Says
<1>5. ASSUME NEW k \in Keys PROVE ~HSweepDegraded(k)
  <2> SUFFICES ASSUME HSweepDegraded(k) PROVE FALSE
    OBVIOUS
  <2>1. decisions' = decisions \/ decisions' = Append(decisions, Blind(k))
    BY DEF HSweepDegraded, SweepDegraded
  <2>2. Said = Blind(k)
    BY <1>1, <2>1, BlindType, SaysFacts
  <2>3. QED BY <2>2 DEF Blind, Notice
<1>6. QED BY <1>2, <1>3, <1>4, <1>5, MuteType DEF HNext

\* No reminder is early: the clock really went forward by the cooldown since the
\* last notice of the key, whatever steps back it took.
THEOREM RemindersWaited == HSpec => NoEarlyReminder
<1>1. ASSUME HistoryInv, [HNext]_hvars, Says, Said.kind = "reminder"
      PROVE  waited[Said.key] >= CooldownFor(Said.key, Said.tier)
  <2>1. HNext
    BY <1>1 DEF hvars, vars, Says, HistoryInv, Sound, TypeOK
  <2>2. PICK k \in Keys, t \in Tiers, muted \in BOOLEAN :
          \/ /\ Renotified(k, t, muted)
             /\ Said = Notice(k, "reminder", t, RouteTargets(t))
             /\ now - ClampedTime(k) >= CooldownFor(k, t)
          \/ /\ Resolved(k, muted)
             /\ Said = Notice(k, "resolved", alerts[k].tier,
                              alerts[k].notifiedTargets)
    BY <1>1, <2>1, WhoSays
  <2>3. /\ Renotified(k, t, muted) /\ Said.key = k /\ Said.tier = t
        /\ now - ClampedTime(k) >= CooldownFor(k, t)
    BY <1>1, <2>2 DEF Notice
  <2>4. Sound /\ Patient(k) /\ Firing(k)
    BY <1>1, <2>3 DEF HistoryInv, KeyInv, Renotified
  <2>5. CooldownFor(k, t) \in Nat
    BY ConfigAssumption DEF CooldownFor
  <2>6. QED BY <2>3, <2>4, <2>5, Found DEF Patient, ClampedTime
<1>2. HistoryInv /\ [HNext]_hvars =>
        [Says /\ Said.kind = "reminder" =>
            waited[Said.key] >= CooldownFor(Said.key, Said.tier)]_hvars
  BY <1>1
<1>3. QED BY <1>2, HistoryInvariant, PTL DEF HSpec, NoEarlyReminder

\* RESOLVED goes to exactly the channels the unmuted episode was told to.
THEOREM ResolvedReachesTold == HSpec => ResolvedGoesToTold
<1>1. ASSUME HistoryInv, [HNext]_hvars, Says, Said.kind = "resolved",
             ~hushed[Said.key]
      PROVE  Said.targets = told[Said.key]
  <2>1. HNext
    BY <1>1 DEF hvars, vars, Says, HistoryInv, Sound, TypeOK
  <2>2. PICK k \in Keys, t \in Tiers, muted \in BOOLEAN :
          \/ /\ Renotified(k, t, muted)
             /\ Said = Notice(k, "reminder", t, RouteTargets(t))
             /\ now - ClampedTime(k) >= CooldownFor(k, t)
          \/ /\ Resolved(k, muted)
             /\ Said = Notice(k, "resolved", alerts[k].tier,
                              alerts[k].notifiedTargets)
    BY <1>1, <2>1, WhoSays
  <2>3. /\ Resolved(k, muted) /\ Said.key = k
        /\ Said.targets = alerts[k].notifiedTargets
    BY <1>1, <2>2 DEF Notice
  <2>4. QED BY <1>1, <2>3 DEF HistoryInv, KeyInv, Remembered, Resolved
<1>2. HistoryInv /\ [HNext]_hvars =>
        [Says /\ Said.kind = "resolved" /\ ~hushed[Said.key] =>
            Said.targets = told[Said.key]]_hvars
  BY <1>1
<1>3. QED BY <1>2, HistoryInvariant, PTL DEF HSpec, ResolvedGoesToTold

-----------------------------------------------------------------------------
(* Runs against samples.  The machine counts observations and the properties   *)
(* count runs: they agree when a run yields one observation of a key at most.  *)
(* A service with two replicas breaks this, which the run of the replicas      *)
(* shows.                                                                      *)

\* 1 while the run in progress has found the key v and has not ended.
Running(k, v) == IF phase # "idle" /\ verdict[k] = v THEN 1 ELSE 0

\* The one observation of the key is still to come, or was already looked at.
LookedOnce(k) ==
    /\ left[k] <= 1
    /\ phase = "observe" /\ left[k] = 1 => verdict[k] = "none"

\* The damping never counts a breach that no run stands for, and a pending key
\* that is not BAD any more is forgotten or about to be pruned.
DampingHonest(k) ==
    Pending(k) =>
        /\ alerts[k].consecutiveBad <= badRuns[k] + Running(k, "BAD")
        /\ phase # "idle" => verdict[k] # "OK"
        /\ phase # "idle" /\ verdict[k] = "none" => alerts[k].lastSeenRun < runID

\* The recovery never counts an OK that no run stands for, and BAD restarts it.
RecoveryHonest(k) ==
    Firing(k) =>
        /\ alerts[k].consecutiveOK <= okRuns[k] + Running(k, "OK")
        /\ phase # "idle" /\ verdict[k] = "BAD" => alerts[k].consecutiveOK = 0

CountInv(k) == LookedOnce(k) /\ DampingHonest(k) /\ RecoveryHonest(k)

\* A step about another key changes none of it.
LEMMA CountKept ==
    ASSUME NEW j \in Keys, CountInv(j), Undisturbed(j), SameRun,
           phase' = phase \/ (phase = "observe" /\ phase' = "sweep")
    PROVE  CountInv(j)'
BY DEF CountInv, LookedOnce, DampingHonest, RecoveryHonest, Running, Undisturbed,
       SameRun, Pending, Firing

\* The observation is the first of its key in the run and decides its verdict.
LEMMA FirstLook ==
    ASSUME Sound, NEW k \in Keys, NEW h \in Healths, NEW t \in Tiers,
           NEW muted \in BOOLEAN, HObserve(k, h, t, muted), CountInv(k)
    PROVE  /\ verdict[k] = "none" /\ verdict'[k] = h
           /\ left'[k] = 0 /\ phase = "observe" /\ phase' = "observe"
<1>1. left[k] \in Nat \ {0} /\ left'[k] = left[k] - 1
      /\ phase = "observe" /\ phase' = phase
  BY OthersUndisturbed
<1>2. left[k] = 1 /\ verdict[k] = "none"
  BY <1>1 DEF CountInv, LookedOnce
<1>3. verdict'[k] = Worst(verdict[k], h)
  BY DEF HObserve, Sound, RecordOK
<1>4. QED BY <1>1, <1>2, <1>3 DEF Worst, Healths

\* One observation, one sample: the counters stay behind the runs.
LEMMA HeardCounts ==
    ASSUME Sound, NEW k \in Keys, NEW h \in Healths, NEW t \in Tiers,
           NEW muted \in BOOLEAN, HObserve(k, h, t, muted), CountInv(k)
    PROVE  CountInv(k)'
<1>1. /\ verdict[k] = "none" /\ verdict'[k] = h
      /\ left'[k] = 0 /\ phase = "observe" /\ phase' = "observe"
  BY FirstLook
<1>2. Outcome(k, h, t, muted)
  BY ObserveOutcomes DEF HObserve, Sound
<1>3. badRuns' = badRuns /\ okRuns' = okRuns /\ runID' = runID
  BY OthersUndisturbed DEF HObserve, SameRun
<1>4. LookedOnce(k)'
  BY <1>1 DEF LookedOnce
<1>5. DampingHonest(k)'
  <2> SUFFICES ASSUME alerts'[k].status = "pending"
               PROVE  /\ alerts'[k].consecutiveBad
                           <= badRuns[k] + (IF h = "BAD" THEN 1 ELSE 0)
                      /\ h # "OK"
    BY <1>1, <1>3 DEF DampingHonest, Running, Pending, Healths
  <2>1. Pending(k) => alerts[k].consecutiveBad <= badRuns[k]
    BY <1>1, Found DEF CountInv, DampingHonest, Running
  <2>2. h # "OK"
    BY <1>2, NoStateType
       DEF Outcome, Ignored, Tracked, Forgotten, Awaited, Resolved
  <2>3. CASE h = "UNKNOWN"
    BY <1>2, <2>1, <2>3, Found
       DEF Outcome, Ignored, Tracked, Frozen, Degraded, Same, Pending, Firing
  <2>4. CASE h = "BAD"
    <3>1. Ignored(k) \/ (Counted(k) /\ Damped(k))
      BY <1>2, <2>4 DEF Outcome, Fired, Renotified, Eased, Silent
    <3>2. QED BY <2>1, <2>4, <3>1, Found
              DEF Ignored, Tracked, Counted, Damped, Firing, Pending
  <2>5. QED BY <2>2, <2>3, <2>4 DEF Healths
<1>6. RecoveryHonest(k)'
  <2> SUFFICES ASSUME alerts'[k].status = "firing"
               PROVE  /\ alerts'[k].consecutiveOK
                           <= okRuns[k] + (IF h = "OK" THEN 1 ELSE 0)
                      /\ h = "BAD" => alerts'[k].consecutiveOK = 0
    BY <1>1, <1>3 DEF RecoveryHonest, Running, Firing
  <2>1. Firing(k) => alerts[k].consecutiveOK <= okRuns[k]
    BY <1>1, Found DEF CountInv, RecoveryHonest, Running
  <2>2. CASE h = "UNKNOWN"
    BY <1>2, <2>1, <2>2, Found
       DEF Outcome, Ignored, Tracked, Frozen, Degraded, Same, Firing
  <2>3. CASE h = "BAD"
    <3>1. alerts'[k].consecutiveOK = 0
      BY <1>2, <2>3 DEF Outcome, Ignored, Tracked, Counted
    <3>2. QED BY <2>3, <3>1, Found
  <2>4. CASE h = "OK"
    BY <1>2, <2>1, <2>4, Found, NoStateType
       DEF Outcome, Ignored, Tracked, Forgotten, Awaited, Resolved, Firing
  <2>5. QED BY <2>2, <2>3, <2>4 DEF Healths
<1>7. QED BY <1>4, <1>5, <1>6 DEF CountInv

\* The end of a run turns its verdict into one more run of the series.
LEMMA PrunedCounts ==
    ASSUME Sound, NEW k \in Keys, HPrunePending, CountInv(k)
    PROVE  CountInv(k)'
<1>1. /\ phase = "sweep" /\ phase' = "idle" /\ left' = left /\ verdict' = verdict
      /\ alerts'[k] = IF Stale(k) THEN NoState ELSE alerts[k]
      /\ badRuns'[k] = CASE verdict[k] = "BAD" -> badRuns[k] + 1
                         [] verdict[k] = "UNKNOWN" -> badRuns[k]
                         [] OTHER -> 0
      /\ okRuns'[k] = CASE verdict[k] = "OK" -> okRuns[k] + 1
                        [] verdict[k] = "BAD" -> 0
                        [] OTHER -> okRuns[k]
  BY DEF HPrunePending, PrunePending
<1>2. LookedOnce(k)'
  BY <1>1 DEF CountInv, LookedOnce
<1>3. DampingHonest(k)'
  <2> SUFFICES ASSUME alerts'[k].status = "pending"
               PROVE  alerts'[k].consecutiveBad <= badRuns'[k]
    BY <1>1, Found DEF DampingHonest, Running, Pending
  <2>1. ~Stale(k) /\ Pending(k) /\ alerts'[k] = alerts[k]
    BY <1>1, NoStateType DEF Pending
  <2>2. alerts[k].lastSeenRun = runID
    BY <2>1 DEF Stale
  <2>3. verdict[k] # "OK" /\ verdict[k] # "none"
    BY <1>1, <2>1, <2>2, Found DEF CountInv, DampingHonest
  <2>4. alerts[k].consecutiveBad
          <= badRuns[k] + (IF verdict[k] = "BAD" THEN 1 ELSE 0)
    BY <1>1, <2>1 DEF CountInv, DampingHonest, Running
  <2>5. QED BY <1>1, <2>1, <2>3, <2>4, Found DEF Healths
<1>4. RecoveryHonest(k)'
  <2> SUFFICES ASSUME alerts'[k].status = "firing"
               PROVE  alerts'[k].consecutiveOK <= okRuns'[k]
    BY <1>1, Found DEF RecoveryHonest, Running, Firing
  <2>1. Firing(k) /\ alerts'[k] = alerts[k]
    BY <1>1, NoStateType DEF Firing
  <2>2. /\ alerts[k].consecutiveOK
             <= okRuns[k] + (IF verdict[k] = "OK" THEN 1 ELSE 0)
        /\ verdict[k] = "BAD" => alerts[k].consecutiveOK = 0
    BY <1>1, <2>1 DEF CountInv, RecoveryHonest, Running
  <2>3. QED BY <1>1, <2>1, <2>2, Found DEF Healths
<1>5. QED BY <1>2, <1>3, <1>4 DEF CountInv

CountsInv == HistoryInv /\ \A k \in Keys : CountInv(k)

\* Every step keeps the counters behind the runs.
LEMMA NextCounts ==
    ASSUME OnePerRun PROVE CountsInv /\ [HNext]_hvars => CountsInv'
<1> SUFFICES ASSUME CountsInv, [HNext]_hvars, NEW j \in Keys
             PROVE  CountInv(j)'
  BY NextHistory DEF CountsInv
<1>1. Sound /\ CountInv(j) /\ KeyInv(j)
  BY DEF CountsInv, HistoryInv
<1>2. ASSUME NEW k \in Keys, NEW h \in Healths, NEW t \in Tiers,
             NEW muted \in Mutes(k), HObserve(k, h, t, muted)
      PROVE  CountInv(j)'
  <2>1. muted \in BOOLEAN
    BY MuteType
  <2>2. CASE j = k
    BY <1>1, <1>2, <2>1, <2>2, HeardCounts
  <2>3. CASE j # k
    <3>1. Undisturbed(j) /\ SameRun /\ phase' = phase
      BY <1>1, <1>2, <2>1, <2>3, OthersUndisturbed
    <3>2. QED BY <1>1, <3>1, CountKept
  <2>4. QED BY <2>2, <2>3
<1>3. CASE HBeginRun
  <2>1. /\ alerts' = alerts /\ runID' = runID + 1 /\ phase' = "observe"
        /\ verdict'[j] = "none" /\ left'[j] = 1 /\ phase = "idle"
        /\ badRuns' = badRuns /\ okRuns' = okRuns
    BY <1>3 DEF HBeginRun, BeginRun, StartRun, OnePerRun
  <2>2. alerts[j].lastSeenRun <= runID
    BY <1>1 DEF KeyInv, Reported
  <2>3. QED BY <1>1, <2>1, <2>2, Found
            DEF CountInv, LookedOnce, DampingHonest, RecoveryHonest, Running,
                Pending, Firing
<1>4. CASE HEndObserve
  <2>1. Undisturbed(j) /\ SameRun /\ phase = "observe" /\ phase' = "sweep"
    BY <1>4 DEF HEndObserve, EndObserve, record, Undisturbed, SameRun
  <2>2. QED BY <1>1, <2>1, CountKept
<1>5. ASSUME NEW k \in Keys, HSweepDegraded(k) PROVE CountInv(j)'
  <2>1. /\ left' = left /\ verdict' = verdict /\ badRuns' = badRuns
        /\ okRuns' = okRuns /\ phase' = phase /\ runID' = runID /\ phase = "sweep"
    BY <1>5 DEF HSweepDegraded, SweepDegraded
  <2>2. CASE j = k
    <3>1. Firing(j) /\ Same(j)
      BY <1>1, <1>5, <2>2, SweptFacts DEF HSweepDegraded, Sound
    <3>2. QED BY <1>1, <2>1, <3>1
              DEF CountInv, LookedOnce, DampingHonest, RecoveryHonest, Running,
                  Pending, Firing, Same
  <2>3. CASE j # k
    <3>1. alerts'[j] = alerts[j]
      BY <1>1, <1>5, <2>3, SweptFacts DEF HSweepDegraded, Sound
    <3>2. QED BY <1>1, <2>1, <3>1
              DEF CountInv, LookedOnce, DampingHonest, RecoveryHonest, Running,
                  Pending, Firing
  <2>4. QED BY <2>2, <2>3
<1>6. CASE HPrunePending
  BY <1>1, <1>6, PrunedCounts
<1>7. CASE UNCHANGED hvars
  <2>1. Undisturbed(j) /\ SameRun /\ phase' = phase
    BY <1>7 DEF hvars, vars, record, Undisturbed, SameRun
  <2>2. QED BY <1>1, <2>1, CountKept
<1>8. QED BY <1>2, <1>3, <1>4, <1>5, <1>6, <1>7 DEF HNext

\* Before the first run every counter is zero.
LEMMA InitCounts == HInit => CountsInv
<1> SUFFICES ASSUME HInit, NEW k \in Keys PROVE CountInv(k)
  BY InitHistory DEF CountsInv
<1>1. alerts[k] = NoState /\ left[k] = 0 /\ phase = "idle"
  BY DEF HInit, Init
<1>2. ~Firing(k) /\ ~Pending(k)
  BY <1>1 DEF Firing, Pending, NoState
<1>3. QED BY <1>1, <1>2 DEF CountInv, LookedOnce, DampingHonest, RecoveryHonest

\* Only an observation of a key opens or closes its episode.
LEMMA WhoTurns ==
    ASSUME CountsInv, HNext, NEW j \in Keys, Firing(j)' # Firing(j)
    PROVE  \E h \in Healths, t \in Tiers, muted \in BOOLEAN :
              HObserve(j, h, t, muted)
<1>1. Sound
  BY DEF CountsInv, HistoryInv
<1>2. ASSUME NEW k \in Keys, NEW h \in Healths, NEW t \in Tiers,
             NEW muted \in Mutes(k), HObserve(k, h, t, muted)
      PROVE  muted \in BOOLEAN /\ j = k
  <2>1. muted \in BOOLEAN
    BY MuteType
  <2>2. CASE j # k
    <3>1. alerts'[j] = alerts[j]
      BY <1>1, <1>2, <2>1, <2>2, OthersUndisturbed DEF Undisturbed
    <3>2. QED BY <3>1 DEF Firing
  <2>3. QED BY <2>1, <2>2
<1>3. ~HBeginRun /\ ~HEndObserve
  BY DEF HBeginRun, BeginRun, StartRun, HEndObserve, EndObserve, Firing
<1>4. ASSUME NEW k \in Keys PROVE ~HSweepDegraded(k)
  <2> SUFFICES ASSUME HSweepDegraded(k) PROVE FALSE
    OBVIOUS
  <2>1. /\ Firing(k) /\ Same(k)
        /\ \A i \in Keys \ {k} : alerts'[i] = alerts[i]
    BY <1>1, SweptFacts DEF HSweepDegraded, Sound
  <2>2. QED BY <2>1 DEF Firing, Same
<1>5. ~HPrunePending
  <2> SUFFICES ASSUME HPrunePending PROVE FALSE
    OBVIOUS
  <2>1. alerts'[j] = IF Stale(j) THEN NoState ELSE alerts[j]
    BY DEF HPrunePending, PrunePending
  <2>2. QED BY <2>1 DEF Firing, Stale, Pending, NoState
<1>6. QED BY <1>2, <1>3, <1>4, <1>5 DEF HNext

\* With one observation of a key a run at most, no key fires before it was found
\* BAD in as many runs in a row as the damping of its tier asks for.
THEOREM FiresOnSustainedBad ==
    ASSUME OnePerRun PROVE HSpec => FireNeedsSustainedBad
<1>1. ASSUME CountsInv, [HNext]_hvars, NEW j \in Keys, ~Firing(j), Firing(j)'
      PROVE  badRuns[j] + 1 >= FlapSamplesFor(j, alerts'[j].tier)
  <2>1. HNext
    BY <1>1 DEF hvars, vars, Firing
  <2>2. PICK h \in Healths, t \in Tiers, muted \in BOOLEAN :
          HObserve(j, h, t, muted)
    BY <1>1, <2>1, WhoTurns
  <2>3. Sound /\ CountInv(j)
    BY <1>1 DEF CountsInv, HistoryInv
  <2>4. Outcome(j, h, t, muted) /\ verdict[j] = "none"
    BY <2>2, <2>3, ObserveOutcomes, FirstLook DEF HObserve, Sound
  <2>5. Counted(j) /\ Fired(j, t, muted)
    BY <1>1, <2>3, <2>4, NoStateType, Found
       DEF Outcome, Ignored, Frozen, Same, Degraded, Damped, Renotified, Eased,
           Silent, Forgotten, Awaited, Resolved, Firing
  <2>6. Pending(j) => alerts[j].consecutiveBad <= badRuns[j]
    BY <2>3, <2>4, Found DEF CountInv, DampingHonest, Running
  <2>7. alerts'[j].consecutiveBad <= badRuns[j] + 1
    BY <1>1, <2>3, <2>5, <2>6, Found DEF Counted, Tracked, Pending, Firing
  <2>8. FlapSamplesFor(j, t) \in Nat
    BY ConfigAssumption DEF FlapSamplesFor
  <2>9. alerts'[j].consecutiveBad \in Nat
    BY <2>3, <2>5, Found DEF Counted
  <2>10. QED BY <2>3, <2>5, <2>7, <2>8, <2>9, Found DEF Fired
<1>2. CountsInv /\ [HNext]_hvars =>
        [\A k \in Keys : ~Firing(k) /\ Firing(k)' =>
            badRuns[k] + 1 >= FlapSamplesFor(k, alerts'[k].tier)]_hvars
  BY <1>1
<1>3. QED BY <1>2, InitCounts, NextCounts, PTL DEF HSpec, FireNeedsSustainedBad

\* With one observation of a key a run at most, an episode ends only in a run that
\* found the key OK, the last of resolve_samples with no BAD one in between.
THEOREM EndsByRecovery ==
    ASSUME OnePerRun PROVE HSpec => EpisodeEndsByRecovery
<1>1. ASSUME CountsInv, [HNext]_hvars, NEW j \in Keys, Firing(j), ~Firing(j)'
      PROVE  verdict'[j] = "OK" /\ okRuns[j] + 1 >= ResolveSamples
  <2>1. HNext
    BY <1>1 DEF hvars, vars, Firing
  <2>2. PICK h \in Healths, t \in Tiers, muted \in BOOLEAN :
          HObserve(j, h, t, muted)
    BY <1>1, <2>1, WhoTurns
  <2>3. Sound /\ CountInv(j)
    BY <1>1 DEF CountsInv, HistoryInv
  <2>4. Outcome(j, h, t, muted) /\ verdict[j] = "none" /\ verdict'[j] = h
    BY <2>2, <2>3, ObserveOutcomes, FirstLook DEF HObserve, Sound
  <2>5. h = "OK" /\ Resolved(j, muted)
    BY <1>1, <2>3, <2>4, Found
       DEF Outcome, Ignored, Tracked, Frozen, Same, Degraded, Damped, Fired,
           Renotified, Eased, Silent, Forgotten, Pending, Awaited, Firing
  <2>6. alerts[j].consecutiveOK <= okRuns[j]
    BY <1>1, <2>3, <2>4, Found DEF CountInv, RecoveryHonest, Running
  <2>7. QED BY <2>3, <2>4, <2>5, <2>6, Found, ConfigAssumption DEF Resolved
<1>2. CountsInv /\ [HNext]_hvars =>
        [\A k \in Keys : Firing(k) /\ ~Firing(k)' =>
            verdict'[k] = "OK" /\ okRuns[k] + 1 >= ResolveSamples]_hvars
  BY <1>1
<1>3. QED BY <1>2, InitCounts, NextCounts, PTL DEF HSpec, EpisodeEndsByRecovery
=============================================================================
