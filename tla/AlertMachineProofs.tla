------------------------- MODULE AlertMachineProofs -------------------------
(* Theorems about AlertMachine, for every configuration Validate accepts. *)
EXTENDS AlertMachine, TLAPS

\* A key without an entry has the state of no episode.
LEMMA NoStateType == NoState \in KeyState /\ NoState.status = "none"
BY DEF NoState, KeyState, Tiers

\* The clock clamp touches nothing but the time of the last notification.
LEMMA ClampedFacts ==
    ASSUME TypeOK, NEW ks \in KeyState
    PROVE  /\ Clamped(ks) \in KeyState
           /\ Clamped(ks).status = ks.status /\ Clamped(ks).tier = ks.tier
           /\ Clamped(ks).notifiedTargets = ks.notifiedTargets
           /\ Clamped(ks).consecutiveBad = ks.consecutiveBad
           /\ Clamped(ks).consecutiveOK = ks.consecutiveOK
           /\ Clamped(ks).lastNotified <= now
           /\ Clamped(ks).lastNotified <= ks.lastNotified
           /\ ks.lastNotified <= now => Clamped(ks).lastNotified = ks.lastNotified
<1>1. now \in Nat /\ ks.lastNotified \in Nat
  BY ConfigAssumption DEF TypeOK, KeyState
<1>2. PICK n \in Nat : n = IF now < ks.lastNotified THEN now ELSE ks.lastNotified
  BY <1>1
<1>3. Clamped(ks) = [ks EXCEPT !.lastNotified = n]
  BY <1>2 DEF Clamped
<1>4. Clamped(ks) \in KeyState /\ Clamped(ks).lastNotified = n
  BY <1>2, <1>3 DEF KeyState
<1>5. /\ Clamped(ks).status = ks.status /\ Clamped(ks).tier = ks.tier
      /\ Clamped(ks).notifiedTargets = ks.notifiedTargets
      /\ Clamped(ks).consecutiveBad = ks.consecutiveBad
      /\ Clamped(ks).consecutiveOK = ks.consecutiveOK
  BY <1>3 DEF KeyState
<1>6. QED BY <1>1, <1>2, <1>4, <1>5

\* What a BAD observation leaves behind, whatever its tier.
LEMMA BreachedFacts ==
    ASSUME TypeOK, NEW k \in Keys, NEW t \in Tiers
    PROVE  /\ Breached(k, t) \in KeyState
           /\ Breached(k, t).status = IF Tracked(k) THEN alerts[k].status ELSE "pending"
           /\ Breached(k, t).tier = IF Tracked(k) THEN alerts[k].tier ELSE t
           /\ Breached(k, t).notifiedTargets =
                IF Tracked(k) THEN alerts[k].notifiedTargets ELSE {}
           /\ Breached(k, t).lastNotified =
                IF Tracked(k) THEN Clamped(alerts[k]).lastNotified ELSE 0
           /\ Breached(k, t).lastSeenRun = runID
           /\ Breached(k, t).degradedNotified = FALSE
           /\ Breached(k, t).consecutiveOK = 0
           /\ Breached(k, t).consecutiveBad =
                IF Tracked(k) THEN alerts[k].consecutiveBad + 1 ELSE 1
<1>1. PICK o \in KeyState :
        /\ o = Opened(k, t)
        /\ o.status = IF Tracked(k) THEN alerts[k].status ELSE "pending"
        /\ o.tier = IF Tracked(k) THEN alerts[k].tier ELSE t
        /\ o.notifiedTargets = IF Tracked(k) THEN alerts[k].notifiedTargets ELSE {}
        /\ o.consecutiveBad = IF Tracked(k) THEN alerts[k].consecutiveBad ELSE 0
        /\ Tracked(k) => o = alerts[k]
        /\ ~Tracked(k) => o.lastNotified = 0
  <2>1. CASE Tracked(k)
    BY <2>1 DEF TypeOK, Opened
  <2>2. CASE ~Tracked(k)
    <3>1. Opened(k, t) = [NoState EXCEPT !.status = "pending", !.tier = t]
      BY <2>2 DEF Opened
    <3>2. QED BY <2>2, <3>1 DEF NoState, KeyState
  <2>3. QED BY <2>1, <2>2
<1>2. PICK c \in KeyState :
        /\ c = Clamped(o)
        /\ c.status = o.status /\ c.tier = o.tier
        /\ c.notifiedTargets = o.notifiedTargets
        /\ c.consecutiveBad = o.consecutiveBad
        /\ c.lastNotified = IF Tracked(k) THEN Clamped(alerts[k]).lastNotified ELSE 0
  <2>1. o.lastNotified = 0 => o.lastNotified <= now
    BY ConfigAssumption DEF TypeOK
  <2>2. QED BY <1>1, <2>1, ClampedFacts
<1>3. Breached(k, t) = [c EXCEPT !.lastSeenRun = runID,
                                 !.degradedNotified = FALSE,
                                 !.consecutiveOK = 0,
                                 !.consecutiveBad = c.consecutiveBad + 1]
  BY <1>1, <1>2 DEF Breached
<1>4. runID \in Nat /\ c.consecutiveBad + 1 \in Nat
  BY <1>2 DEF TypeOK, KeyState
<1>5. Breached(k, t) \in KeyState
  <2> DEFINE e == [c EXCEPT !.lastSeenRun = runID,
                            !.degradedNotified = FALSE,
                            !.consecutiveOK = 0,
                            !.consecutiveBad = c.consecutiveBad + 1]
  <2>1. e \in KeyState
    BY <1>4 DEF KeyState
  <2>2. QED BY <1>3, <2>1, Zenon
<1>6. /\ Breached(k, t).status = c.status /\ Breached(k, t).tier = c.tier
      /\ Breached(k, t).lastNotified = c.lastNotified
      /\ Breached(k, t).notifiedTargets = c.notifiedTargets
  BY <1>3 DEF KeyState
<1>7. /\ Breached(k, t).lastSeenRun = runID
      /\ Breached(k, t).degradedNotified = FALSE
      /\ Breached(k, t).consecutiveOK = 0
      /\ Breached(k, t).consecutiveBad = c.consecutiveBad + 1
  BY <1>3 DEF KeyState
<1>8. QED BY <1>1, <1>2, <1>5, <1>6, <1>7

\* What an OK observation leaves behind on a firing key that stays.
LEMMA RecoveringFacts ==
    ASSUME TypeOK, NEW k \in Keys
    PROVE  /\ Recovering(k) \in KeyState
           /\ Recovering(k).status = alerts[k].status
           /\ Recovering(k).tier = alerts[k].tier
           /\ Recovering(k).notifiedTargets = alerts[k].notifiedTargets
           /\ Recovering(k).lastNotified = Clamped(alerts[k]).lastNotified
           /\ Recovering(k).lastSeenRun = runID
           /\ Recovering(k).degradedNotified = FALSE
           /\ Recovering(k).consecutiveOK = alerts[k].consecutiveOK + 1
<1>1. PICK c \in KeyState :
        /\ c = Clamped(alerts[k])
        /\ c.status = alerts[k].status /\ c.tier = alerts[k].tier
        /\ c.notifiedTargets = alerts[k].notifiedTargets
        /\ c.consecutiveOK = alerts[k].consecutiveOK
  BY ClampedFacts DEF TypeOK
<1>2. Recovering(k) = [c EXCEPT !.lastSeenRun = runID,
                                !.degradedNotified = FALSE,
                                !.consecutiveBad = 0,
                                !.consecutiveOK = c.consecutiveOK + 1]
  BY <1>1 DEF Recovering
<1>3. runID \in Nat /\ c.consecutiveOK + 1 \in Nat
  BY <1>1 DEF TypeOK, KeyState
<1>4. Recovering(k) \in KeyState
  <2> DEFINE e == [c EXCEPT !.lastSeenRun = runID,
                            !.degradedNotified = FALSE,
                            !.consecutiveBad = 0,
                            !.consecutiveOK = c.consecutiveOK + 1]
  <2>1. e \in KeyState
    BY <1>3 DEF KeyState
  <2>2. QED BY <1>2, <2>1, Zenon
<1>5. /\ Recovering(k).status = c.status /\ Recovering(k).tier = c.tier
      /\ Recovering(k).lastNotified = c.lastNotified
      /\ Recovering(k).notifiedTargets = c.notifiedTargets
  BY <1>2 DEF KeyState
<1>6. /\ Recovering(k).lastSeenRun = runID
      /\ Recovering(k).degradedNotified = FALSE
      /\ Recovering(k).consecutiveOK = c.consecutiveOK + 1
  BY <1>2 DEF KeyState
<1>7. QED BY <1>1, <1>4, <1>5, <1>6

\* What sending adds to a key state: the tier, and the channels of its route.
LEMMA NotifiedType ==
    ASSUME TypeOK, NEW ks \in KeyState, NEW t \in Tiers
    PROVE  /\ Notified(ks, t) \in KeyState
           /\ Notified(ks, t).status = ks.status
           /\ Notified(ks, t).tier = t
           /\ Notified(ks, t).notifiedTargets = ks.notifiedTargets \cup RouteTargets(t)
           /\ RouteTargets(t) \in SUBSET Channels
BY ConfigAssumption DEF TypeOK, KeyState, Notified, RouteTargets, Tiers

\* Looking at an observation changes only the count of those left.
LEMMA LookFacts ==
    ASSUME TypeOK, NEW k \in Keys, Look(k)
    PROVE  /\ left' \in [Keys -> Nat] /\ left[k] \in Nat \ {0}
           /\ left' = [left EXCEPT ![k] = left[k] - 1]
           /\ phase = "observe" /\ CheckOf[k] \notin down
           /\ runID' = runID /\ now' = now /\ phase' = phase /\ down' = down
BY DEF TypeOK, Look

\* A handler writes the entry of its own key and no other.
LEMMA StoreFacts ==
    ASSUME TypeOK, NEW k \in Keys, NEW ks \in KeyState, Store(k, ks)
    PROVE  /\ alerts' \in [Keys -> KeyState]
           /\ alerts'[k] = ks
           /\ \A j \in Keys \ {k} : alerts'[j] = alerts[j]
BY DEF TypeOK, Store

\* A notice to known channels is a decision.
LEMMA NoticeType ==
    ASSUME NEW k \in Keys, NEW kind \in Kinds, NEW t \in Tiers,
           NEW to \in SUBSET Channels
    PROVE  Notice(k, kind, t, to) \in Decision
BY DEF Notice, Decision

\* The notice that a firing key is not measurable is a decision.
LEMMA BlindType ==
    ASSUME TypeOK, NEW k \in Keys
    PROVE  Blind(k) \in Decision
<1>1. alerts[k].tier \in Tiers /\ alerts[k].notifiedTargets \in SUBSET Channels
  BY DEF TypeOK, KeyState
<1>2. QED BY <1>1, NoticeType DEF Blind, Kinds

\* Muted, without channels or sent, the decisions stay a sequence of decisions.
LEMMA AnnounceType ==
    ASSUME TypeOK, NEW d \in Decision, NEW muted, Announce(d, muted)
    PROVE  decisions' \in Seq(Decision)
BY DEF TypeOK, Announce

\* A freeze stores a key state: only the run and the degraded flag change.
LEMMA FrozenFacts ==
    ASSUME TypeOK, NEW k \in Keys, NEW b \in BOOLEAN
    PROVE  /\ [alerts[k] EXCEPT !.lastSeenRun = runID] \in KeyState
           /\ [alerts[k] EXCEPT !.lastSeenRun = runID,
                                !.degradedNotified = b] \in KeyState
BY DEF TypeOK, KeyState

\* What the actions store when they notify.
LEMMA StoredTypes ==
    ASSUME TypeOK, NEW k \in Keys, NEW t \in Tiers
    PROVE  /\ Notified(Breached(k, t), t) \in KeyState
           /\ [Notified(Breached(k, t), t) EXCEPT !.status = "firing"] \in KeyState
           /\ [Breached(k, t) EXCEPT !.tier = t, !.lastNotified = now] \in KeyState
<1>1. now \in Nat /\ Breached(k, t) \in KeyState
  BY ConfigAssumption, BreachedFacts DEF TypeOK
<1>2. Notified(Breached(k, t), t) \in KeyState
  BY <1>1, NotifiedType
<1>3. \A ks \in KeyState :
        /\ [ks EXCEPT !.status = "firing"] \in KeyState
        /\ [ks EXCEPT !.tier = t, !.lastNotified = now] \in KeyState
  BY <1>1 DEF KeyState
<1>4. QED BY <1>1, <1>2, <1>3

-----------------------------------------------------------------------------
(* Type correctness *)

\* Any handler that looks at k, stores a key state and appends at most a
\* decision keeps the types.
LEMMA HandlerType ==
    ASSUME TypeOK, NEW k \in Keys, Look(k),
           NEW ks \in KeyState, Store(k, ks),
           decisions' \in Seq(Decision)
    PROVE  TypeOK'
BY LookFacts, StoreFacts DEF TypeOK

\* One case per action of the loop.
LEMMA ObserveType ==
    ASSUME TypeOK, NEW k \in Keys, NEW h \in Healths, NEW t \in Tiers,
           NEW muted \in BOOLEAN, Observe(k, h, t, muted)
    PROVE  TypeOK'
<1>a. decisions \in Seq(Decision) /\ RouteTargets(t) \in SUBSET Channels
  BY ConfigAssumption DEF TypeOK, RouteTargets
<1>b. /\ [alerts[k] EXCEPT !.lastSeenRun = runID] \in KeyState
      /\ [alerts[k] EXCEPT !.lastSeenRun = runID,
                           !.degradedNotified = TRUE] \in KeyState
  BY FrozenFacts
<1>c. Breached(k, t) \in KeyState /\ Recovering(k) \in KeyState
  BY BreachedFacts, RecoveringFacts
<1>1. CASE Ignore(k, h, muted)
  BY <1>1, LookFacts DEF Ignore, TypeOK
<1>2. CASE Freeze(k)
  BY <1>a, <1>b, <1>2, HandlerType DEF Freeze
<1>3. CASE Degrade(k, muted)
  <2>1. decisions' \in Seq(Decision)
    <3>1. Blind(k) \in Decision
      BY BlindType
    <3>2. decisions' = decisions \/ decisions' = Append(decisions, Blind(k))
      BY <1>3 DEF Degrade
    <3>3. QED BY <1>a, <3>1, <3>2
  <2>2. QED BY <1>b, <1>3, <2>1, HandlerType DEF Degrade
<1>4. CASE Damp(k, t, muted)
  BY <1>a, <1>c, <1>4, HandlerType DEF Damp, Bad
<1>5. CASE Fire(k, t, muted)
  <2>1. Notice(k, "fire", t, RouteTargets(t)) \in Decision
    BY <1>a, NoticeType DEF Kinds
  <2>2. decisions' \in Seq(Decision)
    BY <1>5, <2>1, AnnounceType DEF Fire
  <2>3. QED BY <1>5, <2>2, HandlerType, StoredTypes DEF Fire, Bad
<1>6. CASE Escalate(k, t, muted)
  <2>1. Notice(k, "escalate", t, RouteTargets(t)) \in Decision
    BY <1>a, NoticeType DEF Kinds
  <2>2. decisions' \in Seq(Decision)
    BY <1>6, <2>1, AnnounceType DEF Escalate
  <2>3. QED BY <1>6, <2>2, HandlerType, StoredTypes DEF Escalate, Bad
<1>7. CASE DeEscalate(k, t, muted)
  BY <1>a, <1>7, HandlerType, StoredTypes DEF DeEscalate, Bad
<1>8. CASE Remind(k, t, muted)
  <2>1. Notice(k, "reminder", t, RouteTargets(t)) \in Decision
    BY <1>a, NoticeType DEF Kinds
  <2>2. decisions' \in Seq(Decision)
    BY <1>8, <2>1, AnnounceType DEF Remind
  <2>3. QED BY <1>8, <2>2, HandlerType, StoredTypes DEF Remind, Bad
<1>9. CASE StaySilent(k, t, muted)
  BY <1>a, <1>c, <1>9, HandlerType DEF StaySilent, Bad
<1>10. CASE Forget(k)
  BY <1>a, <1>10, HandlerType, NoStateType DEF Forget
<1>11. CASE AwaitRecovery(k)
  BY <1>a, <1>c, <1>11, HandlerType DEF AwaitRecovery
<1>12. CASE Resolve(k, muted)
  <2>1. Notice(k, "resolved", alerts[k].tier, alerts[k].notifiedTargets) \in Decision
    BY NoticeType DEF TypeOK, KeyState, Kinds
  <2>2. decisions' \in Seq(Decision)
    BY <1>12, <2>1, AnnounceType DEF Resolve
  <2>3. QED BY <1>12, <2>2, HandlerType, NoStateType DEF Resolve
<1>13. QED BY <1>1, <1>2, <1>3, <1>4, <1>5, <1>6, <1>7, <1>8, <1>9,
              <1>10, <1>11, <1>12 DEF Observe

\* A fresh state file is well formed.
LEMMA InitType == Init => TypeOK
BY ConfigAssumption, NoStateType DEF Init, TypeOK

\* Every step of a run keeps the table well formed.
LEMMA NextType == TypeOK /\ [Next]_vars => TypeOK'
<1> SUFFICES ASSUME TypeOK, [Next]_vars PROVE TypeOK'
  OBVIOUS
<1>1. CASE BeginRun
  BY <1>1, ConfigAssumption DEF BeginRun, StartRun, TypeOK
<1>2. ASSUME NEW k \in Keys, NEW h \in Healths, NEW t \in Tiers,
             NEW muted \in Mutes(k), Observe(k, h, t, muted)
      PROVE  TypeOK'
  BY <1>2, ObserveType DEF Mutes
<1>3. CASE EndObserve
  BY <1>3 DEF EndObserve, TypeOK
<1>4. ASSUME NEW k \in Keys, SweepDegraded(k)
      PROVE  TypeOK'
  <2>1. alerts' \in [Keys -> KeyState]
    <3>1. [alerts[k] EXCEPT !.lastSeenRun = runID,
                            !.degradedNotified = TRUE] \in KeyState
      BY FrozenFacts
    <3>2. QED BY <1>4, <3>1, StoreFacts DEF SweepDegraded
  <2>2. decisions' \in Seq(Decision)
    BY <1>4, BlindType DEF SweepDegraded, TypeOK
  <2>3. QED BY <1>4, <2>1, <2>2 DEF SweepDegraded, TypeOK
<1>5. CASE PrunePending
  BY <1>5, NoStateType DEF PrunePending, TypeOK
<1>6. CASE UNCHANGED vars
  BY <1>6 DEF vars, TypeOK
<1>7. QED BY <1>1, <1>2, <1>3, <1>4, <1>5, <1>6 DEF Next

\* The table, the phases and the decisions are well formed in every state.
THEOREM TypeCorrect == Spec => []TypeOK
<1>1. Init => TypeOK
  BY InitType
<1>2. TypeOK /\ [Next]_vars => TypeOK'
  BY NextType
<1>3. QED BY <1>1, <1>2, PTL DEF Spec

-----------------------------------------------------------------------------
(* The machine keeps the contract *)

\* The state of the contract, read off the table.
Episode == [k \in Keys |-> IF Firing(k) THEN alerts[k].tier ELSE -1]
Told    == [k \in Keys |-> IF Firing(k) THEN alerts[k].notifiedTargets ELSE {}]

\* Storing a key state changes the contract's view of that key alone.
LEMMA StoreMaps ==
    ASSUME TypeOK, NEW k \in Keys, NEW ks \in KeyState, Store(k, ks)
    PROVE  /\ Episode' = [Episode EXCEPT ![k] =
                            IF ks.status = "firing" THEN ks.tier ELSE -1]
           /\ Told' = [Told EXCEPT ![k] =
                         IF ks.status = "firing" THEN ks.notifiedTargets ELSE {}]
<1>1. \A j \in Keys : alerts'[j] = IF j = k THEN ks ELSE alerts[j]
  BY StoreFacts
<1>2. QED BY <1>1 DEF Episode, Told, Firing

\* A step that leaves episode, channels and tier alone is a stutter of the table.
LEMMA SameEpisode ==
    ASSUME TypeOK, NEW k \in Keys, NEW ks \in KeyState, Store(k, ks),
           (ks.status = "firing") <=> Firing(k),
           Firing(k) => ks.tier = alerts[k].tier
                        /\ ks.notifiedTargets = alerts[k].notifiedTargets
    PROVE  Episode' = Episode /\ Told' = Told
<1>1. \A j \in Keys : alerts'[j] = IF j = k THEN ks ELSE alerts[j]
  BY StoreFacts
<1>2. QED BY <1>1 DEF Episode, Told, Firing

\* An announcement that is dropped went to nobody or was muted.
LEMMA AnnounceKeeps ==
    ASSUME NEW k \in Keys, NEW kind, NEW t, NEW to, NEW muted \in Mutes(k),
           Announce(Notice(k, kind, t, to), muted)
    PROVE  \/ decisions' = Append(decisions, [key |-> k, kind |-> kind,
                                              tier |-> t, targets |-> to])
           \/ (k \in Mutable \/ to = {}) /\ decisions' = decisions
BY DEF Announce, Notice, Mutes

\* Strengthening of the type invariant: nobody was notified of a key that does
\* not fire, so an episode's channels start from nothing.
Untold == \A k \in Keys : ~Firing(k) => alerts[k].notifiedTargets = {}

\* What each handler does to the episode of its key.
LEMMA StoredEpisodes ==
    ASSUME TypeOK, Untold, NEW k \in Keys, NEW t \in Tiers
    PROVE  /\ Breached(k, t).status = "firing" <=> Firing(k)
           /\ Firing(k) => /\ Breached(k, t).tier = alerts[k].tier
                           /\ Breached(k, t).notifiedTargets = alerts[k].notifiedTargets
           /\ ~Firing(k) => Breached(k, t).notifiedTargets = {}
           /\ Notified(Breached(k, t), t).status = Breached(k, t).status
           /\ Notified(Breached(k, t), t).tier = t
           /\ Notified(Breached(k, t), t).notifiedTargets =
                IF Firing(k) THEN alerts[k].notifiedTargets \cup RouteTargets(t)
                             ELSE RouteTargets(t)
<1>1. /\ Breached(k, t) \in KeyState
      /\ Breached(k, t).status = IF Tracked(k) THEN alerts[k].status ELSE "pending"
      /\ Breached(k, t).tier = IF Tracked(k) THEN alerts[k].tier ELSE t
      /\ Breached(k, t).notifiedTargets =
           IF Tracked(k) THEN alerts[k].notifiedTargets ELSE {}
  BY BreachedFacts
<1>2. Firing(k) => Tracked(k)
  BY DEF Firing, Tracked
<1>3. /\ Breached(k, t).status = "firing" <=> Firing(k)
      /\ Firing(k) => /\ Breached(k, t).tier = alerts[k].tier
                      /\ Breached(k, t).notifiedTargets = alerts[k].notifiedTargets
      /\ ~Firing(k) => Breached(k, t).notifiedTargets = {}
  BY <1>1, <1>2 DEF Untold, Firing, Tracked
<1>4. /\ Notified(Breached(k, t), t).status = Breached(k, t).status
      /\ Notified(Breached(k, t), t).tier = t
      /\ Notified(Breached(k, t), t).notifiedTargets =
           Breached(k, t).notifiedTargets \cup RouteTargets(t)
  BY <1>1, NotifiedType
<1>5. {} \cup RouteTargets(t) = RouteTargets(t)
  OBVIOUS
<1>6. CASE Firing(k)
  BY <1>3, <1>4, <1>6
<1>7. CASE ~Firing(k)
  BY <1>3, <1>4, <1>5, <1>7
<1>8. QED BY <1>6, <1>7

\* Storing such a state as the new state of a firing key.
LEMMA NotifiedMaps ==
    ASSUME TypeOK, Untold, NEW k \in Keys, NEW t \in Tiers, Firing(k),
           Store(k, Notified(Breached(k, t), t))
    PROVE  /\ Episode' = [Episode EXCEPT ![k] = t]
           /\ Told' = [Told EXCEPT ![k] = @ \cup RouteTargets(t)]
<1>1. PICK ks \in KeyState : ks = Notified(Breached(k, t), t)
  BY StoredTypes
<1>2. /\ ks.status = "firing" /\ ks.tier = t
      /\ ks.notifiedTargets = alerts[k].notifiedTargets \cup RouteTargets(t)
  <2>1. Breached(k, t).status = "firing"
    BY StoredEpisodes
  <2>2. QED BY <1>1, <2>1, StoredEpisodes
<1>3. Told[k] = alerts[k].notifiedTargets
  BY DEF Told
<1>4. QED BY <1>1, <1>2, <1>3, StoreMaps

\* Each handler of an observation is a step of the contract, or says nothing and
\* leaves the episodes as they are.
LEMMA ObserveRefines ==
    ASSUME TypeOK, Untold, NEW k \in Keys, NEW h \in Healths, NEW t \in Tiers,
           NEW muted \in Mutes(k), Observe(k, h, t, muted)
    PROVE  Contract!Next \/ UNCHANGED <<Episode, Told, decisions>>
<1>a. RouteTargets(t) \in SUBSET Channels
  BY ConfigAssumption DEF RouteTargets
<1>b. Firing(k) => Episode[k] = alerts[k].tier /\ Told[k] = alerts[k].notifiedTargets
                   /\ Episode[k] \in Tiers /\ Episode[k] # -1
  BY DEF Episode, Told, TypeOK, KeyState, Tiers
<1>c. ~Firing(k) => Episode[k] = -1 /\ Told[k] = {}
  BY DEF Episode, Told
<1> DEFINE Stutter == UNCHANGED <<Episode, Told, decisions>>
<1>1. CASE Ignore(k, h, muted)
  BY <1>1 DEF Ignore, Episode, Told, Firing
<1>2. CASE Freeze(k)
  <2> DEFINE ks == [alerts[k] EXCEPT !.lastSeenRun = runID]
  <2>1. ks \in KeyState
    BY FrozenFacts
  <2>2. /\ ks.status = alerts[k].status /\ ks.tier = alerts[k].tier
        /\ ks.notifiedTargets = alerts[k].notifiedTargets
    BY DEF TypeOK, KeyState
  <2>3. Store(k, ks) /\ decisions' = decisions
    BY <1>2 DEF Freeze
  <2> HIDE DEF ks
  <2>4. QED BY <2>1, <2>2, <2>3, SameEpisode DEF Firing
<1>3. CASE Degrade(k, muted)
  <2> DEFINE ks == [alerts[k] EXCEPT !.lastSeenRun = runID,
                                     !.degradedNotified = TRUE]
  <2>1. ks \in KeyState
    BY FrozenFacts
  <2>2. /\ ks.status = alerts[k].status /\ ks.tier = alerts[k].tier
        /\ ks.notifiedTargets = alerts[k].notifiedTargets
    BY DEF TypeOK, KeyState
  <2>3. Store(k, ks) /\ Firing(k)
    BY <1>3 DEF Degrade
  <2> HIDE DEF ks
  <2>4. Episode' = Episode /\ Told' = Told
    BY <2>1, <2>2, <2>3, SameEpisode DEF Firing
  <2>5. \/ decisions' = decisions
        \/ decisions' = Append(decisions, [key |-> k, kind |-> "degraded",
                                           tier |-> Episode[k], targets |-> Told[k]])
    BY <1>3, <1>b, <2>3 DEF Degrade, Blind, Notice
  <2>6. decisions' # decisions => Contract!GoBlind(k)
    BY <1>b, <2>3, <2>4, <2>5
       DEF Contract!GoBlind, Contract!Say, Contract!Quiet, Episode, Told
  <2>7. QED BY <2>4, <2>6 DEF Contract!Next
<1>4. CASE Damp(k, t, muted)
  <2>1. Store(k, Breached(k, t)) /\ decisions' = decisions /\ ~Firing(k)
    BY <1>4 DEF Damp
  <2>2. QED BY <2>1, StoredEpisodes, BreachedFacts, SameEpisode
<1>5. CASE Fire(k, t, muted)
  <2> DEFINE ks == [Notified(Breached(k, t), t) EXCEPT !.status = "firing"]
  <2>1. ks \in KeyState /\ Store(k, ks) /\ ~Firing(k)
    BY <1>5, StoredTypes DEF Fire
  <2>2. /\ ks.status = "firing" /\ ks.tier = t
        /\ ks.notifiedTargets = RouteTargets(t)
    <3>1. PICK n \in KeyState : n = Notified(Breached(k, t), t)
      BY StoredTypes
    <3>2. n.tier = t /\ n.notifiedTargets = RouteTargets(t)
      BY <2>1, <3>1, StoredEpisodes
    <3>3. QED BY <3>1, <3>2 DEF KeyState
  <2> HIDE DEF ks
  <2>3. /\ Episode' = [Episode EXCEPT ![k] = t]
        /\ Told' = [Told EXCEPT ![k] = RouteTargets(t)]
    BY <2>1, <2>2, StoreMaps
  <2>4. \/ decisions' = Append(decisions, [key |-> k, kind |-> "fire",
                                           tier |-> t, targets |-> RouteTargets(t)])
        \/ (k \in Mutable \/ RouteTargets(t) = {}) /\ decisions' = decisions
    BY <1>5, AnnounceKeeps DEF Fire
  <2>5. Contract!Open(k, t, RouteTargets(t))
    BY <1>c, <2>1, <2>3, <2>4
       DEF Contract!Open, Contract!Keep, Contract!Say, Contract!Quiet, Episode, Told
  <2>6. QED BY <1>a, <2>5 DEF Contract!Next, Contract!Tiers, Tiers
<1>6. CASE Escalate(k, t, muted)
  <2>1. Firing(k) /\ t > alerts[k].tier
    BY <1>6 DEF Escalate
  <2>2. /\ Episode' = [Episode EXCEPT ![k] = t]
        /\ Told' = [Told EXCEPT ![k] = @ \cup RouteTargets(t)]
    BY <1>6, NotifiedMaps DEF Escalate
  <2>3. \/ decisions' = Append(decisions, [key |-> k, kind |-> "escalate",
                                           tier |-> t, targets |-> RouteTargets(t)])
        \/ (k \in Mutable \/ RouteTargets(t) = {}) /\ decisions' = decisions
    BY <1>6, AnnounceKeeps DEF Escalate
  <2>4. Contract!Worsen(k, t, RouteTargets(t))
    BY <1>b, <2>1, <2>2, <2>3
       DEF Contract!Worsen, Contract!Keep, Contract!Say, Contract!Quiet, Episode, Told
  <2>5. QED BY <1>a, <2>4 DEF Contract!Next, Contract!Tiers, Tiers
<1>7. CASE DeEscalate(k, t, muted)
  <2> DEFINE ks == [Breached(k, t) EXCEPT !.tier = t, !.lastNotified = now]
  <2>1. ks \in KeyState /\ Store(k, ks) /\ Firing(k) /\ decisions' = decisions
        /\ t < alerts[k].tier
    BY <1>7, StoredTypes DEF DeEscalate
  <2>2. /\ ks.status = "firing" /\ ks.tier = t
        /\ ks.notifiedTargets = alerts[k].notifiedTargets
    <3>1. PICK b \in KeyState : b = Breached(k, t)
      BY BreachedFacts
    <3>2. b.status = "firing" /\ b.notifiedTargets = alerts[k].notifiedTargets
      BY <2>1, <3>1, StoredEpisodes
    <3>3. QED BY <3>1, <3>2 DEF KeyState
  <2> HIDE DEF ks
  <2>3. /\ Episode' = [Episode EXCEPT ![k] = t]
        /\ Told' = [Told EXCEPT ![k] = Told[k]]
    BY <1>b, <2>1, <2>2, StoreMaps
  <2>4. Told' = Told
    BY <2>3 DEF Told
  <2>5. Contract!Ease(k, t)
    BY <1>b, <2>1, <2>3, <2>4 DEF Contract!Ease, Contract!Quiet, Episode, Told
  <2>6. QED BY <2>5 DEF Contract!Next, Contract!Tiers, Tiers
<1>8. CASE Remind(k, t, muted)
  <2>1. Firing(k) /\ t = alerts[k].tier
    BY <1>8 DEF Remind
  <2>2. /\ Episode' = [Episode EXCEPT ![k] = t]
        /\ Told' = [Told EXCEPT ![k] = @ \cup RouteTargets(t)]
    BY <1>8, NotifiedMaps DEF Remind
  <2>3. Episode' = Episode
    BY <1>b, <2>1, <2>2 DEF Episode
  <2>4. \/ decisions' = Append(decisions, [key |-> k, kind |-> "reminder",
                                           tier |-> Episode[k],
                                           targets |-> RouteTargets(t)])
        \/ (k \in Mutable \/ RouteTargets(t) = {}) /\ decisions' = decisions
    BY <1>8, <1>b, <2>1, AnnounceKeeps DEF Remind
  <2>5. Contract!Repeat(k, RouteTargets(t))
    BY <1>b, <2>1, <2>2, <2>3, <2>4
       DEF Contract!Repeat, Contract!Keep, Contract!Say, Contract!Quiet, Episode, Told
  <2>6. QED BY <1>a, <2>5 DEF Contract!Next
<1>9. CASE StaySilent(k, t, muted)
  <2>1. Store(k, Breached(k, t)) /\ decisions' = decisions /\ Firing(k)
    BY <1>9 DEF StaySilent
  <2>2. QED BY <2>1, StoredEpisodes, BreachedFacts, SameEpisode
<1>10. CASE Forget(k)
  <2>1. Store(k, NoState) /\ decisions' = decisions /\ ~Firing(k)
    BY <1>10 DEF Forget, Pending, Firing
  <2>2. QED BY <2>1, NoStateType, SameEpisode
<1>11. CASE AwaitRecovery(k)
  <2>1. Store(k, Recovering(k)) /\ decisions' = decisions /\ Firing(k)
    BY <1>11 DEF AwaitRecovery
  <2>2. QED BY <2>1, RecoveringFacts, SameEpisode DEF Firing
<1>12. CASE Resolve(k, muted)
  <2>1. Store(k, NoState) /\ Firing(k)
    BY <1>12 DEF Resolve
  <2>2. /\ Episode' = [Episode EXCEPT ![k] = -1]
        /\ Told' = [Told EXCEPT ![k] = {}]
    BY <2>1, NoStateType, StoreMaps
  <2>3. \/ decisions' = Append(decisions, [key |-> k, kind |-> "resolved",
                                           tier |-> Episode[k], targets |-> Told[k]])
        \/ (k \in Mutable \/ Told[k] = {}) /\ decisions' = decisions
    BY <1>12, <1>b, <2>1, AnnounceKeeps DEF Resolve
  <2>4. Contract!Close(k)
    BY <1>b, <2>1, <2>2, <2>3
       DEF Contract!Close, Contract!Keep, Contract!Say, Contract!Quiet, Episode, Told
  <2>5. QED BY <2>4 DEF Contract!Next
<1>13. QED BY <1>1, <1>2, <1>3, <1>4, <1>5, <1>6, <1>7, <1>8, <1>9,
              <1>10, <1>11, <1>12 DEF Observe

\* A handler that stores a state of which Untold holds keeps Untold.
LEMMA StoreUntold ==
    ASSUME TypeOK, Untold, NEW k \in Keys, NEW ks \in KeyState, Store(k, ks),
           ks.status = "firing" \/ ks.notifiedTargets = {}
    PROVE  Untold'
BY StoreFacts DEF Untold, Firing

\* No handler leaves channels behind with a key that is not firing.
LEMMA ObserveUntold ==
    ASSUME TypeOK, Untold, NEW k \in Keys, NEW h \in Healths, NEW t \in Tiers,
           NEW muted \in Mutes(k), Observe(k, h, t, muted)
    PROVE  Untold'
<1>a. NoState \in KeyState /\ NoState.notifiedTargets = {}
  BY NoStateType DEF NoState
<1>1. CASE Ignore(k, h, muted)
  BY <1>1 DEF Ignore, Untold, Firing
<1>2. CASE Freeze(k) \/ Degrade(k, muted)
  <2>1. PICK ks \in KeyState :
          /\ Store(k, ks)
          /\ ks.status = alerts[k].status
          /\ ks.notifiedTargets = alerts[k].notifiedTargets
    <3>1. CASE Freeze(k)
      <4> DEFINE ks == [alerts[k] EXCEPT !.lastSeenRun = runID]
      <4>1. ks \in KeyState /\ Store(k, ks)
        BY <3>1, FrozenFacts DEF Freeze
      <4>2. ks.status = alerts[k].status /\ ks.notifiedTargets = alerts[k].notifiedTargets
        BY DEF TypeOK, KeyState
      <4>3. QED BY <4>1, <4>2
    <3>2. CASE Degrade(k, muted)
      <4> DEFINE ks == [alerts[k] EXCEPT !.lastSeenRun = runID,
                                         !.degradedNotified = TRUE]
      <4>1. ks \in KeyState /\ Store(k, ks)
        BY <3>2, FrozenFacts DEF Degrade
      <4>2. ks.status = alerts[k].status /\ ks.notifiedTargets = alerts[k].notifiedTargets
        BY DEF TypeOK, KeyState
      <4>3. QED BY <4>1, <4>2
    <3>3. QED BY <1>2, <3>1, <3>2
  <2>2. QED BY <2>1, StoreUntold DEF Untold, Firing
<1>3. CASE Damp(k, t, muted) \/ StaySilent(k, t, muted)
  <2>1. Store(k, Breached(k, t))
    BY <1>3 DEF Damp, StaySilent
  <2>2. QED BY <2>1, BreachedFacts, StoredEpisodes, StoreUntold
<1>4. CASE Fire(k, t, muted)
  <2> DEFINE ks == [Notified(Breached(k, t), t) EXCEPT !.status = "firing"]
  <2>1. ks \in KeyState /\ Store(k, ks)
    BY <1>4, StoredTypes DEF Fire
  <2>2. ks.status = "firing"
    BY StoredTypes DEF KeyState
  <2> HIDE DEF ks
  <2>3. QED BY <2>1, <2>2, StoreUntold
<1>5. CASE Escalate(k, t, muted) \/ Remind(k, t, muted)
  <2>1. Store(k, Notified(Breached(k, t), t)) /\ Firing(k)
    BY <1>5 DEF Escalate, Remind
  <2>2. Breached(k, t).status = "firing"
    BY <2>1, StoredEpisodes
  <2>3. Notified(Breached(k, t), t).status = "firing"
    BY <2>2, StoredEpisodes
  <2>4. QED BY <2>1, <2>3, StoredTypes, StoreUntold
<1>6. CASE DeEscalate(k, t, muted)
  <2> DEFINE ks == [Breached(k, t) EXCEPT !.tier = t, !.lastNotified = now]
  <2>1. ks \in KeyState /\ Store(k, ks) /\ Firing(k)
    BY <1>6, StoredTypes DEF DeEscalate
  <2>2. ks.status = "firing"
    <3>1. PICK b \in KeyState : b = Breached(k, t)
      BY BreachedFacts
    <3>2. b.status = "firing"
      BY <2>1, <3>1, StoredEpisodes
    <3>3. QED BY <3>1, <3>2 DEF KeyState
  <2> HIDE DEF ks
  <2>3. QED BY <2>1, <2>2, StoreUntold
<1>7. CASE Forget(k) \/ Resolve(k, muted)
  <2>1. Store(k, NoState)
    BY <1>7 DEF Forget, Resolve
  <2>2. QED BY <1>a, <2>1, StoreUntold
<1>8. CASE AwaitRecovery(k)
  <2>1. Store(k, Recovering(k)) /\ Firing(k)
    BY <1>8 DEF AwaitRecovery
  <2>2. QED BY <2>1, RecoveringFacts, StoreUntold DEF Firing
<1>9. QED BY <1>1, <1>2, <1>3, <1>4, <1>5, <1>6, <1>7, <1>8 DEF Observe

\* At the start no channel has been told of anything.
LEMMA InitUntold == Init => Untold
BY DEF Init, Untold, NoState

\* No step leaves channels behind with a key that is not firing: closing an
\* episode forgets them, and a new one starts without.
LEMMA NextUntold == TypeOK /\ Untold /\ [Next]_vars => Untold'
<1> SUFFICES ASSUME TypeOK, Untold, [Next]_vars PROVE Untold'
  OBVIOUS
<1>1. CASE BeginRun \/ EndObserve \/ UNCHANGED vars
  BY <1>1 DEF BeginRun, StartRun, EndObserve, vars, Untold, Firing
<1>2. ASSUME NEW k \in Keys, NEW h \in Healths, NEW t \in Tiers,
             NEW muted \in Mutes(k), Observe(k, h, t, muted)
      PROVE  Untold'
  BY <1>2, ObserveUntold
<1>3. ASSUME NEW k \in Keys, SweepDegraded(k)
      PROVE  Untold'
  <2> DEFINE ks == [alerts[k] EXCEPT !.lastSeenRun = runID,
                                     !.degradedNotified = TRUE]
  <2>1. ks \in KeyState /\ Store(k, ks) /\ Firing(k)
    BY <1>3, FrozenFacts DEF SweepDegraded, InTheDark
  <2>2. ks.status = "firing"
    BY <2>1 DEF TypeOK, KeyState, Firing
  <2> HIDE DEF ks
  <2>3. QED BY <2>1, <2>2, StoreUntold
<1>4. CASE PrunePending
  BY <1>4 DEF PrunePending, Untold, Firing, NoState
<1>5. QED BY <1>1, <1>2, <1>3, <1>4 DEF Next

\* A fresh state file is a contract without episodes.
LEMMA InitRefines == Init => Contract!Init
BY DEF Init, NoState, Firing, Contract!Init, Contract!Quiet

\* Every step of a run is a step of the contract or a stutter.
LEMMA NextRefines ==
    TypeOK /\ Untold /\ [Next]_vars => [Contract!Next]_(Contract!vars)
<1> SUFFICES ASSUME TypeOK, Untold, [Next]_vars
             PROVE  Contract!Next \/ UNCHANGED <<Episode, Told, decisions>>
  BY DEF Contract!vars, Episode, Told
<1>1. CASE BeginRun
  <2>1. Episode' = Episode /\ Told' = Told /\ decisions' = <<>>
    BY <1>1 DEF BeginRun, StartRun, Episode, Told, Firing
  <2>2. Contract!NewRun
    BY <2>1 DEF Contract!NewRun, Episode, Told
  <2>3. QED BY <2>2 DEF Contract!Next
<1>2. ASSUME NEW k \in Keys, NEW h \in Healths, NEW t \in Tiers,
             NEW muted \in Mutes(k), Observe(k, h, t, muted)
      PROVE  Contract!Next \/ UNCHANGED <<Episode, Told, decisions>>
  BY <1>2, ObserveRefines
<1>3. CASE EndObserve \/ UNCHANGED vars
  BY <1>3 DEF EndObserve, vars, Episode, Told, Firing
<1>4. ASSUME NEW k \in Keys, SweepDegraded(k)
      PROVE  Contract!Next \/ UNCHANGED <<Episode, Told, decisions>>
  <2> DEFINE ks == [alerts[k] EXCEPT !.lastSeenRun = runID,
                                     !.degradedNotified = TRUE]
  <2>1. ks \in KeyState /\ Store(k, ks) /\ Firing(k)
    BY <1>4, FrozenFacts DEF SweepDegraded, InTheDark
  <2>2. /\ ks.status = alerts[k].status /\ ks.tier = alerts[k].tier
        /\ ks.notifiedTargets = alerts[k].notifiedTargets
    BY DEF TypeOK, KeyState
  <2> HIDE DEF ks
  <2>3. Episode' = Episode /\ Told' = Told
    BY <2>1, <2>2, SameEpisode DEF Firing
  <2>4. Episode[k] = alerts[k].tier /\ Told[k] = alerts[k].notifiedTargets
        /\ Episode[k] # -1
    <3>1. alerts[k].tier \in Tiers
      BY DEF TypeOK, KeyState
    <3>2. alerts[k].tier # -1
      BY <3>1 DEF Tiers
    <3>3. QED BY <2>1, <3>2 DEF Episode, Told
  <2>5. \/ decisions' = decisions
        \/ decisions' = Append(decisions, [key |-> k, kind |-> "degraded",
                                           tier |-> Episode[k], targets |-> Told[k]])
    BY <1>4, <2>4 DEF SweepDegraded, Blind, Notice
  <2>6. decisions' # decisions => Contract!GoBlind(k)
    BY <2>3, <2>4, <2>5
       DEF Contract!GoBlind, Contract!Say, Contract!Quiet, Episode, Told
  <2>7. QED BY <2>3, <2>6 DEF Contract!Next
<1>5. CASE PrunePending
  <2>1. \A j \in Keys : alerts'[j] = IF Stale(j) THEN NoState ELSE alerts[j]
    BY <1>5 DEF PrunePending
  <2>2. \A j \in Keys : Stale(j) => ~Firing(j)
    BY DEF Stale, Pending, Firing
  <2>3. QED BY <1>5, <2>1, <2>2 DEF PrunePending, Episode, Told, Firing, NoState
<1>6. QED BY <1>1, <1>2, <1>3, <1>4, <1>5 DEF Next

\* The machine keeps its contract: whatever the runs observe and whatever the
\* clock does, what is announced of a key follows its episodes.
THEOREM ContractKept == Spec => KeepsContract
<1> DEFINE IInv == TypeOK /\ Untold
<1>1. Init => IInv
  BY InitType, InitUntold
<1>2. IInv /\ [Next]_vars => IInv'
  BY NextType, NextUntold
<1>3. Init => Contract!Init
  BY InitRefines
<1>4. IInv /\ [Next]_vars => [Contract!Next]_(Contract!vars)
  BY NextRefines
<1>5. QED BY <1>1, <1>2, <1>3, <1>4, PTL DEF Spec, KeepsContract, Contract!Spec

-----------------------------------------------------------------------------
(* What a step does to the entry of its key, field by field *)

Same(k) ==
    /\ alerts'[k].status = alerts[k].status
    /\ alerts'[k].tier = alerts[k].tier
    /\ alerts'[k].consecutiveBad = alerts[k].consecutiveBad
    /\ alerts'[k].consecutiveOK = alerts[k].consecutiveOK
    /\ alerts'[k].lastNotified = alerts[k].lastNotified
    /\ alerts'[k].notifiedTargets = alerts[k].notifiedTargets
    /\ alerts'[k].lastSeenRun = runID

\* The time of the last notification, clamped.
ClampedTime(k) ==
    IF now < alerts[k].lastNotified THEN now ELSE alerts[k].lastNotified

Ignored(k) == alerts'[k] = alerts[k] /\ ~Tracked(k) /\ decisions' = decisions

Frozen(k) ==
    /\ Tracked(k) /\ Same(k)
    /\ alerts'[k].degradedNotified = alerts[k].degradedNotified
    /\ Firing(k) => alerts[k].degradedNotified
    /\ decisions' = decisions

Degraded(k, muted) ==
    /\ Firing(k) /\ Same(k)
    /\ ~alerts[k].degradedNotified /\ alerts'[k].degradedNotified
    /\ decisions' = IF muted THEN decisions ELSE Append(decisions, Blind(k))

\* What every BAD observation does.
Counted(k) ==
    /\ alerts'[k].consecutiveBad =
          IF Tracked(k) THEN alerts[k].consecutiveBad + 1 ELSE 1
    /\ alerts'[k].consecutiveOK = 0
    /\ alerts'[k].lastSeenRun = runID
    /\ ~alerts'[k].degradedNotified

Damped(k) ==
    ~Firing(k) /\ alerts'[k].status = "pending" /\ decisions' = decisions

Fired(k, t, muted) ==
    /\ ~Firing(k) /\ alerts'[k].status = "firing"
    /\ alerts'[k].consecutiveBad >= FlapSamplesFor(k, t)
    /\ alerts'[k].tier = t /\ alerts'[k].lastNotified = now
    /\ alerts'[k].notifiedTargets = RouteTargets(t)
    /\ Announce(Notice(k, "fire", t, RouteTargets(t)), muted)

Renotified(k, t, muted) ==
    /\ Firing(k) /\ alerts'[k].status = "firing"
    /\ alerts'[k].tier = t /\ alerts'[k].lastNotified = now
    /\ alerts'[k].notifiedTargets = alerts[k].notifiedTargets \cup RouteTargets(t)
    /\ \/ Announce(Notice(k, "escalate", t, RouteTargets(t)), muted)
       \/ /\ Announce(Notice(k, "reminder", t, RouteTargets(t)), muted)
          /\ now - ClampedTime(k) >= CooldownFor(k, t)

Eased(k, t) ==
    /\ Firing(k) /\ alerts'[k].status = "firing"
    /\ alerts'[k].tier = t /\ alerts'[k].lastNotified = now
    /\ alerts'[k].notifiedTargets = alerts[k].notifiedTargets
    /\ decisions' = decisions

Silent(k, t) ==
    /\ Firing(k) /\ alerts'[k].status = "firing"
    /\ alerts'[k].tier = t
    /\ alerts'[k].lastNotified = ClampedTime(k)
    /\ ~(now - ClampedTime(k) >= CooldownFor(k, t))
    /\ alerts'[k].notifiedTargets = alerts[k].notifiedTargets
    /\ decisions' = decisions

Forgotten(k) == Pending(k) /\ alerts'[k] = NoState /\ decisions' = decisions

Awaited(k) ==
    /\ Firing(k) /\ alerts'[k].status = "firing"
    /\ alerts'[k].tier = alerts[k].tier
    /\ alerts'[k].notifiedTargets = alerts[k].notifiedTargets
    /\ alerts'[k].lastNotified = ClampedTime(k)
    /\ alerts'[k].lastSeenRun = runID
    /\ ~alerts'[k].degradedNotified
    /\ alerts'[k].consecutiveOK = alerts[k].consecutiveOK + 1
    /\ decisions' = decisions

Resolved(k, muted) ==
    /\ Firing(k) /\ alerts'[k] = NoState
    /\ alerts[k].consecutiveOK + 1 >= ResolveSamples
    /\ Announce(Notice(k, "resolved", alerts[k].tier, alerts[k].notifiedTargets),
                muted)

Outcome(k, h, t, muted) ==
    \/ Ignored(k)
    \/ h = "UNKNOWN" /\ (Frozen(k) \/ Degraded(k, muted))
    \/ h = "BAD" /\ Counted(k) /\ \/ Damped(k) \/ Fired(k, t, muted)
                                  \/ Renotified(k, t, muted)
                                  \/ Eased(k, t) \/ Silent(k, t)
    \/ h = "OK" /\ (Forgotten(k) \/ Awaited(k) \/ Resolved(k, muted))

\* The clock clamp, as a time.
LEMMA ClampedTimeFacts ==
    ASSUME TypeOK, NEW k \in Keys
    PROVE  /\ Clamped(alerts[k]).lastNotified = ClampedTime(k)
           /\ ClampedTime(k) \in Nat
<1>1. alerts[k] \in KeyState /\ now \in Nat
  BY ConfigAssumption DEF TypeOK
<1>2. QED BY <1>1 DEF Clamped, ClampedTime, KeyState

\* The time a BAD observation of a firing key leaves behind.
LEMMA BreachedTime ==
    ASSUME TypeOK, NEW k \in Keys, NEW t \in Tiers, Firing(k)
    PROVE  Breached(k, t).lastNotified = ClampedTime(k)
BY BreachedFacts, ClampedTimeFacts DEF Firing, Tracked

\* Each handler of a BAD observation, field by field.
LEMMA BadOutcomes ==
    ASSUME TypeOK, Untold, NEW k \in Keys, NEW t \in Tiers, NEW muted \in BOOLEAN,
           \/ Damp(k, t, muted) \/ Fire(k, t, muted) \/ Escalate(k, t, muted)
           \/ DeEscalate(k, t, muted) \/ Remind(k, t, muted) \/ StaySilent(k, t, muted)
    PROVE  /\ Counted(k)
           /\ \/ Damped(k) \/ Fired(k, t, muted) \/ Renotified(k, t, muted)
              \/ Eased(k, t) \/ Silent(k, t)
<1> DEFINE b == Breached(k, t)
           n == Notified(b, t)
<1>1. /\ b \in KeyState
      /\ b.status = IF Tracked(k) THEN alerts[k].status ELSE "pending"
      /\ b.tier = IF Tracked(k) THEN alerts[k].tier ELSE t
      /\ b.notifiedTargets = IF Tracked(k) THEN alerts[k].notifiedTargets ELSE {}
      /\ b.lastSeenRun = runID /\ b.degradedNotified = FALSE /\ b.consecutiveOK = 0
      /\ b.consecutiveBad = IF Tracked(k) THEN alerts[k].consecutiveBad + 1 ELSE 1
  BY BreachedFacts
<1>2. Firing(k) => b.lastNotified = ClampedTime(k)
  BY BreachedTime
<1>3. now \in Nat /\ RouteTargets(t) \in SUBSET Channels
  BY ConfigAssumption DEF TypeOK, RouteTargets
<1>4. n = [b EXCEPT !.tier = t, !.lastNotified = now,
                    !.notifiedTargets = b.notifiedTargets \cup RouteTargets(t)]
  BY <1>1 DEF Notified
<1> HIDE DEF b, n
<1>5. /\ n \in KeyState /\ n.status = b.status /\ n.tier = t
      /\ n.lastNotified = now
      /\ n.notifiedTargets = b.notifiedTargets \cup RouteTargets(t)
      /\ n.lastSeenRun = b.lastSeenRun /\ n.degradedNotified = b.degradedNotified
      /\ n.consecutiveOK = b.consecutiveOK /\ n.consecutiveBad = b.consecutiveBad
  BY <1>1, <1>3, <1>4 DEF KeyState
<1>6. CASE Damp(k, t, muted)
  <2>1. alerts'[k] = b /\ ~Firing(k) /\ decisions' = decisions
    BY <1>1, <1>6, StoreFacts DEF Damp, b
  <2>2. alerts[k].status \in {"none", "pending", "firing"}
    BY DEF TypeOK, KeyState
  <2>3. b.status = "pending"
    BY <1>1, <2>1, <2>2 DEF Firing, Tracked
  <2>4. QED BY <1>1, <2>1, <2>3 DEF Counted, Damped
<1>7. CASE Fire(k, t, muted)
  <2> DEFINE f == [n EXCEPT !.status = "firing"]
  <2>1. /\ f \in KeyState /\ f.status = "firing" /\ f.tier = t
        /\ f.lastNotified = now /\ f.notifiedTargets = n.notifiedTargets
        /\ f.lastSeenRun = b.lastSeenRun /\ f.degradedNotified = b.degradedNotified
        /\ f.consecutiveOK = b.consecutiveOK /\ f.consecutiveBad = b.consecutiveBad
    BY <1>5 DEF KeyState
  <2>2. Store(k, f) /\ ~Firing(k) /\ b.consecutiveBad >= FlapSamplesFor(k, t)
        /\ Announce(Notice(k, "fire", t, RouteTargets(t)), muted)
    BY <1>7 DEF Fire, b, n
  <2> HIDE DEF f
  <2>3. alerts'[k] = f
    BY <2>1, <2>2, StoreFacts
  <2>4. f.notifiedTargets = RouteTargets(t)
    BY <1>5, <2>1, <2>2, StoredEpisodes DEF b
  <2>5. QED BY <1>1, <1>5, <2>1, <2>2, <2>3, <2>4 DEF Counted, Fired
<1>8. CASE Escalate(k, t, muted) \/ Remind(k, t, muted)
  <2>1. Store(k, n) /\ Firing(k)
    BY <1>8 DEF Escalate, Remind, b, n
  <2>2. alerts'[k] = n
    BY <1>5, <2>1, StoreFacts
  <2>3. Tracked(k) /\ b.status = "firing" /\ b.notifiedTargets = alerts[k].notifiedTargets
    BY <1>1, <2>1 DEF Firing, Tracked
  <2>4. \/ Announce(Notice(k, "escalate", t, RouteTargets(t)), muted)
        \/ /\ Announce(Notice(k, "reminder", t, RouteTargets(t)), muted)
           /\ now - ClampedTime(k) >= CooldownFor(k, t)
    BY <1>2, <1>8, <2>1 DEF Escalate, Remind, CooldownElapsed, b
  <2>5. QED BY <1>1, <1>5, <2>1, <2>2, <2>3, <2>4 DEF Counted, Renotified
<1>9. CASE DeEscalate(k, t, muted)
  <2> DEFINE e == [b EXCEPT !.tier = t, !.lastNotified = now]
  <2>1. /\ e \in KeyState /\ e.status = b.status /\ e.tier = t
        /\ e.lastNotified = now /\ e.notifiedTargets = b.notifiedTargets
        /\ e.lastSeenRun = b.lastSeenRun /\ e.degradedNotified = b.degradedNotified
        /\ e.consecutiveOK = b.consecutiveOK /\ e.consecutiveBad = b.consecutiveBad
    BY <1>1, <1>3 DEF KeyState
  <2>2. Store(k, e) /\ Firing(k) /\ decisions' = decisions
    BY <1>9 DEF DeEscalate, b
  <2> HIDE DEF e
  <2>3. alerts'[k] = e
    BY <2>1, <2>2, StoreFacts
  <2>4. Tracked(k) /\ b.status = "firing" /\ b.notifiedTargets = alerts[k].notifiedTargets
    BY <1>1, <2>2 DEF Firing, Tracked
  <2>5. QED BY <1>1, <2>1, <2>2, <2>3, <2>4 DEF Counted, Eased
<1>10. CASE StaySilent(k, t, muted)
  <2>1. /\ alerts'[k] = b /\ Firing(k) /\ decisions' = decisions
        /\ t = alerts[k].tier
        /\ ~(now - ClampedTime(k) >= CooldownFor(k, t))
    BY <1>1, <1>2, <1>10, StoreFacts DEF StaySilent, CooldownElapsed, b
  <2>2. Tracked(k) /\ b.status = "firing" /\ b.notifiedTargets = alerts[k].notifiedTargets
        /\ b.tier = t
    BY <1>1, <2>1 DEF Firing, Tracked
  <2>3. QED BY <1>1, <1>2, <2>1, <2>2 DEF Counted, Silent
<1>11. QED BY <1>6, <1>7, <1>8, <1>9, <1>10

\* Every observation of a key is one of the outcomes, for that key alone.
LEMMA ObserveOutcomes ==
    ASSUME TypeOK, Untold, NEW k \in Keys, NEW h \in Healths, NEW t \in Tiers,
           NEW muted \in BOOLEAN, Observe(k, h, t, muted)
    PROVE  /\ Outcome(k, h, t, muted)
           /\ \A j \in Keys \ {k} : alerts'[j] = alerts[j]
<1>1. alerts[k] \in KeyState /\ alerts \in [Keys -> KeyState]
  BY DEF TypeOK
<1>2. CASE Ignore(k, h, muted)
  BY <1>2 DEF Ignore, Outcome, Ignored
<1>3. CASE h = "UNKNOWN" /\ Freeze(k)
  <2> DEFINE f == [alerts[k] EXCEPT !.lastSeenRun = runID]
  <2>1. /\ f \in KeyState /\ f.status = alerts[k].status /\ f.tier = alerts[k].tier
        /\ f.consecutiveBad = alerts[k].consecutiveBad
        /\ f.consecutiveOK = alerts[k].consecutiveOK
        /\ f.lastNotified = alerts[k].lastNotified
        /\ f.notifiedTargets = alerts[k].notifiedTargets
        /\ f.lastSeenRun = runID /\ f.degradedNotified = alerts[k].degradedNotified
    BY <1>1 DEF TypeOK, KeyState
  <2>2. Store(k, f) /\ Tracked(k) /\ decisions' = decisions
        /\ (Firing(k) => alerts[k].degradedNotified)
    BY <1>3 DEF Freeze
  <2> HIDE DEF f
  <2>3. alerts'[k] = f /\ \A j \in Keys \ {k} : alerts'[j] = alerts[j]
    BY <2>1, <2>2, StoreFacts
  <2>4. QED BY <1>3, <2>1, <2>2, <2>3 DEF Outcome, Frozen, Same
<1>4. CASE h = "UNKNOWN" /\ Degrade(k, muted)
  <2> DEFINE f == [alerts[k] EXCEPT !.lastSeenRun = runID, !.degradedNotified = TRUE]
  <2>1. /\ f \in KeyState /\ f.status = alerts[k].status /\ f.tier = alerts[k].tier
        /\ f.consecutiveBad = alerts[k].consecutiveBad
        /\ f.consecutiveOK = alerts[k].consecutiveOK
        /\ f.lastNotified = alerts[k].lastNotified
        /\ f.notifiedTargets = alerts[k].notifiedTargets
        /\ f.lastSeenRun = runID /\ f.degradedNotified
    BY <1>1 DEF TypeOK, KeyState
  <2>2. /\ Store(k, f) /\ Firing(k) /\ ~alerts[k].degradedNotified
        /\ decisions' = IF muted THEN decisions ELSE Append(decisions, Blind(k))
    BY <1>4 DEF Degrade
  <2> HIDE DEF f
  <2>3. alerts'[k] = f /\ \A j \in Keys \ {k} : alerts'[j] = alerts[j]
    BY <2>1, <2>2, StoreFacts
  <2>4. QED BY <1>4, <2>1, <2>2, <2>3 DEF Outcome, Degraded, Same
<1>5. CASE /\ h = "BAD"
           /\ \/ Damp(k, t, muted) \/ Fire(k, t, muted) \/ Escalate(k, t, muted)
              \/ DeEscalate(k, t, muted) \/ Remind(k, t, muted)
              \/ StaySilent(k, t, muted)
  <2>1. Outcome(k, h, t, muted)
    BY <1>5, BadOutcomes DEF Outcome
  <2>2. \E ks \in KeyState : Store(k, ks)
    BY <1>5, BreachedFacts, StoredTypes
       DEF Damp, Fire, Escalate, DeEscalate, Remind, StaySilent
  <2>3. QED BY <2>1, <2>2, StoreFacts
<1>6. CASE h = "OK" /\ Forget(k)
  <2>1. alerts'[k] = NoState /\ \A j \in Keys \ {k} : alerts'[j] = alerts[j]
    BY <1>6, NoStateType, StoreFacts DEF Forget
  <2>2. QED BY <1>6, <2>1 DEF Forget, Outcome, Forgotten
<1>7. CASE h = "OK" /\ AwaitRecovery(k)
  <2>1. /\ alerts'[k] = Recovering(k) /\ Firing(k) /\ decisions' = decisions
        /\ \A j \in Keys \ {k} : alerts'[j] = alerts[j]
    BY <1>7, RecoveringFacts, StoreFacts DEF AwaitRecovery
  <2>2. Awaited(k)
    BY <2>1, RecoveringFacts, ClampedTimeFacts DEF Awaited, Firing
  <2>3. QED BY <1>7, <2>1, <2>2 DEF Outcome
<1>8. CASE h = "OK" /\ Resolve(k, muted)
  <2>1. alerts'[k] = NoState /\ \A j \in Keys \ {k} : alerts'[j] = alerts[j]
    BY <1>8, NoStateType, StoreFacts DEF Resolve
  <2>2. Resolved(k, muted)
    BY <1>8, <2>1, RecoveringFacts DEF Resolve, Resolved
  <2>3. QED BY <1>8, <2>1, <2>2 DEF Outcome
<1>9. QED BY <1>2, <1>3, <1>4, <1>5, <1>6, <1>7, <1>8 DEF Observe

\* The sweep marks its key as seen and as reported, and says so once.
LEMMA SweptFacts ==
    ASSUME TypeOK, NEW k \in Keys, SweepDegraded(k)
    PROVE  /\ Firing(k) /\ Same(k) /\ alerts'[k].degradedNotified
           /\ \A j \in Keys \ {k} : alerts'[j] = alerts[j]
           /\ decisions' = IF alerts[k].degradedNotified
                              THEN decisions ELSE Append(decisions, Blind(k))
<1> DEFINE f == [alerts[k] EXCEPT !.lastSeenRun = runID, !.degradedNotified = TRUE]
<1>1. /\ f \in KeyState /\ f.status = alerts[k].status /\ f.tier = alerts[k].tier
      /\ f.consecutiveBad = alerts[k].consecutiveBad
      /\ f.consecutiveOK = alerts[k].consecutiveOK
      /\ f.lastNotified = alerts[k].lastNotified
      /\ f.notifiedTargets = alerts[k].notifiedTargets
      /\ f.lastSeenRun = runID /\ f.degradedNotified
  BY DEF TypeOK, KeyState
<1>2. /\ Store(k, f) /\ Firing(k)
      /\ decisions' = IF alerts[k].degradedNotified
                         THEN decisions ELSE Append(decisions, Blind(k))
  BY DEF SweepDegraded, InTheDark
<1> HIDE DEF f
<1>3. alerts'[k] = f /\ \A j \in Keys \ {k} : alerts'[j] = alerts[j]
  BY <1>1, <1>2, StoreFacts
<1>4. QED BY <1>1, <1>2, <1>3 DEF Same

\* One observation of a key a run: a service without replicas, or a host key.
OnePerRun == \A k \in Keys : Replicas[k] = 1
=============================================================================
