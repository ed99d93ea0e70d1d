--------------------------- MODULE WatchdogProofs ---------------------------
(* Who is on record and who hears a FIRE: theorems about Watchdog, for every    *)
(* set of processes, of channels and of tiers, and every routing.               *)
EXTENDS Watchdog, TLAPS

-----------------------------------------------------------------------------
(* The machine over a copy of the key *)

\* A key, as AlertMachine types it.
Key ==
    [status : {"none", "pending", "firing"}, tier : 0..2,
     consecutiveBad : Nat, consecutiveOK : Nat,
     lastNotified : Nat, lastSeenRun : Nat,
     degradedNotified : BOOLEAN, notifiedTargets : SUBSET Channels]

\* The key that is not in the file.
LEMMA NoKeyFacts ==
    NoKey \in Key /\ NoKey.status = "none" /\ NoKey.notifiedTargets = {}
BY DEF NoKey, Machine!NoState, Key

\* Who is routed to is a set of channels.
LEMMA RouteType == \A t \in 0..2 : Route(t) \in SUBSET Channels
BY WatchdogAssumption DEF Route, Machine!RouteTargets

\* The clamp, in the machine, touches nothing but the time.
LEMMA ClampedKey ==
    ASSUME NEW ks \in Key, NEW t \in Nat, NEW x \in Key
    PROVE  /\ Machine(ks, t)!Clamped(x) \in Key
           /\ Machine(ks, t)!Clamped(x).status = x.status
           /\ Machine(ks, t)!Clamped(x).notifiedTargets = x.notifiedTargets
           /\ Machine(ks, t)!Clamped(x).consecutiveBad = x.consecutiveBad
           /\ Machine(ks, t)!Clamped(x).consecutiveOK = x.consecutiveOK
BY DEF Key, Machine!Clamped

\* What a breach makes of a copy: it is open, and its channels are kept.
LEMMA BreachedKey ==
    ASSUME NEW ks \in Key, NEW t \in Nat, NEW tier \in 0..2
    PROVE  LET b == Machine(ks, t)!Breached("key", tier)
           IN  /\ b \in Key
               /\ b.status = IF ks.status = "none" THEN "pending" ELSE ks.status
               /\ ks.status # "none" => b.notifiedTargets = ks.notifiedTargets
<1> DEFINE o == Machine(ks, t)!Opened("key", tier)
           c == Machine(ks, t)!Clamped(o)
           b == Machine(ks, t)!Breached("key", tier)
<1>1. /\ o \in Key
      /\ o.status = IF ks.status = "none" THEN "pending" ELSE ks.status
      /\ ks.status # "none" => o.notifiedTargets = ks.notifiedTargets
  BY DEF Key, Machine!Opened, Machine!Tracked, Machine!NoState
<1>2. c \in Key /\ c.status = o.status /\ c.notifiedTargets = o.notifiedTargets
      /\ c.consecutiveBad = o.consecutiveBad
  BY <1>1, ClampedKey
<1>3. b = [c EXCEPT !.lastSeenRun = 1, !.degradedNotified = FALSE,
                    !.consecutiveOK = 0, !.consecutiveBad = c.consecutiveBad + 1]
  BY <1>2 DEF Machine!Breached, Key
<1> HIDE DEF o, c, b
<1>4. b = [status |-> c.status, tier |-> c.tier,
           consecutiveBad |-> c.consecutiveBad + 1, consecutiveOK |-> 0,
           lastNotified |-> c.lastNotified, lastSeenRun |-> 1,
           degradedNotified |-> FALSE, notifiedTargets |-> c.notifiedTargets]
  BY <1>2, <1>3 DEF Key
<1>5. b \in Key /\ b.status = c.status /\ b.notifiedTargets = c.notifiedTargets
  BY <1>2, <1>4 DEF Key
<1>6. QED BY <1>1, <1>2, <1>5 DEF b

\* What a recovery makes of a copy.
LEMMA RecoveringKey ==
    ASSUME NEW ks \in Key, NEW t \in Nat
    PROVE  LET r == Machine(ks, t)!Recovering("key")
           IN  /\ r \in Key /\ r.status = ks.status
               /\ r.notifiedTargets = ks.notifiedTargets
<1> DEFINE c == Machine(ks, t)!Clamped(ks)
           r == Machine(ks, t)!Recovering("key")
<1>1. c \in Key /\ c.status = ks.status /\ c.notifiedTargets = ks.notifiedTargets
      /\ c.consecutiveOK = ks.consecutiveOK
  BY ClampedKey
<1>2. r = [c EXCEPT !.lastSeenRun = 1, !.degradedNotified = FALSE,
                    !.consecutiveBad = 0, !.consecutiveOK = c.consecutiveOK + 1]
  BY <1>1 DEF Machine!Recovering, Key
<1> HIDE DEF c, r
<1>3. r = [status |-> c.status, tier |-> c.tier,
           consecutiveBad |-> 0, consecutiveOK |-> c.consecutiveOK + 1,
           lastNotified |-> c.lastNotified, lastSeenRun |-> 1,
           degradedNotified |-> FALSE, notifiedTargets |-> c.notifiedTargets]
  BY <1>1, <1>2 DEF Key
<1>4. r \in Key /\ r.status = c.status /\ r.notifiedTargets = c.notifiedTargets
  BY <1>1, <1>3 DEF Key
<1>5. QED BY <1>1, <1>4 DEF r

\* What a notification makes of a copy: its channels are added.
LEMMA NotifiedKey ==
    ASSUME NEW ks \in Key, NEW t \in Nat, NEW x \in Key, NEW tier \in 0..2
    PROVE  LET n == Machine(ks, t)!Notified(x, tier)
           IN  /\ n \in Key /\ n.status = x.status
               /\ n.notifiedTargets = x.notifiedTargets \cup Route(tier)
<1> DEFINE n == Machine(ks, t)!Notified(x, tier)
<1>1. Machine(ks, t)!RouteTargets(tier) = Route(tier)
  BY DEF Route, Machine!RouteTargets
<1>2. n = [x EXCEPT !.tier = tier, !.lastNotified = t,
                    !.notifiedTargets = x.notifiedTargets \cup Route(tier)]
  BY <1>1 DEF Machine!Notified, Key
<1>3. Route(tier) \in SUBSET Channels
  BY RouteType
<1> HIDE DEF n
<1>4. n \in Key /\ n.status = x.status
      /\ n.notifiedTargets = x.notifiedTargets \cup Route(tier)
  BY <1>2, <1>3 DEF Key
<1>5. QED BY <1>4 DEF n

-----------------------------------------------------------------------------
(* What an observation leads to *)

Alarms == {"fire", "escalate", "reminder"}

Notices == [kind : Alarms \cup {"resolved", "none"}, to : SUBSET Channels]

\* The key ks will send c the all-clear.
OnRecord(ks, c) == ks.status = "firing" /\ c \in ks.notifiedTargets

\* Nobody on record is dropped without an all-clear, whoever is alarmed is on
\* record, and a key that fires does not FIRE again.
Fair(ks, result) ==
    /\ result.key \in Key /\ result.notice \in Notices
    /\ \A c \in Channels : OnRecord(ks, c) =>
          \/ OnRecord(result.key, c)
          \/ result.notice.kind = "resolved" /\ c \in result.notice.to
    /\ result.notice.kind \in Alarms =>
          \A c \in result.notice.to : OnRecord(result.key, c)
    /\ result.notice.kind = "fire" => ks.status # "firing"

\* A silent observation that keeps who is on record is fair.
LEMMA SilentIsFair ==
    ASSUME NEW ks \in Key, NEW x \in Key,
           \A c \in Channels : OnRecord(ks, c) => OnRecord(x, c)
    PROVE  Fair(ks, Silently(x))
BY DEF Fair, Silently, Nothing, Notices, Alarms

\* So is an alarm to channels that are put on record.
LEMMA AlarmIsFair ==
    ASSUME NEW ks \in Key, NEW x \in Key, NEW kind \in Alarms,
           NEW to \in SUBSET Channels,
           \A c \in Channels : OnRecord(ks, c) => OnRecord(x, c),
           \A c \in to : OnRecord(x, c),
           kind = "fire" => ks.status # "firing"
    PROVE  Fair(ks, Saying(x, kind, to))
BY DEF Fair, Saying, Notices, Alarms

\* Whatever handleBad does with a copy of the key is fair.
LEMMA BadIsFair ==
    ASSUME NEW ks \in Key, NEW t \in Nat, NEW tier \in 0..2
    PROVE  Fair(ks, HandleBad(ks, t, tier))
<1> DEFINE bad == Machine(ks, t)!Breached("key", tier)
           notified == Machine(ks, t)!Notified(bad, tier)
           fired == [notified EXCEPT !.status = "firing"]
           eased == [bad EXCEPT !.tier = tier, !.lastNotified = t]
<1>1. /\ bad \in Key
      /\ bad.status = IF ks.status = "none" THEN "pending" ELSE ks.status
      /\ ks.status # "none" => bad.notifiedTargets = ks.notifiedTargets
  BY BreachedKey
<1>2. /\ notified \in Key /\ notified.status = bad.status
      /\ notified.notifiedTargets = bad.notifiedTargets \cup Route(tier)
  BY <1>1, NotifiedKey
<1>3. HandleBad(ks, t, tier) =
        IF bad.status = "pending"
          THEN IF bad.consecutiveBad < Flap[tier] THEN Silently(bad)
               ELSE Saying(fired, "fire", Route(tier))
        ELSE IF tier > bad.tier THEN Saying(notified, "escalate", Route(tier))
        ELSE IF tier < bad.tier THEN Silently(eased)
        ELSE IF t - bad.lastNotified >= Cooldown[tier]
          THEN Saying(notified, "reminder", Route(tier))
        ELSE Silently(bad)
  BY DEF HandleBad
<1> HIDE DEF bad, notified
<1>4. fired \in Key /\ fired.status = "firing"
      /\ fired.notifiedTargets = notified.notifiedTargets
  BY <1>2 DEF Key
<1>5. eased \in Key /\ eased.status = bad.status
      /\ eased.notifiedTargets = bad.notifiedTargets
  BY <1>1 DEF Key
<1> HIDE DEF fired, eased
<1>6. Route(tier) \in SUBSET Channels
  BY RouteType
<1>7. "fire" \in Alarms /\ "escalate" \in Alarms /\ "reminder" \in Alarms
  BY DEF Alarms
<1>8. ks.status \in {"none", "pending", "firing"}
  BY DEF Key
<1>9. CASE bad.status = "pending"
  <2>1. \A c \in Channels : ~ OnRecord(ks, c)
    BY <1>9, <1>1, <1>8 DEF OnRecord
  <2>2. Fair(ks, Silently(bad))
    BY <2>1, <1>1, SilentIsFair
  <2>3. \A c \in Route(tier) : OnRecord(fired, c)
    BY <1>2, <1>4 DEF OnRecord
  <2>4. ks.status # "firing"
    BY <1>9, <1>1
  <2>5. Fair(ks, Saying(fired, "fire", Route(tier)))
    BY <2>1, <2>3, <2>4, <1>4, <1>6, <1>7, AlarmIsFair
  <2>6. QED BY <2>2, <2>5, <1>3, <1>9
<1>10. CASE bad.status # "pending"
  <2>1. bad.status = "firing" /\ ks.status = "firing"
        /\ bad.notifiedTargets = ks.notifiedTargets
    BY <1>10, <1>1, <1>8
  <2>2. Fair(ks, Silently(bad))
    BY <2>1, <1>1, SilentIsFair DEF OnRecord
  <2>3. Fair(ks, Silently(eased))
    BY <2>1, <1>5, SilentIsFair DEF OnRecord
  <2>4. \A c \in Channels : OnRecord(ks, c) => OnRecord(notified, c)
    BY <2>1, <1>2 DEF OnRecord
  <2>5. \A c \in Route(tier) : OnRecord(notified, c)
    BY <2>1, <1>2 DEF OnRecord
  <2>6. /\ Fair(ks, Saying(notified, "escalate", Route(tier)))
        /\ Fair(ks, Saying(notified, "reminder", Route(tier)))
    BY <2>4, <2>5, <1>2, <1>6, <1>7, AlarmIsFair
  <2>7. QED BY <2>2, <2>3, <2>6, <1>3, <1>10
<1>11. QED BY <1>9, <1>10

\* So is whatever handleOK does with it.
LEMMA OKIsFair ==
    ASSUME NEW ks \in Key, NEW t \in Nat
    PROVE  Fair(ks, HandleOK(ks, t))
<1> DEFINE ok == Machine(ks, t)!Recovering("key")
<1>1. ok \in Key /\ ok.status = ks.status
      /\ ok.notifiedTargets = ks.notifiedTargets
  BY RecoveringKey
<1>2. HandleOK(ks, t) =
        IF ks.status # "firing" THEN Silently(NoKey)
        ELSE IF ok.consecutiveOK < ResolveSamples THEN Silently(ok)
        ELSE Saying(NoKey, "resolved", ks.notifiedTargets)
  BY DEF HandleOK
<1> HIDE DEF ok
<1>3. ks.status # "firing" => Fair(ks, Silently(NoKey))
  BY NoKeyFacts, SilentIsFair DEF OnRecord
<1>4. Fair(ks, Silently(ok))
  BY <1>1, SilentIsFair DEF OnRecord
<1>5. Fair(ks, Saying(NoKey, "resolved", ks.notifiedTargets))
  BY NoKeyFacts DEF Fair, Saying, Notices, Alarms, OnRecord, Key
<1>6. QED BY <1>2, <1>3, <1>4, <1>5

\* And every observation a run can make, whatever it found.
LEMMA AdvanceIsFair ==
    ASSUME NEW ks \in Key, NEW seen, NEW tier,
           \/ seen \in {"OK", "UNKNOWN", "absent"}
           \/ seen = "BAD" /\ tier \in 0..2
    PROVE  Fair(ks, Advanced(ks, Present, seen, tier))
<1>1. Present \in Nat
  BY WatchdogAssumption DEF Present
<1>2. Fair(ks, Silently(ks))
  BY SilentIsFair
<1>3. Fair(ks, Unseen(ks))
  BY <1>2, NoKeyFacts, SilentIsFair DEF Unseen, OnRecord
<1>4. CASE seen = "OK"
  BY <1>1, <1>4, OKIsFair DEF Advanced
<1>5. CASE seen = "BAD" /\ tier \in 0..2
  BY <1>1, <1>5, BadIsFair DEF Advanced
<1>6. CASE seen = "UNKNOWN"
  BY <1>2, <1>6 DEF Advanced
<1>7. CASE seen = "absent"
  BY <1>3, <1>7 DEF Advanced
<1>8. QED BY <1>4, <1>5, <1>6, <1>7

\* What the copy leaves out says nothing of who is on record.
LEMMA CanonicalKey ==
    ASSUME NEW ks \in Key
    PROVE  /\ Canonical(ks) \in Key
           /\ \A c : OnRecord(Canonical(ks), c) <=> OnRecord(ks, c)
<1>1. Canonical(ks) \in Key
  BY DEF Canonical, Key
<1>2. Canonical(ks).status = ks.status
      /\ Canonical(ks).notifiedTargets = ks.notifiedTargets
  BY DEF Canonical, Key
<1>3. QED BY <1>1, <1>2 DEF OnRecord

\* Nor does the age of the last notification.
LEMMA OlderKey ==
    ASSUME NEW ks \in Key
    PROVE  /\ Older(ks) \in Key
           /\ \A c : OnRecord(Older(ks), c) <=> OnRecord(ks, c)
BY DEF Older, Sunk, Key, OnRecord

-----------------------------------------------------------------------------
(* The inductive invariant *)

WTypeOK ==
    /\ disk \in Key
    /\ stage \in [Processes -> {"off", "advanced", "deliver"}]
    /\ copy \in [Processes -> Key]
    /\ outbox \in [Processes -> Notices]
    /\ condition \in {Fine, Changing} \cup Levels
    /\ heard \in [Channels -> {"alarm", "all clear"}]
    /\ missed \in SUBSET Channels
    /\ overlapped \in BOOLEAN

\* The channels that believe in an alarm and have lost no all-clear.
Believers == {c \in Channels : heard[c] = "alarm"} \ missed

\* Until two runs were under way at once, there is one at a time.
OneAtATime ==
    ~overlapped => \A p, q \in Processes :
                       stage[p] # "off" /\ stage[q] # "off" => p = q

\* As long as no run is posting, the file has every believer on record.
OnDisk ==
    ~overlapped /\ (\A p \in Processes : stage[p] # "deliver") =>
        \A c \in Believers : OnRecord(disk, c)

\* The key that is the file's once the run has saved.
Holds(p) == IF stage[p] = "advanced" THEN copy[p] ELSE disk

\* The run under way has every believer on record, or still owes it the
\* all-clear; it alarms nobody who is not on record, and no believer by a FIRE.
Decided(p) ==
    /\ \A c \in Believers :
          \/ OnRecord(Holds(p), c)
          \/ outbox[p].kind = "resolved" /\ c \in outbox[p].to
    /\ outbox[p].kind \in Alarms => \A c \in outbox[p].to : OnRecord(Holds(p), c)
    /\ outbox[p].kind = "fire" => outbox[p].to \cap Believers = {}

InRun ==
    ~overlapped => \A p \in Processes : stage[p] # "off" => Decided(p)

WatchdogInv == WTypeOK /\ OneAtATime /\ OnDisk /\ InRun

(* At first the file, the processes and the channels know of nothing. *)
LEMMA InitHolds == Init => WatchdogInv
<1> SUFFICES ASSUME Init PROVE WatchdogInv
  OBVIOUS
<1>1. NoKey \in Key
  BY NoKeyFacts
<1>2. Nothing \in Notices
  BY DEF Nothing, Notices
<1>3. WTypeOK
  BY <1>1, <1>2 DEF Init, WTypeOK
<1>4. Believers = {}
  BY DEF Init, Believers
<1>5. QED BY <1>3, <1>4 DEF Init, WatchdogInv, OneAtATime, OnDisk, InRun

-----------------------------------------------------------------------------
(* A run *)

\* Whatever there is to find can be observed.
LEMMA FoundFacts ==
    ASSUME WTypeOK, NEW o \in Found
    PROVE  \/ o.health \in {"OK", "UNKNOWN", "absent"}
           \/ o.health = "BAD" /\ o.tier \in 0..2
<1>1. CASE Calm
  <2>1. o = [health |-> IF condition = Fine THEN "OK" ELSE "BAD",
             tier |-> condition]
    BY <1>1 DEF Found
  <2>2. condition = Fine \/ condition \in Levels
    BY <1>1 DEF WTypeOK, Calm
  <2>3. QED BY <2>1, <2>2, WatchdogAssumption
<1>2. CASE ~Calm
  BY <1>2, WatchdogAssumption DEF Found
<1>3. QED BY <1>1, <1>2

(* Load through Advance works on the copy of one process: the file and what the
   channels were told stay, and what it decides is in its outbox. *)
LEMMA StartKeeps ==
    ASSUME WatchdogInv, NEW p \in Processes, Start(p) PROVE WatchdogInv'
<1>1. PICK o \in Found :
        LET result == Advanced(disk, Present, o.health, o.tier)
        IN  /\ copy' = [copy EXCEPT ![p] = Canonical(result.key)]
            /\ outbox' = [outbox EXCEPT ![p] = result.notice]
  BY DEF Start
<1> DEFINE result == Advanced(disk, Present, o.health, o.tier)
<1>2. disk \in Key /\ stage \in [Processes -> {"off", "advanced", "deliver"}]
      /\ copy \in [Processes -> Key] /\ outbox \in [Processes -> Notices]
  BY DEF WatchdogInv, WTypeOK
<1>3. Fair(disk, result)
  BY <1>2, FoundFacts, AdvanceIsFair DEF WatchdogInv
<1>4. /\ copy' = [copy EXCEPT ![p] = Canonical(result.key)]
      /\ outbox' = [outbox EXCEPT ![p] = result.notice]
  BY <1>1
<1> HIDE DEF result
<1>5. /\ Canonical(result.key) \in Key
      /\ \A c : OnRecord(Canonical(result.key), c) <=> OnRecord(result.key, c)
  BY <1>3, CanonicalKey DEF Fair
<1>6. stage' = [stage EXCEPT ![p] = "advanced"] /\ stage[p] = "off"
      /\ UNCHANGED <<disk, condition, heard>>
  BY DEF Start, Under
<1>7. copy' \in [Processes -> Key] /\ copy'[p] = Canonical(result.key)
  BY <1>2, <1>4, <1>5
<1>8. outbox' \in [Processes -> Notices] /\ outbox'[p] = result.notice
  BY <1>2, <1>3, <1>4 DEF Fair
<1>9. stage' \in [Processes -> {"off", "advanced", "deliver"}]
      /\ stage'[p] = "advanced"
      /\ \A q \in Processes \ {p} : stage'[q] = stage[q]
  BY <1>2, <1>6
<1>10. overlapped' = (overlapped \/ \E q \in Processes : stage[q] # "off")
       /\ missed' = IF overlapped' THEN {} ELSE missed
  BY DEF Start
<1>11. WTypeOK'
  <2>1. missed' \in SUBSET Channels /\ overlapped' \in BOOLEAN
    BY <1>10 DEF WatchdogInv, WTypeOK
  <2>2. QED BY <2>1, <1>6, <1>7, <1>8, <1>9 DEF WatchdogInv, WTypeOK
<1>12. CASE overlapped'
  BY <1>11, <1>12 DEF WatchdogInv, OneAtATime, OnDisk, InRun
<1>13. CASE ~overlapped'
  <2>1. ~overlapped /\ \A q \in Processes : stage[q] = "off"
    BY <1>10, <1>13
  <2>2. Believers' = Believers
    BY <1>6, <1>10, <1>13 DEF Believers
  <2>3. \A c \in Believers : OnRecord(disk, c)
    BY <2>1 DEF WatchdogInv, OnDisk
  <2>4. OneAtATime'
    BY <1>9, <2>1 DEF OneAtATime
  <2>5. OnDisk'
    BY <1>6, <2>2, <2>3 DEF OnDisk
  <2>6. Holds(p)' = Canonical(result.key)
    BY <1>7, <1>9 DEF Holds
  <2>7. \A c \in Believers : c \in Channels
    BY DEF Believers
  <2>8. Decided(p)'
    <3>1. \A c \in Believers' :
             \/ OnRecord(Holds(p)', c)
             \/ outbox'[p].kind = "resolved" /\ c \in outbox'[p].to
      BY <1>3, <1>5, <1>8, <2>2, <2>3, <2>6, <2>7 DEF Fair
    <3>2. outbox'[p].kind \in Alarms =>
             \A c \in outbox'[p].to : OnRecord(Holds(p)', c)
      BY <1>3, <1>5, <1>8, <2>6 DEF Fair
    <3>3. outbox'[p].kind = "fire" => outbox'[p].to \cap Believers' = {}
      BY <1>3, <1>8, <2>2, <2>3 DEF Fair, OnRecord
    <3>4. QED BY <3>1, <3>2, <3>3 DEF Decided
  <2>9. InRun'
    BY <1>9, <2>1, <2>8 DEF InRun
  <2>10. QED BY <1>11, <2>4, <2>5, <2>9 DEF WatchdogInv
<1>14. QED BY <1>12, <1>13

(* The rename puts the copy on file; whoever had been told is told of in the copy,
   or the runs overlapped. *)
LEMMA SaveKeeps ==
    ASSUME WatchdogInv, NEW p \in Processes, Save(p) PROVE WatchdogInv'
<1>1. stage[p] = "advanced" /\ stage' = [stage EXCEPT ![p] = "deliver"]
      /\ disk' = copy[p] /\ copy' = [copy EXCEPT ![p] = NoKey]
      /\ UNCHANGED <<outbox, condition, heard, missed, overlapped>>
  BY DEF Save, Under
<1>2. disk \in Key /\ stage \in [Processes -> {"off", "advanced", "deliver"}]
      /\ copy \in [Processes -> Key]
  BY DEF WatchdogInv, WTypeOK
<1>3. stage' \in [Processes -> {"off", "advanced", "deliver"}]
      /\ stage'[p] = "deliver"
      /\ \A q \in Processes \ {p} : stage'[q] = stage[q]
  BY <1>1, <1>2
<1>4. WTypeOK'
  BY <1>1, <1>2, <1>3, NoKeyFacts DEF WatchdogInv, WTypeOK
<1>5. Believers' = Believers
  BY <1>1 DEF Believers
<1>6. OneAtATime'
  BY <1>1, <1>3 DEF WatchdogInv, OneAtATime
<1>7. OnDisk'
  BY <1>3 DEF OnDisk
<1>8. ~overlapped => \A q \in Processes : q # p => stage[q] = "off"
  BY <1>1 DEF WatchdogInv, OneAtATime
<1>9. ~overlapped => Decided(p)
  BY <1>1 DEF WatchdogInv, InRun
<1>10. Holds(p)' = Holds(p)
  BY <1>1, <1>3 DEF Holds
<1>11. ~overlapped => Decided(p)'
  BY <1>1, <1>5, <1>9, <1>10 DEF Decided
<1>12. InRun'
  BY <1>1, <1>3, <1>8, <1>11 DEF InRun
<1>13. QED BY <1>4, <1>6, <1>7, <1>12 DEF WatchdogInv

\* A post, taken or lost, leaves the rest of the notice.
LEMMA RestOfNotice ==
    ASSUME WTypeOK, NEW p \in Processes, NEW c \in outbox[p].to,
           outbox' = [outbox EXCEPT ![p].to = @ \ {c}]
    PROVE  /\ outbox' \in [Processes -> Notices]
           /\ outbox'[p].kind = outbox[p].kind
           /\ outbox'[p].to = outbox[p].to \ {c}
           /\ c \in Channels
           /\ outbox[p].kind \in Alarms \cup {"resolved", "none"}
<1>1. outbox \in [Processes -> Notices] /\ outbox[p] \in Notices
  BY DEF WTypeOK
<1> DEFINE rest == [outbox[p] EXCEPT !.to = @ \ {c}]
<1>2. rest \in Notices /\ rest.kind = outbox[p].kind
      /\ rest.to = outbox[p].to \ {c} /\ c \in Channels
      /\ outbox[p].kind \in Alarms \cup {"resolved", "none"}
  BY <1>1 DEF Notices
<1>3. outbox' = [outbox EXCEPT ![p] = rest]
  BY <1>1
<1> HIDE DEF rest
<1>4. QED BY <1>1, <1>2, <1>3

(* A post that arrives changes what its channel believes, as the copy has recorded. *)
LEMMA PostKeeps ==
    ASSUME WatchdogInv, NEW p \in Processes, NEW c \in Channels, Post(p, c)
    PROVE  WatchdogInv'
<1>1. stage[p] = "deliver" /\ c \in outbox[p].to
      /\ outbox' = [outbox EXCEPT ![p].to = @ \ {c}]
      /\ UNCHANGED <<disk, stage, copy, condition, overlapped>>
  BY DEF Post
<1>2. /\ outbox' \in [Processes -> Notices]
      /\ outbox'[p].kind = outbox[p].kind
      /\ outbox'[p].to = outbox[p].to \ {c}
  BY <1>1, RestOfNotice DEF WatchdogInv
<1>3. missed' = missed \ {c}
      /\ \/ outbox[p].kind \in Alarms /\ heard' = [heard EXCEPT ![c] = "alarm"]
         \/ /\ outbox[p].kind = "resolved"
            /\ heard' = [heard EXCEPT ![c] = "all clear"]
  BY DEF Post, Alarms
<1>4. heard \in [Channels -> {"alarm", "all clear"}]
      /\ missed \in SUBSET Channels
  BY DEF WatchdogInv, WTypeOK
<1>5. WTypeOK'
  <2>1. heard' \in [Channels -> {"alarm", "all clear"}]
        /\ missed' \in SUBSET Channels
    BY <1>3, <1>4
  <2>2. QED BY <2>1, <1>1, <1>2 DEF WatchdogInv, WTypeOK
<1>6. OneAtATime'
  BY <1>1 DEF WatchdogInv, OneAtATime
<1>7. OnDisk'
  BY <1>1 DEF OnDisk
<1>8. Holds(p)' = disk /\ Holds(p) = disk
  BY <1>1 DEF Holds
<1>9. ASSUME ~overlapped PROVE Decided(p)'
  <2>1. Decided(p)
    BY <1>1, <1>9 DEF WatchdogInv, InRun
  <2>2. CASE outbox[p].kind \in Alarms
                /\ heard' = [heard EXCEPT ![c] = "alarm"]
    <3>1. Believers' = Believers \cup {c}
      BY <2>2, <1>3, <1>4 DEF Believers
    <3>2. OnRecord(disk, c)
      BY <1>1, <1>8, <2>1, <2>2 DEF Decided
    <3>3. outbox[p].kind # "resolved"
      BY <2>2 DEF Alarms
    <3>4. QED BY <1>1, <1>2, <1>8, <2>1, <3>1, <3>2, <3>3 DEF Decided
  <2>3. CASE /\ outbox[p].kind = "resolved"
             /\ heard' = [heard EXCEPT ![c] = "all clear"]
    <3>1. Believers' = Believers \ {c}
      BY <2>3, <1>3, <1>4 DEF Believers
    <3>2. outbox[p].kind \notin Alarms /\ outbox[p].kind # "fire"
      BY <2>3 DEF Alarms
    <3>3. QED BY <1>1, <1>2, <1>8, <2>1, <3>1, <3>2 DEF Decided
  <2>4. QED BY <1>3, <2>2, <2>3
<1>10. ~overlapped => \A q \in Processes : q # p => stage[q] = "off"
  BY <1>1 DEF WatchdogInv, OneAtATime
<1>11. InRun'
  BY <1>1, <1>9, <1>10 DEF InRun
<1>12. QED BY <1>5, <1>6, <1>7, <1>11 DEF WatchdogInv

(* A post that is lost leaves its channel with the belief it had. *)
LEMMA PostFailsKeeps ==
    ASSUME WatchdogInv, NEW p \in Processes, NEW c \in Channels,
           PostFails(p, c)
    PROVE  WatchdogInv'
<1>1. stage[p] = "deliver" /\ c \in outbox[p].to
      /\ outbox' = [outbox EXCEPT ![p].to = @ \ {c}]
      /\ missed' = missed \cup (Undelivered(p) \cap {c})
      /\ UNCHANGED <<disk, stage, copy, condition, heard, overlapped>>
  BY DEF PostFails
<1>2. /\ outbox' \in [Processes -> Notices]
      /\ outbox'[p].kind = outbox[p].kind
      /\ outbox'[p].to = outbox[p].to \ {c}
  BY <1>1, RestOfNotice DEF WatchdogInv
<1>3. WTypeOK'
  <2>1. missed' \in SUBSET Channels
    BY <1>1 DEF WatchdogInv, WTypeOK
  <2>2. QED BY <2>1, <1>1, <1>2 DEF WatchdogInv, WTypeOK
<1>4. OneAtATime'
  BY <1>1 DEF WatchdogInv, OneAtATime
<1>5. OnDisk'
  BY <1>1 DEF OnDisk
<1>6. ASSUME ~overlapped PROVE Decided(p)'
  <2>1. Decided(p)
    BY <1>1, <1>6 DEF WatchdogInv, InRun
  <2>2. Holds(p)' = disk /\ Holds(p) = disk
    BY <1>1 DEF Holds
  <2>3. Believers' \subseteq Believers
    BY <1>1 DEF Believers
  <2>4. outbox[p].kind = "resolved" => c \notin Believers'
    BY <1>1, <1>6 DEF Believers, Undelivered
  <2>5. QED BY <1>1, <1>2, <2>1, <2>2, <2>3, <2>4 DEF Decided
<1>7. ~overlapped => \A q \in Processes : q # p => stage[q] = "off"
  BY <1>1 DEF WatchdogInv, OneAtATime
<1>8. InRun'
  BY <1>1, <1>6, <1>7 DEF InRun
<1>9. QED BY <1>3, <1>4, <1>5, <1>8 DEF WatchdogInv

\* The end of a run, however it comes, if it leaves the believers on record.
LEMMA ExitKeeps ==
    ASSUME WatchdogInv, NEW p \in Processes, Exit(p), stage[p] # "off",
           missed' \in SUBSET Channels, missed \subseteq missed',
           ~overlapped => \A c \in Believers \ missed' : OnRecord(disk, c)
    PROVE  WatchdogInv'
<1>1. /\ stage' = [stage EXCEPT ![p] = "off"]
      /\ copy' = [copy EXCEPT ![p] = NoKey]
      /\ outbox' = [outbox EXCEPT ![p] = Nothing]
      /\ UNCHANGED <<disk, condition, heard>>
  BY DEF Exit
<1> DEFINE others == {q \in Processes \ {p} : stage[q] # "off"}
<1>2. overlapped' = (overlapped /\ ~Agreed(others))
  BY DEF Exit
<1>3. stage \in [Processes -> {"off", "advanced", "deliver"}]
  BY DEF WatchdogInv, WTypeOK
<1>4. stage' \in [Processes -> {"off", "advanced", "deliver"}]
      /\ stage'[p] = "off" /\ \A q \in Processes \ {p} : stage'[q] = stage[q]
  BY <1>1, <1>3
<1>5. WTypeOK'
  <2>1. Nothing \in Notices
    BY DEF Nothing, Notices
  <2>2. overlapped' \in BOOLEAN
    BY <1>2
  <2>3. QED BY <1>1, <1>4, <2>1, <2>2, NoKeyFacts DEF WatchdogInv, WTypeOK
<1>6. Believers' \subseteq Believers \ missed'
  BY <1>1 DEF Believers
<1>7. CASE overlapped'
  BY <1>5, <1>7 DEF WatchdogInv, OneAtATime, OnDisk, InRun
<1>8. CASE ~overlapped'
  <2>1. \A q \in Processes : stage'[q] = "off"
    <3>1. CASE overlapped
      BY <3>1, <1>2, <1>4, <1>8 DEF Agreed
    <3>2. CASE ~overlapped
      BY <3>2, <1>4 DEF WatchdogInv, OneAtATime
    <3>3. QED BY <3>1, <3>2
  <2>2. \A c \in Believers' : OnRecord(disk, c)
    <3>1. CASE overlapped
      <4>1. Believers = {}
        BY <3>1, <1>2, <1>8 DEF Agreed, Believers
      <4>2. QED BY <4>1, <1>6
    <3>2. CASE ~overlapped
      BY <3>2, <1>6
    <3>3. QED BY <3>1, <3>2
  <2>3. QED BY <1>1, <1>5, <2>1, <2>2
            DEF WatchdogInv, OneAtATime, OnDisk, InRun
<1>9. QED BY <1>7, <1>8

\* A run that has not saved leaves the file, which knows all believers, alone.
LEMMA UnsavedRun ==
    ASSUME WatchdogInv, NEW p \in Processes, stage[p] = "advanced", ~overlapped
    PROVE  \A c \in Believers : OnRecord(disk, c)
BY DEF WatchdogInv, OneAtATime, OnDisk

(* The end of a run changes only its process. *)
LEMMA FinishKeeps ==
    ASSUME WatchdogInv, NEW p \in Processes, Finish(p) PROVE WatchdogInv'
<1>1. stage[p] = "deliver" /\ outbox[p].to = {} /\ Exit(p) /\ missed' = missed
  BY DEF Finish
<1>2. ~overlapped => \A c \in Believers : OnRecord(disk, c)
  BY <1>1 DEF WatchdogInv, InRun, Decided, Holds
<1>3. missed \in SUBSET Channels
  BY DEF WatchdogInv, WTypeOK
<1>4. QED BY <1>1, <1>2, <1>3, ExitKeeps

(* A failed save ends the run before anything was posted. *)
LEMMA SaveFailsKeeps ==
    ASSUME WatchdogInv, NEW p \in Processes, SaveFails(p) PROVE WatchdogInv'
<1>1. stage[p] = "advanced" /\ Exit(p) /\ missed' = missed
  BY DEF SaveFails
<1>2. missed \in SUBSET Channels
  BY DEF WatchdogInv, WTypeOK
<1>3. QED BY <1>1, <1>2, UnsavedRun, ExitKeeps

(* What a killed run had still to post is lost; what it saved stays. *)
LEMMA KillKeeps ==
    ASSUME WatchdogInv, NEW p \in Processes, Kill(p) PROVE WatchdogInv'
<1>1. stage[p] # "off" /\ Exit(p)
      /\ missed' = missed \cup (IF stage[p] = "deliver" THEN Undelivered(p)
                                                        ELSE {})
  BY DEF Kill
<1>2. missed \in SUBSET Channels /\ outbox[p] \in Notices
      /\ stage[p] \in {"off", "advanced", "deliver"}
  BY DEF WatchdogInv, WTypeOK
<1>3. missed' \in SUBSET Channels /\ missed \subseteq missed'
  BY <1>1, <1>2 DEF Undelivered, Notices
<1>4. ~overlapped => \A c \in Believers \ missed' : OnRecord(disk, c)
  <2>1. CASE stage[p] = "advanced"
    BY <2>1, UnsavedRun
  <2>2. CASE stage[p] = "deliver"
    BY <2>2, <1>1 DEF WatchdogInv, InRun, Decided, Holds, Undelivered
  <2>3. QED BY <1>1, <1>2, <2>1, <2>2
<1>5. QED BY <1>1, <1>3, <1>4, ExitKeeps

-----------------------------------------------------------------------------
(* The world *)

(* Time only lets records sink. *)
LEMMA TickKeeps == ASSUME WatchdogInv, Tick PROVE WatchdogInv'
<1>1. disk' = Older(disk) /\ copy' = [p \in Processes |-> Older(copy[p])]
      /\ UNCHANGED <<stage, outbox, condition, heard, missed, overlapped>>
  BY DEF Tick
<1>2. disk \in Key /\ \A p \in Processes : copy[p] \in Key
  BY DEF WatchdogInv, WTypeOK
<1>3. disk' \in Key /\ \A c : OnRecord(disk', c) <=> OnRecord(disk, c)
  BY <1>1, <1>2, OlderKey
<1>4. ASSUME NEW p \in Processes
      PROVE  copy'[p] \in Key /\ \A c : OnRecord(copy'[p], c)
                                            <=> OnRecord(copy[p], c)
  BY <1>1, <1>2, OlderKey
<1>5. WTypeOK'
  BY <1>1, <1>3, <1>4 DEF WatchdogInv, WTypeOK
<1>6. Believers' = Believers
  BY <1>1 DEF Believers
<1>7. OneAtATime' /\ OnDisk'
  BY <1>1, <1>3, <1>6 DEF WatchdogInv, OneAtATime, OnDisk
<1>8. ASSUME NEW p \in Processes, Decided(p) PROVE Decided(p)'
  <2>1. \A c : OnRecord(Holds(p)', c) <=> OnRecord(Holds(p), c)
    BY <1>1, <1>3, <1>4 DEF Holds
  <2>2. QED BY <1>1, <1>6, <1>8, <2>1 DEF Decided
<1>9. InRun'
  BY <1>1, <1>8 DEF WatchdogInv, InRun
<1>10. QED BY <1>5, <1>7, <1>9 DEF WatchdogInv

(* A lost file is a lost record, and said so. *)
LEMMA LoseStateKeeps == ASSUME WatchdogInv, LoseState PROVE WatchdogInv'
<1>1. /\ \A p \in Processes : stage[p] = "off"
      /\ disk' = NoKey
      /\ missed' = IF overlapped THEN {}
                   ELSE missed \cup {c \in Channels : heard[c] = "alarm"}
      /\ UNCHANGED <<stage, copy, outbox, condition, heard, overlapped>>
  BY DEF LoseState, memory
<1>2. WTypeOK'
  BY <1>1, NoKeyFacts DEF WatchdogInv, WTypeOK
<1>3. ~overlapped => Believers' = {}
  BY <1>1 DEF Believers
<1>4. QED BY <1>1, <1>2, <1>3 DEF WatchdogInv, OneAtATime, OnDisk, InRun

(* That nothing fails any more changes no record. *)
LEMMA CalmDownKeeps == ASSUME WatchdogInv, CalmDown PROVE WatchdogInv'
<1>1. condition' \in {Fine} \cup Levels
      /\ UNCHANGED <<disk, stage, copy, outbox, heard, missed, overlapped>>
  BY DEF CalmDown, memory
<1>2. WTypeOK'
  BY <1>1 DEF WatchdogInv, WTypeOK
<1>3. Believers' = Believers
  BY <1>1 DEF Believers
<1>4. \A p \in Processes : Decided(p) => Decided(p)'
  BY <1>1, <1>3 DEF Decided, Holds
<1>5. QED BY <1>1, <1>2, <1>3, <1>4
          DEF WatchdogInv, OneAtATime, OnDisk, InRun

(* The invariant is inductive: one step per action. *)
LEMMA WatchdogStep == WatchdogInv /\ [Next]_vars => WatchdogInv'
<1> SUFFICES ASSUME WatchdogInv, [Next]_vars PROVE WatchdogInv'
  OBVIOUS
<1>1. CASE \E p \in Processes : Start(p)
  BY <1>1, StartKeeps
<1>2. ASSUME NEW p \in Processes, Steps(p) PROVE WatchdogInv'
  <2>1. CASE Start(p)
    BY <2>1, StartKeeps
  <2>2. CASE Save(p)
    BY <2>2, SaveKeeps
  <2>3. CASE \E c \in Channels : Post(p, c)
    BY <2>3, PostKeeps
  <2>4. CASE Finish(p)
    BY <2>4, FinishKeeps
  <2>5. QED BY <1>2, <2>1, <2>2, <2>3, <2>4 DEF Steps
<1>3. CASE \E p \in Processes, c \in Channels : PostFails(p, c)
  BY <1>3, PostFailsKeeps
<1>4. CASE \E p \in Processes : SaveFails(p) \/ Kill(p)
  BY <1>4, SaveFailsKeeps, KillKeeps
<1>5. CASE Tick \/ LoseState \/ CalmDown
  BY <1>5, TickKeeps, LoseStateKeeps, CalmDownKeeps
<1>6. CASE UNCHANGED vars
  <2>1. UNCHANGED <<disk, stage, copy, outbox, condition, heard, missed,
                    overlapped>>
    BY <1>6 DEF vars, memory
  <2>2. WTypeOK'
    BY <2>1 DEF WatchdogInv, WTypeOK
  <2>3. Believers' = Believers
    BY <2>1 DEF Believers
  <2>4. \A p \in Processes : Decided(p) => Decided(p)'
    BY <2>1, <2>3 DEF Decided, Holds
  <2>5. QED BY <2>1, <2>2, <2>3, <2>4
            DEF WatchdogInv, OneAtATime, OnDisk, InRun
<1>7. QED BY <1>1, <1>2, <1>3, <1>4, <1>5, <1>6 DEF Next

-----------------------------------------------------------------------------
(* The theorems *)

\* Who is on record, in every reachable state: in the file between runs, in the
\* file or in what is still to be posted during one, as long as runs do not
\* overlap; however runs were killed, saves failed and posts got lost.
THEOREM WatchdogInvariant == Spec => []WatchdogInv
BY InitHolds, WatchdogStep, PTL DEF Spec

\* Whom the file forgets is never told of the end: between runs, every channel
\* that believes in an alarm is on record for the all-clear, unless it lost one
\* (Advance's NotifiedTargets, saved before the first post).
THEOREM BelieversOnRecord == Spec => []AlarmsOnRecord
<1>1. WatchdogInv => AlarmsOnRecord
  BY DEF WatchdogInv, OnDisk, Believers, OnRecord, AlarmsOnRecord
<1>2. QED BY <1>1, WatchdogInvariant, PTL

\* A channel that believes in the alarm is not sent its FIRE again, unless runs
\* overlapped or it lost the all-clear in between.
THEOREM NoSecondFire == Spec => FiresOnce
<1>1. ASSUME WatchdogInv, NEW p \in Processes, NEW c \in Channels,
             Post(p, c), outbox[p].kind = "fire", heard[c] = "alarm"
      PROVE  overlapped \/ c \in missed
  <2>1. stage[p] = "deliver" /\ c \in outbox[p].to
    BY <1>1 DEF Post
  <2>2. ~overlapped => outbox[p].to \cap Believers = {}
    BY <1>1, <2>1 DEF WatchdogInv, InRun, Decided
  <2>3. QED BY <1>1, <2>1, <2>2 DEF Believers
<1>2. WatchdogInv => [\A p \in Processes, c \in Channels :
          Post(p, c) /\ outbox[p].kind = "fire" /\ heard[c] = "alarm"
              => overlapped \/ c \in missed]_vars
  BY <1>1
<1>3. QED BY <1>2, WatchdogInvariant, PTL DEF FiresOnce
=============================================================================
