----------------------------- MODULE Configuration -----------------------------
(***************************************************************************)
(* The configuration file: what Decode makes of it, what Validate lets     *)
(* through, and the settings the rest of the program reads off it          *)
(* (internal/config, flapSamplesFor and cooldownFor of internal/alert).    *)
(*                                                                         *)
(* Percentages are whole numbers, ratios are in hundredths, durations are  *)
(* in any one unit.  A threshold may be NaN, which TOML has and which no   *)
(* comparison holds of.  An optional setting left out is Unset.            *)
(***************************************************************************)
EXTENDS Exceptions, Integers

CONSTANTS
    NaN,            \* the float that is not a number
    Unset,          \* an optional setting that was left out
    Units,          \* what a size's suffix multiplies by: 1024^n, scaled down
    MaxBytes        \* the greatest int64, scaled down as well

ASSUME ConfigurationAssumption ==
    /\ NaN \notin Int /\ Unset \notin Int
    /\ DOMAIN Units = {"", "k", "m", "g", "t"}
    /\ \A u \in DOMAIN Units : Units[u] \in Nat \ {0}
    /\ MaxBytes \in Nat

Phase1CheckIDs == HostScopedCheckIDs \cup PerContainerCheckIDs

\* The catalogue also has the checks of later phases.
Exceptable == PerContainerCheckIDs \cup
    {"oom_kill", "cpu_throttle", "container_health", "single_replica",
     "no_restart_policy", "no_healthcheck", "hygiene"}

\* ParseTier takes any case; "page" stands for the spellings it forgives.
ParseTier == [WARN |-> "WARN", ALERT |-> "ALERT", PAGE |-> "PAGE", page |-> "PAGE"]
IsTier(s) == s \in DOMAIN ParseTier

-----------------------------------------------------------------------------
(* Decode *)

\* ParseByteSize: the text [number, unit] of a size, with or without a final b, its
\* number in hundredths.  A fraction of a byte is cut off.
\* A negative number or one that does not parse is an error.  What no integer can
\* be is converted as the machine pleases: to the least one, the greatest or 0.
ByteSizes(text) ==
    IF text.number = NaN THEN {0, -MaxBytes - 1}
    ELSE IF text.number \notin Nat THEN {}
    ELSE LET bytes == (text.number * Units[text.unit]) \div 100
         IN  IF bytes <= MaxBytes THEN {bytes} ELSE {MaxBytes, -MaxBytes - 1}

\* A webhook may be a reference to the environment, which may not have it.
Expanded(url, secret) == IF url = "${URL}" THEN secret ELSE url

WithUrls(c, secret) ==
    LET WithUrl(target) == [target EXCEPT !.url = Expanded(@, secret)]
    IN  [c EXCEPT !.targets = [name \in DOMAIN c.targets |-> WithUrl(c.targets[name])]]

\* All that one file may come to; nothing if it does not parse.
Decode(c, secret) ==
    IF ~c.parses THEN {}
    ELSE {[WithUrls(c, secret) EXCEPT !.declared_overcommit.headroom_floor = floor] :
             floor \in ByteSizes(c.declared_overcommit.headroom_floor)}

-----------------------------------------------------------------------------
(* Validate *)

Lt(a, b) == NaN \notin {a, b} /\ a < b
AtLeast(a, b) == NaN \notin {a, b} /\ a >= b

\* requirePercent and requirePositive reject what they find out of range, so
\* they let NaN pass; requireOrdered demands an order, so it does not.
RequirePercent(v) == ~(AtLeast(0, v) \/ Lt(100, v))
RequirePositive(v) == ~AtLeast(0, v)
RequireOrdered(lo, hi) == Lt(lo, hi)

ValidSources(c) ==
    /\ c.unknown = {}
    /\ "" \notin {c.proc_root, c.cgroup_root, c.socket}
    /\ c.inspect_concurrency > 0 /\ c.collect_deadline > 0

ValidTargets(c) ==
    /\ \A name \in DOMAIN c.targets :
          /\ c.targets[name].url # ""
          /\ c.targets[name].min_tier = "" \/ IsTier(c.targets[name].min_tier)
    /\ \A tier \in Tiers : c.routing[tier] \subseteq DOMAIN c.targets

ValidAlerting(c) ==
    /\ c.resolve_samples >= 1
    /\ \A tier \in Tiers : c.flap_samples[tier] >= 1 /\ c.cooldown[tier] >= 0

\* MemPressureValid gone wrong: the middle of the three is not looked at.
MemPressureEnds(mp) ==
    mp.enabled => /\ RequirePercent(mp.warn) /\ RequirePercent(mp.page)
                  /\ RequireOrdered(mp.warn, mp.page)

MemPressureValid(mp) ==
    mp.enabled => /\ RequirePercent(mp.warn) /\ RequirePercent(mp.page)
                  /\ RequireOrdered(mp.warn, mp.alert)
                  /\ RequireOrdered(mp.alert, mp.page)

CommittedASValid(ca) ==
    ca.enabled => /\ RequireOrdered(ca.warn, ca.alert) /\ RequirePositive(ca.warn)
                  /\ ~Lt(ca.commit_vs_swap_ratio, 0)

DeclaredOvercommitValid(do) ==
    do.enabled => /\ ~Lt(do.headroom_reserve_pct, 0)
                  /\ ~AtLeast(do.headroom_reserve_pct, 100)
                  /\ do.headroom_floor >= 0

DiskFillValid(df) ==
    df.enabled => /\ df.paths # <<>>
                  /\ RequirePercent(df.warn) /\ RequirePercent(df.alert)
                  /\ RequireOrdered(df.warn, df.alert)
                  /\ ~Lt(df.days_to_full_alert, 0)

ValidChecks(c) ==
    /\ MemPressureValid(c.mem_pressure)
    /\ CommittedASValid(c.committed_as)
    /\ DeclaredOvercommitValid(c.declared_overcommit)
    /\ DiskFillValid(c.disk_fill)
    /\ c.disk_inodes.enabled => RequirePercent(c.disk_inodes.alert)
    /\ c.swap_thrash.enabled => RequirePositive(c.swap_thrash.pswpin_pages_per_sec)
    /\ c.crashloop.enabled => c.crashloop.restarts > 0 /\ c.crashloop.window > 0

ValidOverrides(c) ==
    \A id \in Phase1CheckIDs :
        LET ov == c.overrides[id]
        IN  /\ ov.tier = Unset \/ IsTier(ov.tier)
            /\ ov.flap_samples = Unset \/ ov.flap_samples >= 1
            /\ ov.cooldown = Unset \/ ov.cooldown >= 0

\* A rule of the file: its patterns are sequences of characters, "" if left out.
ValidException(ex) ==
    /\ ex.reason # ""
    /\ \E f \in DOMAIN ex.match : ex.match[f] # <<>>
    /\ ex.match.label # <<>> => \E i \in DOMAIN ex.match.label : ex.match.label[i] = "="
    /\ ex.mute \cup DOMAIN ex.thresholds \cup DOMAIN ex.retier # {} \/ ex.exclude
    /\ ex.mute \subseteq Exceptable \cup {"*"}
    /\ DOMAIN ex.thresholds \cup DOMAIN ex.retier \subseteq Exceptable
    /\ \A id \in DOMAIN ex.retier : IsTier(ex.retier[id])
    /\ ex.expires # "garbage"

Validate(c) ==
    /\ ValidSources(c) /\ ValidTargets(c) /\ ValidAlerting(c)
    /\ ValidChecks(c) /\ ValidOverrides(c)
    /\ \A i \in DOMAIN c.exceptions : ValidException(c.exceptions[i])

-----------------------------------------------------------------------------
(* What is read off a configuration *)

\* A check without a block of its own has no overrides.
OverridesFor(c, check) ==
    IF check \in Phase1CheckIDs THEN c.overrides[check]
    ELSE [flap_samples |-> Unset, cooldown |-> Unset, tier |-> Unset]

FlapSamplesOf(c, check, tier) ==
    IF OverridesFor(c, check).flap_samples # Unset
      THEN OverridesFor(c, check).flap_samples ELSE c.flap_samples[tier]

CooldownOf(c, check, tier) ==
    IF OverridesFor(c, check).cooldown # Unset
      THEN OverridesFor(c, check).cooldown ELSE c.cooldown[tier]

\* The enabled ones of the host checks.
Enabled(c) == {check \in HostScopedCheckIDs : c[check].enabled}
=============================================================================
