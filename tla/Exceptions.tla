------------------------------ MODULE Exceptions ------------------------------
(***************************************************************************)
(* The [[exceptions]] rules of the configuration, applied to what the      *)
(* checks observed (internal/checks/except.go).                            *)
(*                                                                         *)
(* A rule is a record [match, mute, thresholds, retier, exclude, expires]. *)
(* Its match maps each field the operator gave to the set of values that   *)
(* the field's pattern accepts; thresholds and retier map check ids.  What *)
(* a rule is matched against, a target, maps every field to the values     *)
(* offered under it, at most one but for a container's service.            *)
(* An observation is a record [check, scope, of, health, tier, value,      *)
(* target, suppressed], where "of" is the container it is linked to.       *)
(***************************************************************************)
EXTENDS Naturals, Sequences, SequencesExt

CONSTANTS
    Day,        \* length of a day in units of the wall clock
    NoExpiry,   \* "expires" of a rule without one
    NoContainer \* "of" of an observation that is of no container

Tiers == {"WARN", "ALERT", "PAGE"}

HostScopedCheckIDs ==
    {"mem_pressure", "committed_as", "declared_overcommit", "disk_fill",
     "disk_inodes", "swap_thrash"}

PerContainerCheckIDs == {"unbounded_mem", "crashloop"}

\* What Validate lets through.
ValidRule(r) ==
    /\ DOMAIN r.match # {}
    /\ r.mute \cup DOMAIN r.thresholds \cup DOMAIN r.retier # {} \/ r.exclude
    /\ r.mute \subseteq PerContainerCheckIDs \cup {"*"}
    /\ DOMAIN r.thresholds \cup DOMAIN r.retier \subseteq PerContainerCheckIDs
    /\ \A id \in DOMAIN r.retier : r.retier[id] \in Tiers

-----------------------------------------------------------------------------
(* Which rules apply, and to what *)

\* ruleExpired gone wrong: compares with the start of the last day.
ExpiredOnLastDay(r, now) == r.expires # NoExpiry /\ now >= r.expires * Day

\* A rule holds through the whole of its last day.
RuleExpired(r, now) == r.expires # NoExpiry /\ now >= (r.expires + 1) * Day

\* All the patterns of a rule accept what the target offers.
MatchSpec(m, t) == \A f \in DOMAIN m : m[f] \cap t[f] # {}

\* A container offers its short service name and its service key.
TargetFromContainer(c) ==
    [name |-> {c.name}, image |-> {c.image}, service |-> {c.service, c.key},
     label |-> c.labels]

\* An observation only carries the short service name.
TargetFromObs(c) == [TargetFromContainer(c) EXCEPT !.service = {c.service}]

\* The fields of an observation that is of no container are empty strings.
EmptyTarget ==
    [name |-> {""}, image |-> {""}, service |-> {""}, label |-> {}]

ExcludedFromBudget(rules, now, c) ==
    \E i \in DOMAIN rules :
        /\ rules[i].exclude /\ ~RuleExpired(rules[i], now)
        /\ MatchSpec(rules[i].match, TargetFromContainer(c))

-----------------------------------------------------------------------------
(* What one rule does to one observation *)

\* A mute gone wrong: it makes the breach look healthy.
MutedAway(r, o) ==
    IF {"*", o.check} \cap r.mute # {}
      THEN [o EXCEPT !.suppressed = TRUE, !.health = "OK"] ELSE o

Muted(r, o) ==
    [o EXCEPT !.suppressed = @ \/ {"*", o.check} \cap r.mute # {}]

\* The checks with one threshold that more is worse than.
Primary == {"crashloop"}

Redecided(r, o) ==
    IF o.check \notin DOMAIN r.thresholds \cap Primary THEN o
    ELSE IF o.value >= r.thresholds[o.check] THEN [o EXCEPT !.health = "BAD"]
    ELSE [o EXCEPT !.health = "OK", !.tier = "WARN"]

Retiered(r, o) ==
    IF o.check \in DOMAIN r.retier /\ o.health = "BAD"
      THEN [o EXCEPT !.tier = r.retier[o.check]] ELSE o

ApplyRule(r, o) == Retiered(r, Redecided(r, Muted(r, o)))

ExpiryWarn(i) ==
    [check |-> "exception_expired", scope |-> i, of |-> NoContainer,
     health |-> "BAD", tier |-> "WARN", value |-> 0, target |-> EmptyTarget,
     suppressed |-> FALSE]

\* What the live rules that match make of one, in the order of the configuration.
Transformed(rules, now, o) ==
    LET Step(p, r) == IF ~RuleExpired(r, now) /\ MatchSpec(r.match, p.target)
                        THEN ApplyRule(r, p) ELSE p
    IN  IF o.check \in HostScopedCheckIDs THEN o ELSE FoldLeft(Step, o, rules)

\* All of them; then a warning for every rule that is not live any more.
Apply(rules, now, obs) ==
    {Transformed(rules, now, o) : o \in obs}
      \cup {ExpiryWarn(i) : i \in {j \in DOMAIN rules : RuleExpired(rules[j], now)}}
=============================================================================
