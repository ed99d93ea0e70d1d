---------------------------- MODULE SentinelProofs ----------------------------
(***************************************************************************)
(* Theorems about Sentinel, and about what it is made of: the exceptions   *)
(* as they are folded over an observation, the collection from Docker and  *)
(* the checks that walk the containers.                                    *)
(***************************************************************************)
EXTENDS Sentinel, FiniteSetTheorems, WellFoundedInduction, TLAPS

-----------------------------------------------------------------------------
(* Natural numbers *)

\* Every nonempty set of natural numbers has a least element.
LEMMA Least ==
    ASSUME NEW T, T \subseteq Nat, T # {}
    PROVE  \E x \in T : \A y \in T : x <= y
<1>1. PICK x \in T : \A y \in T : <<y, x>> \notin OpToRel(<, Nat)
  BY WFMin, NatLessThanWellFounded, Zenon
<1>2. \A y \in T : ~ (y < x)
  BY <1>1, Zenon DEF OpToRel
<1> QED
  BY <1>2

\* A set that has 0, and with every number its successor, has them all.
LEMMA SetInduction ==
    ASSUME NEW S, 0 \in S, \A n \in Nat : n \in S => n + 1 \in S
    PROVE  Nat \subseteq S
<1> DEFINE T == Nat \ S
<1>1. SUFFICES ASSUME T # {} PROVE FALSE
  OBVIOUS
<1>2. PICK x \in T : \A y \in T : x <= y
  <2> T \subseteq Nat
    OBVIOUS
  <2> HIDE DEF T
  <2> QED
    BY <1>1, Least
<1>3. x # 0 /\ x - 1 \in Nat
  OBVIOUS
<1>4. x - 1 \in S => x \in S
  BY <1>3
<1> QED
  BY <1>2, <1>3, <1>4

\* The greatest element of a nonempty set of numbers that a number bounds.
LEMMA MaxBelow ==
    ASSUME NEW n \in Nat, NEW s \in SUBSET (1..n), s # {}
    PROVE  Max(s) \in s /\ \A y \in s : Max(s) >= y
<1> DEFINE T == {m \in Nat : \A y \in s : m >= y}
<1>1. PICK m \in T : \A k \in T : m <= k
  <2> T \subseteq Nat /\ n \in T
    OBVIOUS
  <2> HIDE DEF T
  <2> QED
    BY Least
<1>2. m \in s
  <2>1. SUFFICES ASSUME m \notin s PROVE FALSE
    OBVIOUS
  <2>2. PICK y \in s : TRUE
    OBVIOUS
  <2>3. m - 1 \in Nat
    OBVIOUS
  <2>4. m - 1 \in T
    BY <2>1, <2>3
  <2> QED
    BY <2>4, <1>1
<1> QED
  BY <1>2 DEF Max

-----------------------------------------------------------------------------
(* The exceptions, folded over an observation *)

\* What one rule makes of an observation, if it is live and matches.
Ruled(r, now, o) ==
    IF ~RuleExpired(r, now) /\ MatchSpec(r.match, o.target)
      THEN ApplyRule(r, o) ELSE o

\* g gives for every set of the first n rules what they make of o.
IsFold(g, rules, now, o, n) ==
    g = [s \in SUBSET (1..n) |->
            IF s = {} THEN o ELSE Ruled(rules[Max(s)], now, g[s \ {Max(s)}])]

\* There is such a function.
LEMMA FoldExists ==
    ASSUME NEW rules, NEW now, NEW o, NEW n \in Nat
    PROVE  \E g : IsFold(g, rules, now, o, n)
<1> DEFINE S == {m \in Nat : \E g : IsFold(g, rules, now, o, m)}
<1>1. 0 \in S
  <2> DEFINE g == [s \in SUBSET (1..0) |-> o]
  <2>1. 1..0 = {}
    OBVIOUS
  <2>2. IsFold(g, rules, now, o, 0)
    BY <2>1 DEF IsFold
  <2> QED
    BY <2>2
<1>2. ASSUME NEW m \in Nat, m \in S PROVE m + 1 \in S
  <2>1. PICK g : IsFold(g, rules, now, o, m)
    BY <1>2
  <2> DEFINE h == [s \in SUBSET (1..(m + 1)) |->
                      IF m + 1 \in s THEN Ruled(rules[m + 1], now, g[s \ {m + 1}])
                      ELSE g[s]]
  <2>2. ASSUME NEW s \in SUBSET (1..(m + 1))
        PROVE  h[s] = IF s = {} THEN o
                      ELSE Ruled(rules[Max(s)], now, h[s \ {Max(s)}])
    <3>1. CASE m + 1 \in s
      <4>1. m + 1 = Max(s)
        <5>1. s # {} /\ m + 1 \in Nat
          BY <3>1
        <5>2. Max(s) \in s /\ Max(s) >= m + 1
          BY <3>1, <5>1, MaxBelow
        <5>3. Max(s) \in 1..(m + 1)
          BY <5>2
        <5> QED
          BY <5>2, <5>3
      <4>2. s \ {m + 1} \in SUBSET (1..m) /\ s \ {m + 1} \in SUBSET (1..(m + 1))
        OBVIOUS
      <4>3. h[s \ {m + 1}] = g[s \ {m + 1}]
        BY <4>2
      <4>4. h[s] = Ruled(rules[m + 1], now, g[s \ {m + 1}])
        BY <3>1
      <4> QED
        BY <3>1, <4>1, <4>3, <4>4
    <3>2. CASE m + 1 \notin s
      <4>1. s \in SUBSET (1..m)
        BY <3>2
      <4>2. h[s] = g[s]
        BY <3>2
      <4>3. s \ {Max(s)} \in SUBSET (1..(m + 1)) /\ m + 1 \notin s \ {Max(s)}
        BY <3>2
      <4>4. h[s \ {Max(s)}] = g[s \ {Max(s)}]
        BY <4>3
      <4>5. g[s] = IF s = {} THEN o
                   ELSE Ruled(rules[Max(s)], now, g[s \ {Max(s)}])
        BY <2>1, <4>1 DEF IsFold
      <4> QED
        BY <4>2, <4>4, <4>5
    <3> QED
      BY <3>1, <3>2
  <2>3. IsFold(h, rules, now, o, m + 1)
    <3> DEFINE k == [s \in SUBSET (1..(m + 1)) |->
                        IF s = {} THEN o
                        ELSE Ruled(rules[Max(s)], now, h[s \ {Max(s)}])]
    <3>1. \A s \in SUBSET (1..(m + 1)) : h[s] = k[s]
      BY <2>2
    <3>2. h = k
      <4> HIDE <2>2
      <4> QED
        BY <3>1
    <3> HIDE DEF h
    <3> QED
      BY <3>2 DEF IsFold
  <2> QED
    BY <2>3
<1>3. Nat \subseteq S
  <2> HIDE DEF S
  <2> QED
    BY <1>1, <1>2, SetInduction
<1> QED
  BY <1>3

\* What the rules make of an observation, one rule after another.
RuledInTurn(p, rules, now, o) ==
    /\ p[0] = o
    /\ \A k \in DOMAIN rules : p[k] = Ruled(rules[k], now, p[k - 1])

\* Transformed is where that ends.
LEMMA TransformedIsLast ==
    ASSUME NEW rules, NEW now, NEW o, Len(rules) \in Nat,
           DOMAIN rules = 1..Len(rules), o.check \notin HostScopedCheckIDs
    PROVE  \E p : RuledInTurn(p, rules, now, o) /\ Transformed(rules, now, o) = p[Len(rules)]
<1> DEFINE n == Len(rules)
           g == CHOOSE g : IsFold(g, rules, now, o, n)
           p == [k \in 0..n |-> g[1..k]]
<1>1. IsFold(g, rules, now, o, n)
  BY FoldExists
<1>2. Transformed(rules, now, o) = g[1..n]
  BY DEF Transformed, FoldLeft, MapThenFoldSet, IsFold, Ruled
<1>3. p[0] = o
  <2>1. 1..0 = {} /\ p[0] = g[1..0] /\ {} \in SUBSET (1..n)
    OBVIOUS
  <2> QED
    BY <1>1, <2>1 DEF IsFold
<1>4. ASSUME NEW k \in 1..n PROVE p[k] = Ruled(rules[k], now, p[k - 1])
  <2>1. 1..k \in SUBSET (1..n) /\ 1..k # {} /\ k \in 1..k
    OBVIOUS
  <2>2. Max(1..k) = k
    <3>1. Max(1..k) \in 1..k /\ Max(1..k) >= k
      BY <2>1, MaxBelow
    <3> QED
      BY <3>1
  <2>3. (1..k) \ {k} = 1..(k - 1)
    OBVIOUS
  <2>4. g[1..k] = Ruled(rules[Max(1..k)], now, g[(1..k) \ {Max(1..k)}])
    BY <1>1, <2>1 DEF IsFold
  <2>5. p[k] = g[1..k] /\ p[k - 1] = g[1..(k - 1)]
    OBVIOUS
  <2> QED
    BY <2>2, <2>3, <2>4, <2>5
<1>5. p[n] = g[1..n]
  OBVIOUS
<1> QED
  BY <1>2, <1>3, <1>4, <1>5 DEF RuledInTurn

Fields == {"check", "scope", "of", "health", "tier", "value", "target", "suppressed"}

\* A rule that is live and matches an observation but asks for more.
Overrules(r, now, o) ==
    /\ ~RuleExpired(r, now) /\ MatchSpec(r.match, o.target)
    /\ o.check \in DOMAIN r.thresholds /\ ~(o.value >= r.thresholds[o.check])

\* q is still about what o is about, and was measured the same.
SameThing(o, q) ==
    /\ DOMAIN q = Fields
    /\ q.check = o.check /\ q.scope = o.scope /\ q.of = o.of
    /\ q.value = o.value /\ q.target = o.target

\* What some of the rules may have made of o.
Tempered(rules, now, o, q) ==
    /\ SameThing(o, q)
    /\ o.check \notin Primary => q.health = o.health
    /\ o.health = "BAD" =>
          q.health = "BAD" \/ \E i \in DOMAIN rules : Overrules(rules[i], now, o)
    /\ (\A i \in DOMAIN rules :
            RuleExpired(rules[i], now) \/ ~MatchSpec(rules[i].match, o.target)) => q = o

\* A rule rewrites the health, the tier and the mark of a mute; the health of a
\* crashloop only, and away from BAD only below a threshold of its own.
LEMMA RuledTempers ==
    ASSUME NEW r, NEW now, NEW o, DOMAIN o = Fields
    PROVE  /\ SameThing(o, Ruled(r, now, o))
           /\ o.check \notin Primary => Ruled(r, now, o).health = o.health
           /\ o.health = "BAD" =>
                 Ruled(r, now, o).health = "BAD" \/ Overrules(r, now, o)
<1>1. Muted(r, o).check = o.check /\ Muted(r, o).health = o.health
      /\ SameThing(o, Muted(r, o))
  BY DEF Muted, SameThing, Fields
<1>2. ASSUME NEW q, SameThing(o, q)
      PROVE  /\ SameThing(o, Redecided(r, q))
             /\ o.check \notin Primary => Redecided(r, q).health = q.health
             /\ \/ Redecided(r, q).health = q.health
                \/ Redecided(r, q).health = "BAD"
                \/ o.check \in DOMAIN r.thresholds /\ ~(o.value >= r.thresholds[o.check])
  BY <1>2 DEF Redecided, SameThing, Fields
<1>3. ASSUME NEW q, SameThing(o, q)
      PROVE  SameThing(o, Retiered(r, q)) /\ Retiered(r, q).health = q.health
  BY <1>3 DEF Retiered, SameThing, Fields
<1>4. SameThing(o, o)
  BY DEF SameThing
<1> QED
  BY <1>1, <1>2, <1>3, <1>4 DEF Ruled, ApplyRule, Overrules

\* So do all of them, whatever their number and their order.
LEMMA TransformedTempers ==
    ASSUME NEW rules, NEW now, NEW o, Len(rules) \in Nat,
           DOMAIN rules = 1..Len(rules), DOMAIN o = Fields
    PROVE  Tempered(rules, now, o, Transformed(rules, now, o))
<1> DEFINE n == Len(rules)
<1>1. Tempered(rules, now, o, o)
  BY DEF Tempered, SameThing
<1>2. CASE o.check \in HostScopedCheckIDs
  BY <1>1, <1>2 DEF Transformed
<1>3. CASE o.check \notin HostScopedCheckIDs
  <2>1. PICK p : /\ RuledInTurn(p, rules, now, o)
                 /\ Transformed(rules, now, o) = p[n]
    BY <1>3, TransformedIsLast
  <2> DEFINE S == {k \in Nat : k <= n => Tempered(rules, now, o, p[k])}
  <2>2. 0 \in S
    BY <1>1, <2>1 DEF RuledInTurn
  <2>3. ASSUME NEW k \in Nat, k \in S PROVE k + 1 \in S
    <3>1. SUFFICES ASSUME k + 1 <= n PROVE Tempered(rules, now, o, p[k + 1])
      OBVIOUS
    <3>2. Tempered(rules, now, o, p[k])
      BY <2>3, <3>1
    <3>3. k + 1 \in DOMAIN rules /\ (k + 1) - 1 = k
      BY <3>1
    <3>4. p[k + 1] = Ruled(rules[k + 1], now, p[k])
      BY <2>1, <3>3 DEF RuledInTurn
    <3> DEFINE r == rules[k + 1]
               q == p[k]
    <3>5. /\ SameThing(q, Ruled(r, now, q))
          /\ q.check \notin Primary => Ruled(r, now, q).health = q.health
          /\ q.health = "BAD" =>
                Ruled(r, now, q).health = "BAD" \/ Overrules(r, now, q)
      <4> DOMAIN q = Fields
        BY <3>2 DEF Tempered, SameThing
      <4> HIDE DEF q, r
      <4> QED
        BY RuledTempers
    <3>6. Overrules(r, now, q) => Overrules(r, now, o)
      BY <3>2 DEF Overrules, Tempered, SameThing
    <3>7. (RuleExpired(r, now) \/ ~MatchSpec(r.match, q.target)) => p[k + 1] = q
      BY <3>4 DEF Ruled
    <3> HIDE DEF n
    <3> QED
      BY <3>2, <3>3, <3>4, <3>5, <3>6, <3>7 DEF Tempered, SameThing
  <2>4. n \in S
    <3> HIDE DEF S
    <3> QED
      BY <2>2, <2>3, SetInduction
  <2> QED
    BY <2>1, <2>4
<1> QED
  BY <1>2, <1>3

-----------------------------------------------------------------------------
(* The collection *)

Seen == [listed : BOOLEAN, running : BOOLEAN, inspected : BOOLEAN, limit : Nat,
         resolved : BOOLEAN, used : Nat]

CTypeOK ==
    /\ stage \in {"ping", "list", "inspect", "evaluate", "done"}
    /\ health \in {"UNKNOWN", "OK"}
    /\ docker \in [Containers -> {"new", "running", "exited", "gone"}]
    /\ found \in [Containers -> Seen]

\* Nothing is known of Docker before the list, and after it what ran all the
\* while is listed as running, and only that.
Listing(c) ==
    /\ stage \in {"ping", "list"} => health = "UNKNOWN"
    /\ c \notin changed /\ found[c].running => docker[c] = "running"
    /\ c \notin changed /\ docker[c] = "running" /\ health = "OK" =>
          found[c].listed /\ found[c].running

\* What an inspection fills in is true.
Inspection(c) ==
    /\ found[c].inspected => found[c].limit = Limit[c]
    /\ found[c].resolved => found[c].used >= WorkingSet[c]
    /\ ~found[c].resolved => found[c].used = 0

CollectInv == CTypeOK /\ \A c \in Containers : Listing(c) /\ Inspection(c)

\* Of two numbers, Max is one, and no less than the other.
LEMMA MaxOfTwo ==
    ASSUME NEW a \in Int, NEW b \in Int
    PROVE  Max({a, b}) = IF a >= b THEN a ELSE b
<1>1. CASE a >= b
  <2>1. \A x \in {a, b} : (\A y \in {a, b} : x >= y) <=> x = a
    BY <1>1
  <2> QED
    BY <1>1, <2>1 DEF Max
<1>2. CASE ~(a >= b)
  <2>1. \A x \in {a, b} : (\A y \in {a, b} : x >= y) <=> x = b
    BY <1>2
  <2> QED
    BY <1>2, <2>1 DEF Max
<1> QED
  BY <1>1, <1>2

\* A cgroup that can be read shows the working set or more, another one nothing.
LEMMA CgroupIsTrue ==
    ASSUME NEW c \in Containers, NEW view \in Views[c]
    PROVE  /\ ReadCgroup(view).workingSet \in Nat
           /\ ReadCgroup(view).health = "OK" =>
                 ReadCgroup(view).workingSet >= WorkingSet[c]
           /\ ReadCgroup(view).health # "OK" => ReadCgroup(view).workingSet = 0
<1> DEFINE dir == view.tree[CgroupPath(view)]
           cache == Field(dir.stat, "inactive_file")
<1>1. CASE ~view.v2 \/ CgroupPath(view) \notin DOMAIN view.tree
  BY <1>1 DEF ReadCgroup, NoStats
<1>2. CASE /\ view.v2 /\ CgroupPath(view) \in DOMAIN view.tree
           /\ dir.current \in {Missing, Unreadable}
  BY <1>2 DEF ReadCgroup, NoStats
<1>3. CASE /\ view.v2 /\ CgroupPath(view) \in DOMAIN view.tree
           /\ dir.current \notin {Missing, Unreadable}
  <2>1. /\ dir.current \in Nat /\ cache \in Nat /\ dir.current - cache >= WorkingSet[c]
        /\ WorkingSet[c] \in Nat
    BY <1>3, SamplingAssumption
  <2>2. ReadCgroup(view) = [health |-> "OK", workingSet |-> Max({0, dir.current - cache})]
    BY <1>3 DEF ReadCgroup
  <2> HIDE DEF dir, cache
  <2>3. Max({0, dir.current - cache}) = dir.current - cache
    BY <2>1, MaxOfTwo
  <2> QED
    BY <2>1, <2>2, <2>3
<1> QED
  BY <1>1, <1>2, <1>3

\* It holds before the ping, whatever runs.
LEMMA CollectInit ==
    Init => CollectInv
BY DEF Init, CollectInv, CTypeOK, Listing, Inspection, Unlisted, Seen

\* Containers that come and go count as changed.
LEMMA BecomeKeeps ==
    ASSUME CollectInv, NEW c \in Containers, NEW state \in {"running", "exited", "gone"},
           Become(c, state)
    PROVE  CollectInv'
BY DEF Become, CollectInv, CTypeOK, Listing, Inspection

\* The list is what Docker runs at that time.
LEMMA ListedKeeps ==
    ASSUME CollectInv, Listed PROVE CollectInv'
<1>1. \A c \in Containers :
         found'[c] = [listed |-> docker[c] \in {"running", "exited"},
                      running |-> docker[c] = "running", inspected |-> FALSE,
                      limit |-> 0, resolved |-> FALSE, used |-> 0]
  BY DEF Listed, Unlisted
<1>2. found' \in [Containers -> Seen]
  <2>1. ASSUME NEW c \in Containers PROVE found'[c] \in Seen
    <3> DEFINE up  == docker[c] \in {"running", "exited"}
               run == docker[c] = "running"
    <3>1. up \in BOOLEAN /\ run \in BOOLEAN
      OBVIOUS
    <3>2. found'[c] = [listed |-> up, running |-> run, inspected |-> FALSE,
                       limit |-> 0, resolved |-> FALSE, used |-> 0]
      BY <1>1
    <3> HIDE DEF up, run
    <3> QED
      BY <3>1, <3>2 DEF Seen
  <2>2. found' = [c \in Containers |-> found'[c]]
    BY DEF Listed
  <2> QED
    BY <2>1, <2>2
<1>3. ASSUME NEW c \in Containers PROVE Listing(c)' /\ Inspection(c)'
  <2>1. /\ found'[c].listed = (docker[c] \in {"running", "exited"})
        /\ found'[c].running = (docker[c] = "running")
        /\ ~found'[c].inspected /\ ~found'[c].resolved /\ found'[c].used = 0
    <3> DEFINE up  == docker[c] \in {"running", "exited"}
               run == docker[c] = "running"
    <3>1. found'[c] = [listed |-> up, running |-> run, inspected |-> FALSE,
                       limit |-> 0, resolved |-> FALSE, used |-> 0]
      BY <1>1
    <3>2. found'[c].listed = up /\ found'[c].running = run
          /\ ~found'[c].inspected /\ ~found'[c].resolved /\ found'[c].used = 0
      <4> HIDE DEF up, run
      <4> QED
        BY <3>1
    <3> QED
      BY <3>2
  <2> HIDE <1>1
  <2>2. docker' = docker /\ changed' = changed /\ stage' = "inspect" /\ health' = "OK"
    BY DEF Listed
  <2>3. Inspection(c)'
    BY <2>1 DEF Inspection
  <2>4. Listing(c)'
    BY <2>1, <2>2, Zenon DEF Listing
  <2> QED
    BY <2>3, <2>4
<1> QED
  BY <1>2, <1>3 DEF Listed, CollectInv, CTypeOK

\* An inspection reads the limit, and the cgroup of what runs.
LEMMA InspectedKeeps ==
    ASSUME CollectInv, NEW c \in Containers, Inspected(c) PROVE CollectInv'
<1>1. PICK view \in Views[c] :
         LET stats == IF docker[c] = "running" THEN ReadCgroup(view) ELSE NoStats
         IN  found' = [found EXCEPT ![c] =
                [listed |-> TRUE, running |-> docker[c] = "running",
                 inspected |-> TRUE, limit |-> Limit[c],
                 resolved |-> stats.health = "OK", used |-> stats.workingSet]]
  BY DEF Inspected
<1> DEFINE stats == IF docker[c] = "running" THEN ReadCgroup(view) ELSE NoStats
<1>2. /\ stats.workingSet \in Nat
      /\ stats.health = "OK" => stats.workingSet >= WorkingSet[c]
      /\ stats.health # "OK" => stats.workingSet = 0
  BY CgroupIsTrue DEF NoStats
<1>3. found' = [found EXCEPT ![c] =
         [listed |-> TRUE, running |-> docker[c] = "running", inspected |-> TRUE,
          limit |-> Limit[c], resolved |-> stats.health = "OK",
          used |-> stats.workingSet]]
  BY <1>1
<1> HIDE DEF stats
<1>4. Limit[c] \in Nat
  BY SamplingAssumption
<1>5. UNCHANGED <<docker, stage, health, changed>> /\ stage = "inspect"
  BY DEF Inspected, Worker
<1>6. found \in [Containers -> Seen]
  BY DEF CollectInv, CTypeOK
<1>7. found' \in [Containers -> Seen]
  BY <1>2, <1>3, <1>4, <1>6 DEF Seen
<1>8. ASSUME NEW d \in Containers PROVE Listing(d)' /\ Inspection(d)'
  <2>1. CASE d = c
    <3>1. /\ found'[d].listed /\ found'[d].running = (docker[d] = "running")
          /\ found'[d].limit = Limit[d] /\ found'[d].used = stats.workingSet
          /\ found'[d].resolved = (stats.health = "OK")
      BY <1>3, <1>6, <2>1
    <3> QED
      BY <1>2, <1>5, <2>1, <3>1 DEF Listing, Inspection
  <2>2. CASE d # c
    <3>1. found'[d] = found[d]
      BY <1>3, <1>6, <2>2
    <3> QED
      BY <1>5, <3>1 DEF CollectInv, Listing, Inspection
  <2> QED
    BY <2>1, <2>2
<1> QED
  BY <1>5, <1>7, <1>8 DEF CollectInv, CTypeOK

\* No other step of the collector fills anything in.
LEMMA CollectorKeeps ==
    ASSUME CollectInv,
           \/ DeadlineHits \/ PingAnswered \/ Unreachable \/ Listed
           \/ \E c \in Containers : Goroutine(c)
           \/ Gather
    PROVE  CollectInv'
<1>1. CASE DeadlineHits
  BY <1>1 DEF DeadlineHits, CollectInv, CTypeOK, Listing, Inspection
<1>2. CASE PingAnswered
  BY <1>2 DEF PingAnswered, CollectInv, CTypeOK, Listing, Inspection
<1>3. CASE Unreachable
  BY <1>3 DEF Unreachable, CollectInv, CTypeOK, Listing, Inspection
<1>4. CASE Listed
  BY <1>4, ListedKeeps
<1>5. CASE \E c \in Containers : Goroutine(c)
  <2>1. PICK c \in Containers : Goroutine(c)
    BY <1>5
  <2>2. CASE Inspected(c)
    BY <2>2, InspectedKeeps
  <2>3. CASE Acquire(c) \/ GiveUp(c) \/ InspectFails(c)
    BY <2>3 DEF Acquire, GiveUp, InspectFails, Worker, CollectInv, CTypeOK, Listing,
                Inspection
  <2> QED
    BY <2>1, <2>2, <2>3 DEF Goroutine
<1>6. CASE Gather
  BY <1>6 DEF Gather, CollectInv, CTypeOK, Listing, Inspection
<1> QED
  BY <1>1, <1>2, <1>3, <1>4, <1>5, <1>6

-----------------------------------------------------------------------------
(* The rules by the calendar *)

\* The rules that have not expired are those whose last day is not over.
LEMMA LiveByTheClock ==
    ASSUME NEW case \in Cases, NEW i \in DOMAIN case.rules
    PROVE  RuleExpired(case.rules[i], case.now)
             <=> ~(\/ case.rules[i].expires = NoExpiry
                   \/ case.now \div Day <= case.rules[i].expires)
<1> DEFINE now  == case.now
           last == case.rules[i].expires
           q    == now \div Day
<1>1. CASE last = NoExpiry
  BY <1>1 DEF RuleExpired
<1>2. CASE last # NoExpiry
  <2>1. now \in Nat /\ last \in Nat /\ Day \in Nat \ {0}
    BY <1>2, SamplingAssumption
  <2> HIDE DEF now, last
  <2>2. q \in Int /\ q * Day <= now /\ now < q * Day + Day
    BY <2>1
  <2>3. (last + 1) * Day \in Int
    BY <2>1
  <2> HIDE DEF q
  <2>4. q <= last => now < (last + 1) * Day
    <3>1. SUFFICES ASSUME q <= last PROVE now < (last + 1) * Day
      OBVIOUS
    <3>2. (last - q) * Day >= 0
      BY <2>1, <2>2, <3>1
    <3>3. (last + 1) * Day = q * Day + Day + (last - q) * Day
      BY <2>1, <2>2
    <3>4. q * Day \in Int /\ (last - q) * Day \in Int
      BY <2>1, <2>2
    <3> QED
      BY <2>1, <2>2, <3>2, <3>3, <3>4
  <2>5. q >= last + 1 => now >= (last + 1) * Day
    <3>1. SUFFICES ASSUME q >= last + 1 PROVE now >= (last + 1) * Day
      OBVIOUS
    <3>2. (q - (last + 1)) * Day >= 0
      BY <2>1, <2>2, <3>1
    <3>3. q * Day = (last + 1) * Day + (q - (last + 1)) * Day
      BY <2>1, <2>2
    <3>4. q * Day \in Int /\ (q - (last + 1)) * Day \in Int
      BY <2>1, <2>2
    <3> QED
      BY <2>1, <2>2, <2>3, <3>2, <3>3, <3>4
  <2>6. q <= last \/ q >= last + 1
    BY <2>1, <2>2
  <2>7. ~(q <= last /\ q >= last + 1)
    BY <2>1, <2>2
  <2>8. now >= (last + 1) * Day <=> ~(q <= last)
    BY <2>1, <2>3, <2>4, <2>5, <2>6, <2>7
  <2> QED
    BY <1>2, <2>8 DEF RuleExpired, now, last, q
<1> QED
  BY <1>1, <1>2

\* The containers that count by the rules of a case.
CountedBy(case) ==
    {c \in Steady :
        ~\E i \in DOMAIN case.rules :
            /\ ~RuleExpired(case.rules[i], case.now)
            /\ case.rules[i].exclude
            /\ MatchSpec(case.rules[i].match, TargetFromContainer(Identity[c]))}

\* They are the ones that count by the calendar, when that is the case met.
LEMMA CountedByRules ==
    given \in Cases => Counted = CountedBy(given)
<1> SUFFICES ASSUME given \in Cases PROVE Counted = CountedBy(given)
  OBVIOUS
<1>1. \A i \in DOMAIN given.rules :
         i \in Live <=> ~RuleExpired(given.rules[i], given.now)
  BY LiveByTheClock DEF Live, Today
<1>2. Live \subseteq DOMAIN given.rules
  BY DEF Live
<1> QED
  BY <1>1, <1>2 DEF Counted, CountedBy

-----------------------------------------------------------------------------
(* What the checks say of what was collected *)

\* Evaluate's raw observations.
RawOf(case, rep) ==
    {DeclaredOvercommit(case)} \cup
      IF health = "OK"
        THEN UnboundedMem(case) \cup {CrashLoop(case, s, rep[s]) : s \in Services}
        ELSE {Unlinked(check, "docker", "UNKNOWN", "WARN") :
                 check \in PerContainerCheckIDs}

\* They are well formed, and unbounded_mem says what it read.
Measured(o) ==
    /\ DOMAIN o = Fields /\ o.value \in Int
    /\ o.check \in {"declared_overcommit", "unbounded_mem", "crashloop"}
    /\ o.check = "unbounded_mem" /\ o.of \in Containers =>
          /\ o.health = "BAD" => Limit[o.of] = 0
          /\ o.health = "OK" => Limit[o.of] > 0

\* They speak of all of these containers, or of the source that failed.
SpeaksOf(obs, counted) ==
    IF health = "OK"
      THEN \A c \in counted :
              /\ \E o \in obs : o.check = "unbounded_mem" /\ o.of = c
              /\ \E o \in obs : o.check = "crashloop" /\ o.scope = Identity[c].key
      ELSE \A check \in PerContainerCheckIDs :
              \E o \in obs : o.check = check /\ o.scope = "docker"

\* The counts of crashes are numbers.
LEMMA CrashesAreNumbers ==
    ASSUME NEW case \in Cases, NEW s \in Services
    PROVE  Crashes(case, s) \in Int
<1>1. PICK c \in Containers : s = Identity[c].key
  BY DEF Services
<1>2. case.crashes[s].window \in Nat /\ case.crashes[s].delta \in Nat
  BY <1>1, SamplingAssumption
<1> DEFINE delta == IF \E d \in Grouped(s) : found[d].inspected
                      THEN case.crashes[s].delta ELSE 0
<1>3. delta \in Nat
  BY <1>2
<1>4. Crashes(case, s) = Max({case.crashes[s].window, delta})
  BY DEF Crashes
<1> HIDE DEF delta
<1> QED
  BY <1>2, <1>3, <1>4, MaxOfTwo

(* Whatever a container check says, it says of what an inspection measured. *)
LEMMA RawIsMeasured ==
    ASSUME CollectInv, NEW case \in Cases, NEW rep \in [Services -> Containers],
           NEW o \in RawOf(case, rep)
    PROVE  Measured(o)
<1>1. CASE o = DeclaredOvercommit(case)
  BY <1>1 DEF DeclaredOvercommit, Unlinked, Measured, Fields
<1>2. CASE o \in UnboundedMem(case)
  <2>1. PICK c \in Walked(case) :
          o = IF ~found[c].inspected THEN Linked("unbounded_mem", c, "UNKNOWN", "WARN", 0)
              ELSE IF found[c].limit = 0 THEN Linked("unbounded_mem", c, "BAD", "WARN", 1)
              ELSE Linked("unbounded_mem", c, "OK", "WARN", 0)
    BY <1>2 DEF UnboundedMem
  <2>2. c \in Containers /\ Limit[c] \in Nat
        /\ (found[c].inspected => found[c].limit = Limit[c])
    BY SamplingAssumption DEF Walked, CollectInv, Inspection
  <2>3. DOMAIN o = Fields /\ o.value \in Int /\ o.check = "unbounded_mem" /\ o.of = c
    BY <2>1 DEF Linked, Fields
  <2>4. /\ o.health = "BAD" => found[c].inspected /\ found[c].limit = 0
        /\ o.health = "OK" => found[c].inspected /\ found[c].limit # 0
    BY <2>1 DEF Linked
  <2> QED
    BY <2>2, <2>3, <2>4 DEF Measured
<1>3. ASSUME NEW s \in Services, o = CrashLoop(case, s, rep[s]) PROVE Measured(o)
  BY <1>3, CrashesAreNumbers DEF CrashLoop, Linked, Measured, Fields
<1>4. ASSUME NEW check \in PerContainerCheckIDs,
             o = Unlinked(check, "docker", "UNKNOWN", "WARN")
      PROVE  Measured(o)
  BY <1>4 DEF Unlinked, Measured, Fields, PerContainerCheckIDs
<1> QED
  BY <1>1, <1>2, <1>3, <1>4 DEF RawOf

\* What ran all the while and counts is walked, unless the source failed.
LEMMA CountedIsWalked ==
    ASSUME CollectInv, health = "OK", NEW case, NEW c \in CountedBy(case)
    PROVE  c \in Walked(case) /\ found[c].listed
<1>1. c \in Containers \ changed /\ docker[c] = "running"
  BY DEF CountedBy, Steady
<1>2. found[c].listed /\ found[c].running
  BY <1>1 DEF CollectInv, Listing
<1>3. ~Excluded(case, c)
  BY DEF CountedBy, Excluded, ExcludedFromBudget
<1> QED
  BY <1>1, <1>2, <1>3 DEF Walked, Running

(* Every container that counts is spoken of, by itself or with all of Docker. *)
LEMMA RawSpeaks ==
    ASSUME CollectInv, NEW case \in Cases, NEW rep \in [Services -> Containers],
           \A s \in Services : rep[s] \in Representatives(s)
    PROVE  SpeaksOf(RawOf(case, rep), CountedBy(case))
<1>1. CASE health # "OK"
  <2>1. ASSUME NEW check \in PerContainerCheckIDs
        PROVE  \E o \in RawOf(case, rep) : o.check = check /\ o.scope = "docker"
    <3> DEFINE o == Unlinked(check, "docker", "UNKNOWN", "WARN")
    <3>1. o \in RawOf(case, rep)
      BY <1>1 DEF RawOf
    <3>2. o.check = check /\ o.scope = "docker"
      BY DEF Unlinked
    <3> QED
      BY <3>1, <3>2
  <2> QED
    BY <1>1, <2>1 DEF SpeaksOf
<1>2. CASE health = "OK"
  <2>1. SUFFICES ASSUME NEW c \in CountedBy(case)
                 PROVE  /\ \E o \in RawOf(case, rep) : o.check = "unbounded_mem" /\ o.of = c
                        /\ \E o \in RawOf(case, rep) :
                              o.check = "crashloop" /\ o.scope = Identity[c].key
    BY <1>2 DEF SpeaksOf
  <2>2. c \in Walked(case) /\ found[c].listed /\ c \in Containers
    BY <1>2, CountedIsWalked DEF Walked
  <2>3. \E o \in UnboundedMem(case) : o.check = "unbounded_mem" /\ o.of = c
    <3> DEFINE said(d) == IF ~found[d].inspected
                            THEN Linked("unbounded_mem", d, "UNKNOWN", "WARN", 0)
                          ELSE IF found[d].limit = 0
                            THEN Linked("unbounded_mem", d, "BAD", "WARN", 1)
                            ELSE Linked("unbounded_mem", d, "OK", "WARN", 0)
    <3>1. said(c).check = "unbounded_mem" /\ said(c).of = c
      BY DEF Linked
    <3>2. said(c) \in UnboundedMem(case)
      BY <2>2 DEF UnboundedMem
    <3> QED
      BY <3>1, <3>2
  <2> DEFINE s == Identity[c].key
             o == CrashLoop(case, s, rep[s])
  <2>4. s \in Services /\ rep[s] \in Grouped(s)
    BY <2>2 DEF Services, Representatives
  <2>5. Identity[rep[s]].key = s
    BY <2>4 DEF Grouped
  <2>6. o.check = "crashloop" /\ o.scope = s
    BY <2>5 DEF CrashLoop, Linked
  <2>7. o \in RawOf(case, rep)
    BY <1>2, <2>4 DEF RawOf
  <2> QED
    BY <1>2, <2>3, <2>6, <2>7 DEF RawOf
<1> QED
  BY <1>1, <1>2

-----------------------------------------------------------------------------
(* Sums over a set, whatever order they are taken in *)

AnyOf(s) == CHOOSE x \in s : TRUE
Added(g, f, s) == IF s = {} THEN 0 ELSE f[AnyOf(s)] + g[s \ {AnyOf(s)}]

\* g gives the sum of f over every subset of W.
IsSum(g, f, W) == g = [s \in SUBSET W |-> Added(g, f, s)]

\* Taking one element away leaves a finite set with one less.
LEMMA OneLess ==
    ASSUME NEW W, IsFiniteSet(W), NEW s \in SUBSET W, NEW x \in s
    PROVE  /\ Cardinality(s) \in Nat /\ Cardinality(s \ {x}) = Cardinality(s) - 1
           /\ s # {} /\ Cardinality(s) # 0
<1>1. IsFiniteSet(s)
  BY FS_Subset
<1> QED
  BY <1>1, FS_RemoveElement, FS_CardinalityType, FS_EmptySet

\* There is one, by the size of the subsets.
LEMMA SumExists ==
    ASSUME NEW f, NEW W, IsFiniteSet(W)
    PROVE  \E g : IsSum(g, f, W)
<1> DEFINE Small(n) == {s \in SUBSET W : Cardinality(s) <= n}
           IsPart(g, n) == g = [s \in Small(n) |-> Added(g, f, s)]
           S == {n \in Nat : \E g : IsPart(g, n)}
<1>0. \A s \in SUBSET W : Cardinality(s) \in Nat /\ (Cardinality(s) = 0 => s = {})
  BY FS_Subset, FS_CardinalityType, FS_EmptySet
<1>1. 0 \in S
  <2> DEFINE g == [s \in Small(0) |-> 0]
  <2>1. \A s \in Small(0) : s = {}
    BY <1>0
  <2>2. IsPart(g, 0)
    BY <2>1 DEF Added
  <2> QED
    BY <2>2
<1>2. ASSUME NEW n \in Nat, n \in S PROVE n + 1 \in S
  <2>1. PICK g : IsPart(g, n)
    BY <1>2
  <2> DEFINE h == [s \in Small(n + 1) |-> Added(g, f, s)]
             k == [s \in Small(n + 1) |-> Added(h, f, s)]
  <2>2. \A s \in Small(n) : s \in Small(n + 1) /\ h[s] = g[s]
    <3>1. \A s \in Small(n) : s \in Small(n + 1)
      BY <1>0
    <3>2. \A s \in Small(n) : g[s] = Added(g, f, s)
      BY <2>1
    <3> QED
      BY <3>1, <3>2
  <2>3. ASSUME NEW s \in Small(n + 1) PROVE h[s] = k[s]
    <3>1. CASE s = {}
      BY <3>1 DEF Added
    <3>2. CASE s # {}
      <4> DEFINE x == AnyOf(s)
      <4>1. x \in s
        BY <3>2 DEF AnyOf
      <4>2. s \ {x} \in Small(n)
        BY <4>1, <1>0, OneLess
      <4>3. h[s \ {x}] = g[s \ {x}]
        BY <2>2, <4>2
      <4> QED
        BY <4>3 DEF Added
    <3> QED
      BY <3>1, <3>2
  <2>4. h = k
    BY <2>3
  <2>5. IsPart(h, n + 1)
    <3> HIDE DEF h
    <3> QED
      BY <2>4
  <2> HIDE DEF h, IsPart
  <2> QED
    BY <2>5
<1>3. Nat \subseteq S
  <2> HIDE DEF S
  <2> QED
    BY <1>1, <1>2, SetInduction
<1>4. Cardinality(W) \in Nat /\ Small(Cardinality(W)) = SUBSET W
  <2>1. \A s \in SUBSET W : Cardinality(s) <= Cardinality(W)
    BY FS_Subset
  <2> QED
    BY <2>1, <1>0
<1>5. PICK g : IsPart(g, Cardinality(W))
  BY <1>3, <1>4
<1> HIDE DEF Small
<1>6. IsSum(g, f, W)
  BY <1>4, <1>5 DEF IsSum
<1> QED
  BY <1>6

\* Any element may be taken first.
LEMMA SumInAnyOrder ==
    ASSUME NEW f, NEW W, IsFiniteSet(W), NEW g, IsSum(g, f, W),
           \A x \in W : f[x] \in Nat
    PROVE  \A s \in SUBSET W :
              g[s] \in Nat /\ \A x \in s : g[s] = f[x] + g[s \ {x}]
<1> DEFINE Fine(s) == g[s] \in Nat /\ \A x \in s : g[s] = f[x] + g[s \ {x}]
           S == {n \in Nat : \A s \in SUBSET W : Cardinality(s) <= n => Fine(s)}
<1>0. \A s \in SUBSET W : Cardinality(s) \in Nat /\ (Cardinality(s) = 0 => s = {})
  BY FS_Subset, FS_CardinalityType, FS_EmptySet
<1>1. \A s \in SUBSET W : g[s] = Added(g, f, s)
  BY DEF IsSum
<1>2. 0 \in S
  BY <1>0, <1>1 DEF Added
<1>3. ASSUME NEW n \in Nat, n \in S PROVE n + 1 \in S
  <2>1. SUFFICES ASSUME NEW s \in SUBSET W, Cardinality(s) = n + 1 PROVE Fine(s)
    BY <1>0, <1>3
  <2>2. \A t \in SUBSET W : Cardinality(t) <= n => Fine(t)
    BY <1>3
  <2> DEFINE y == AnyOf(s)
  <2>3. y \in s
    <3>1. s # {}
      BY <2>1, FS_EmptySet
    <3> QED
      BY <3>1 DEF AnyOf
  <2>4. g[s] = f[y] + g[s \ {y}]
    BY <1>1, <2>3 DEF Added
  <2>5. \A x \in s : s \ {x} \in SUBSET W /\ Cardinality(s \ {x}) = n
    BY <2>1, OneLess
  <2> HIDE DEF y
  <2>6. g[s] \in Nat
    BY <2>2, <2>3, <2>4, <2>5
  <2>7. ASSUME NEW x \in s PROVE g[s] = f[x] + g[s \ {x}]
    <3>1. CASE x = y
      BY <2>4, <3>1
    <3>2. CASE x # y
      <4>0. Fine(s \ {x}) /\ Fine(s \ {y}) /\ y \in s \ {x} /\ x \in s \ {y}
        <5>1. /\ s \ {x} \in SUBSET W /\ Cardinality(s \ {x}) <= n
              /\ s \ {y} \in SUBSET W /\ Cardinality(s \ {y}) <= n
          BY <2>3, <2>5
        <5> HIDE DEF Fine
        <5> QED
          BY <2>2, <2>3, <3>2, <5>1
      <4>1. g[s \ {y}] = f[x] + g[(s \ {y}) \ {x}]
        BY <4>0
      <4>2. g[s \ {x}] = f[y] + g[(s \ {x}) \ {y}]
        BY <4>0
      <4>3. g[(s \ {y}) \ {x}] = g[(s \ {x}) \ {y}]
        <5>1. (s \ {y}) \ {x} = (s \ {x}) \ {y}
          OBVIOUS
        <5> QED
          BY <5>1, Zenon
      <4>4. f[x] \in Nat /\ f[y] \in Nat /\ g[s \ {y}] \in Nat /\ g[s \ {x}] \in Nat
        BY <2>2, <2>3, <2>5
      <4>5. s \ {y} \in SUBSET W /\ x \in s \ {y}
        BY <3>2
      <4>6. g[(s \ {y}) \ {x}] \in Int
        <5>1. (s \ {y}) \ {x} \in SUBSET W /\ Cardinality((s \ {y}) \ {x}) = n - 1
          BY <2>3, <2>5, <4>5, OneLess
        <5> QED
          BY <2>2, <5>1
      <4> HIDE DEF Fine
      <4> QED
        BY <2>4, <4>1, <4>2, <4>3, <4>4, <4>6
    <3> QED
      BY <3>1, <3>2
  <2> QED
    BY <2>6, <2>7
<1>4. Nat \subseteq S
  <2> HIDE DEF S
  <2> QED
    BY <1>2, <1>3, SetInduction
<1> QED
  BY <1>0, <1>4

\* A sum over less, of less, is less.
LEMMA SumIsMonotonic ==
    ASSUME NEW W, IsFiniteSet(W), NEW V \in SUBSET W,
           NEW f, NEW e, \A x \in V : f[x] \in Nat, \A x \in W : e[x] \in Nat,
           \A x \in V : f[x] <= e[x],
           NEW g, NEW h, IsSum(g, f, V), IsSum(h, e, W)
    PROVE  g[V] <= h[W]
<1> DEFINE Less(n) == \A t \in SUBSET W : Cardinality(t) = n => g[V \cap t] <= h[t]
           S == {n \in Nat : Less(n)}
<1>0. \A s \in SUBSET W : Cardinality(s) \in Nat /\ (Cardinality(s) = 0 => s = {})
  BY FS_Subset, FS_CardinalityType, FS_EmptySet
<1>1. \A s \in SUBSET V : g[s] \in Nat /\ \A x \in s : g[s] = f[x] + g[s \ {x}]
  <2>1. IsFiniteSet(V)
    BY FS_Subset
  <2>2. IsSum(g, f, V) /\ \A x \in V : f[x] \in Nat
    OBVIOUS
  <2>3. ASSUME NEW U, U = V
        PROVE  \A s \in SUBSET U : g[s] \in Nat /\ \A x \in s : g[s] = f[x] + g[s \ {x}]
    <3>1. IsFiniteSet(U) /\ IsSum(g, f, U) /\ \A x \in U : f[x] \in Nat
      BY <2>1, <2>2, <2>3
    <3> QED
      BY <3>1, SumInAnyOrder
  <2> QED
    BY <2>3
<1>2. \A s \in SUBSET W : h[s] \in Nat /\ \A x \in s : h[s] = e[x] + h[s \ {x}]
  BY SumInAnyOrder
<1>3. 0 \in S
  <2>1. g[{}] = 0 /\ h[{}] = 0
    BY DEF IsSum, Added
  <2>2. V \cap {} = {}
    OBVIOUS
  <2> QED
    BY <2>1, <2>2, <1>0
<1>4. ASSUME NEW n \in Nat, n \in S PROVE n + 1 \in S
  <2>0. SUFFICES Less(n + 1)
    <3> HIDE DEF Less
    <3> QED
      OBVIOUS
  <2>1. SUFFICES ASSUME NEW t \in SUBSET W, Cardinality(t) = n + 1
                 PROVE  g[V \cap t] <= h[t]
    BY Zenon
  <2>2. PICK x \in t : TRUE
    BY <2>1, FS_EmptySet
  <2>3. t \ {x} \in SUBSET W /\ Cardinality(t \ {x}) = n
    BY <2>1, OneLess
  <2>4. g[V \cap (t \ {x})] <= h[t \ {x}]
    <3>1. Less(n)
      <4> HIDE DEF Less
      <4> QED
        BY <1>4
    <3> QED
      BY <2>3, <3>1, Zenon
  <2>5. h[t] = e[x] + h[t \ {x}] /\ h[t \ {x}] \in Nat /\ e[x] \in Nat
    BY <1>2, <2>3
  <2>6. CASE x \in V
    <3>1. (V \cap t) \ {x} = V \cap (t \ {x})
      OBVIOUS
    <3>2. V \cap t \in SUBSET V /\ V \cap (t \ {x}) \in SUBSET V /\ x \in V \cap t
      BY <2>6
    <3>3. /\ g[V \cap t] = f[x] + g[V \cap (t \ {x})]
          /\ g[V \cap (t \ {x})] \in Nat /\ f[x] \in Nat /\ f[x] <= e[x]
      BY <1>1, <2>6, <3>1, <3>2
    <3> HIDE DEF Less
    <3> QED
      BY <2>4, <2>5, <3>3
  <2>7. CASE x \notin V
    <3>1. V \cap t = V \cap (t \ {x})
      BY <2>7
    <3>2. g[V \cap t] = g[V \cap (t \ {x})] /\ g[V \cap t] \in Nat
      BY <1>1, <3>1
    <3> QED
      BY <2>4, <2>5, <3>2
  <2> QED
    BY <2>6, <2>7
<1>5. Nat \subseteq S
  <2> HIDE DEF S
  <2> QED
    BY <1>3, <1>4, SetInduction
<1>6. V \cap W = V /\ W \in SUBSET W
  OBVIOUS
<1>7. Less(Cardinality(W))
  <2> HIDE DEF Less
  <2> QED
    BY <1>0, <1>5, <1>6
<1> QED
  BY <1>6, <1>7, Zenon

-----------------------------------------------------------------------------
(* The budget *)

DeclaredOf == [c \in Containers |-> Declared(c)]
CostOf == [c \in Containers |-> Cost(c)]

\* declared_overcommit's sum, and what it should be compared with, are sums.
LEMMA DeclaredIsSum ==
    ASSUME NEW V, V \subseteq Containers
    PROVE  \E g : IsSum(g, DeclaredOf, V) /\ MapThenSumSet(Declared, V) = g[V]
<1> DEFINE Is(g) == g = [s \in SUBSET V |->
                           IF s = {} THEN 0
                           ELSE Declared(CHOOSE x \in s : TRUE)
                                  + g[s \ {CHOOSE x \in s : TRUE}]]
           it == CHOOSE g : Is(g)
<1>1. MapThenSumSet(Declared, V) = it[V]
  BY DEF MapThenSumSet, MapThenFoldSet
<1>2. ASSUME NEW g PROVE Is(g) <=> IsSum(g, DeclaredOf, V)
  <2>1. ASSUME NEW s \in SUBSET V
        PROVE  Added(g, DeclaredOf, s) =
                  IF s = {} THEN 0
                  ELSE Declared(CHOOSE x \in s : TRUE)
                         + g[s \ {CHOOSE x \in s : TRUE}]
    <3>1. CASE s = {}
      BY <3>1 DEF Added
    <3>2. CASE s # {}
      <4>1. (CHOOSE x \in s : TRUE) \in Containers
        BY <3>2
      <4> QED
        BY <3>2, <4>1 DEF Added, AnyOf, DeclaredOf
    <3> QED
      BY <3>1, <3>2
  <2> QED
    BY <2>1 DEF IsSum
<1>3. \E g : IsSum(g, DeclaredOf, V)
  <2>1. IsFiniteSet(V)
    BY FS_Subset, SamplingAssumption
  <2> QED
    BY <2>1, SumExists
<1>4. Is(it)
  <2> HIDE DEF Is
  <2> QED
    BY <1>2, <1>3
<1> HIDE DEF Is, it
<1> QED
  BY <1>1, <1>2, <1>4

(* The library's sum of costs over a set is a sum in the sense of IsSum. *)
LEMMA CostIsSum ==
    ASSUME NEW V, V \subseteq Containers
    PROVE  \E g : IsSum(g, CostOf, V) /\ MapThenSumSet(Cost, V) = g[V]
<1> DEFINE Is(g) == g = [s \in SUBSET V |->
                           IF s = {} THEN 0
                           ELSE Cost(CHOOSE x \in s : TRUE)
                                  + g[s \ {CHOOSE x \in s : TRUE}]]
           it == CHOOSE g : Is(g)
<1>1. MapThenSumSet(Cost, V) = it[V]
  BY DEF MapThenSumSet, MapThenFoldSet
<1>2. ASSUME NEW g PROVE Is(g) <=> IsSum(g, CostOf, V)
  <2>1. ASSUME NEW s \in SUBSET V
        PROVE  Added(g, CostOf, s) =
                  IF s = {} THEN 0
                  ELSE Cost(CHOOSE x \in s : TRUE) + g[s \ {CHOOSE x \in s : TRUE}]
    <3>1. CASE s = {}
      BY <3>1 DEF Added
    <3>2. CASE s # {}
      <4>1. (CHOOSE x \in s : TRUE) \in Containers
        BY <3>2
      <4> QED
        BY <3>2, <4>1 DEF Added, AnyOf, CostOf
    <3> QED
      BY <3>1, <3>2
  <2> QED
    BY <2>1 DEF IsSum
<1>3. \E g : IsSum(g, CostOf, V)
  <2>1. IsFiniteSet(V)
    BY FS_Subset, SamplingAssumption
  <2> QED
    BY <2>1, SumExists
<1>4. Is(it)
  <2> HIDE DEF Is
  <2> QED
    BY <1>2, <1>3
<1> HIDE DEF Is, it
<1> QED
  BY <1>1, <1>2, <1>4

\* Of a container that was inspected, no less is declared than it costs if its limit
\* or its cgroup was read, and no more if what it uses was read exactly or not at all.
LEMMA DeclaredCovers ==
    ASSUME CollectInv, NEW c \in Containers
    PROVE  /\ Declared(c) \in Nat /\ Cost(c) \in Nat
           /\ found[c].inspected /\ (Limit[c] # 0 \/ found[c].resolved)
                 => Cost(c) <= Declared(c)
           /\ found[c].inspected /\ found[c].used \in {0, WorkingSet[c]}
                 => Declared(c) <= Cost(c)
<1>1. /\ found[c].limit \in Nat /\ found[c].used \in Nat
      /\ found[c].inspected => found[c].limit = Limit[c]
      /\ found[c].resolved => found[c].used >= WorkingSet[c]
      /\ ~found[c].resolved => found[c].used = 0
  BY DEF CollectInv, CTypeOK, Seen, Inspection
<1>2. Limit[c] \in Nat /\ WorkingSet[c] \in Nat /\ Floor \in Nat
  BY SamplingAssumption
<1>3. Max({Floor, found[c].used}) = IF Floor >= found[c].used THEN Floor ELSE found[c].used
  BY <1>1, <1>2, MaxOfTwo
<1>4. Max({Floor, WorkingSet[c]}) = IF Floor >= WorkingSet[c] THEN Floor ELSE WorkingSet[c]
  BY <1>2, MaxOfTwo
<1> QED
  BY <1>1, <1>2, <1>3, <1>4 DEF Declared, Cost

\* Those of the counted whose cgroup was not read where it was needed.
UnreadOf(case) ==
    {c \in CountedBy(case) :
        Limit[c] = 0 /\ found[c].inspected /\ ~found[c].resolved}

\* What the sum says of what runs.
LEMMA BudgetOfRaw ==
    ASSUME CollectInv, NEW case \in Cases
    PROVE  LET o == DeclaredOvercommit(case)
               counted == CountedBy(case)
           IN  /\ o.health = "OK"
                     => MapThenSumSet(Cost, counted \ UnreadOf(case)) <= Usable
               /\ o.health = "BAD" /\ changed = {}
                     /\ (\A c \in counted : found[c].used \in {0, WorkingSet[c]})
                   => MapThenSumSet(Cost, counted) > Usable
<1> DEFINE o == DeclaredOvercommit(case)
           W == Walked(case)
           V == CountedBy(case)
           U == CountedBy(case) \ UnreadOf(case)
<1>1. /\ o.health = "OK" => /\ health = "OK" /\ \A c \in W : found[c].inspected
                            /\ ~(MapThenSumSet(Declared, W) > Usable)
      /\ o.health = "BAD" => /\ health = "OK" /\ \A c \in W : found[c].inspected
                             /\ MapThenSumSet(Declared, W) > Usable
  BY DEF DeclaredOvercommit, Unlinked
<1>2. SUFFICES ASSUME health = "OK", \A c \in W : found[c].inspected
               PROVE  /\ MapThenSumSet(Cost, U) <= MapThenSumSet(Declared, W)
                      /\ MapThenSumSet(Cost, U) \in Nat /\ MapThenSumSet(Cost, V) \in Nat
                      /\ MapThenSumSet(Declared, W) \in Nat
                      /\ changed = {} /\ (\A c \in V : found[c].used \in {0, WorkingSet[c]})
                            => MapThenSumSet(Declared, W) <= MapThenSumSet(Cost, V)
  <2> HIDE DEF o, W, V, U
  <2>1. Usable \in Nat
    BY SamplingAssumption
  <2> QED
    BY <1>1, <2>1 DEF o, V, U
<1>3. V \subseteq W /\ W \subseteq Containers
  BY <1>2, CountedIsWalked DEF Walked
<1>4. changed = {} => W \subseteq V
  <2>1. SUFFICES ASSUME changed = {}, NEW c \in W PROVE c \in V
    OBVIOUS
  <2>2. c \in Containers /\ found[c].running /\ ~Excluded(case, c)
    BY DEF Walked, Running
  <2>3. docker[c] = "running"
    BY <2>1, <2>2 DEF CollectInv, Listing
  <2> QED
    BY <2>1, <2>2, <2>3 DEF CountedBy, Steady, Excluded, ExcludedFromBudget
<1>5. U \subseteq V /\ \A c \in U : Limit[c] # 0 \/ found[c].resolved
  BY <1>2, <1>3 DEF UnreadOf
<1> HIDE DEF V, W, U
<1>6. IsFiniteSet(W) /\ IsFiniteSet(V) /\ IsFiniteSet(U)
  BY <1>3, <1>5, FS_Subset, SamplingAssumption
<1>7. PICK g : IsSum(g, CostOf, V) /\ MapThenSumSet(Cost, V) = g[V]
  BY <1>3, CostIsSum
<1>8. PICK h : IsSum(h, DeclaredOf, W) /\ MapThenSumSet(Declared, W) = h[W]
  BY <1>3, DeclaredIsSum
<1>9. PICK e : IsSum(e, CostOf, U) /\ MapThenSumSet(Cost, U) = e[U]
  <2>1. U \subseteq Containers
    BY <1>3, <1>5
  <2> QED
    BY <2>1, CostIsSum
<1>10. \A c \in W : /\ c \in Containers /\ CostOf[c] \in Nat /\ DeclaredOf[c] \in Nat
                    /\ Limit[c] # 0 \/ found[c].resolved => CostOf[c] <= DeclaredOf[c]
                    /\ found[c].used \in {0, WorkingSet[c]} => DeclaredOf[c] <= CostOf[c]
  BY <1>2, <1>3, DeclaredCovers DEF CostOf, DeclaredOf
<1>11. e[U] <= h[W]
  <2>1. U \in SUBSET W /\ \A c \in U : CostOf[c] \in Nat /\ CostOf[c] <= DeclaredOf[c]
    BY <1>3, <1>5, <1>10
  <2> QED
    BY <1>6, <1>8, <1>9, <1>10, <2>1, SumIsMonotonic
<1>12. g[V] \in Nat /\ h[W] \in Nat /\ e[U] \in Nat
  <2>1. \A c \in V : CostOf[c] \in Nat
    BY <1>3, <1>10
  <2>2. \A c \in U : CostOf[c] \in Nat
    BY <1>5, <2>1
  <2>3. V \in SUBSET V /\ U \in SUBSET U /\ W \in SUBSET W
    OBVIOUS
  <2>4. g[V] \in Nat
    BY <1>6, <1>7, <2>1, <2>3, SumInAnyOrder
  <2>5. e[U] \in Nat
    BY <1>6, <1>9, <2>2, <2>3, SumInAnyOrder
  <2>6. h[W] \in Nat
    BY <1>6, <1>8, <1>10, <2>3, SumInAnyOrder
  <2> QED
    BY <2>4, <2>5, <2>6
<1>13. changed = {} /\ (\A c \in V : found[c].used \in {0, WorkingSet[c]}) => h[W] <= g[V]
  <2>1. SUFFICES ASSUME changed = {}, \A c \in V : found[c].used \in {0, WorkingSet[c]}
                 PROVE  h[W] <= g[V]
    OBVIOUS
  <2>2. W = V
    BY <1>3, <1>4, <2>1
  <2>3. \A c \in W : DeclaredOf[c] <= CostOf[c]
    BY <1>10, <2>1, <2>2
  <2>4. IsSum(g, CostOf, W) /\ W \in SUBSET W
    BY <1>7, <2>2
  <2>5. h[W] <= g[W]
    BY <1>6, <1>8, <1>10, <2>3, <2>4, SumIsMonotonic
  <2> QED
    BY <2>2, <2>5
<1> QED
  BY <1>7, <1>8, <1>9, <1>11, <1>12, <1>13

-----------------------------------------------------------------------------
(* The invariant *)

\* Nothing happens without a configuration that is in order, and an exit code of
\* 0 comes after all of the probes.
Configured ==
    /\ situation \in Situations /\ probes \in Seq(BOOLEAN)
    /\ Loaded => /\ cfg \in Decode(situation.file, situation.secret)
                 /\ Validate(cfg)
    /\ ~Loaded => host = NotRead /\ stage = "ping" /\ probes = <<>>
    /\ exit = 0 => Loaded
    /\ exit = 0 /\ situation.command = "selftest" => probes = [i \in 1..Probed |-> TRUE]

\* What was read of the host is what it shows, and the level checks say what they
\* say of that.
HostIsRead ==
    /\ host # NotRead =>
          LET mem == ReadMeminfo(situation.host.meminfo)
          IN  host = [mem   |-> mem,
                      swap  |-> SwapPresent(mem, situation.host.swaps),
                      disks |-> CollectDisks(cfg.disk_fill.paths, situation.host.mounted)]
    /\ verdicts # {} => host # NotRead /\ verdicts = LevelObservations(cfg, host)
    /\ stage = "done" => host # NotRead /\ verdicts = LevelObservations(cfg, host)

\* Before the end nothing is said.
Silent ==
    stage # "done" => given = NoCase /\ raw = {} /\ observations = {}

\* At the end, the exceptions were applied to true measurements of everything.
Judged ==
    stage = "done" =>
        /\ given \in Cases
        /\ \A o \in raw : Measured(o)
        /\ SpeaksOf(raw, Counted)
        /\ \A o \in raw : o.check = "declared_overcommit" =>
              /\ o.health = "OK" => MapThenSumSet(Cost, Counted \ Unread) <= Usable
              /\ o.health = "BAD" /\ changed = {} /\ Exact
                    => MapThenSumSet(Cost, Counted) > Usable
        /\ observations = Apply(given.rules, given.now, raw)
        /\ report = Build(observations)

SentinelInv == CollectInv /\ Configured /\ HostIsRead /\ Silent /\ Judged

(* A command begins with nothing read, nothing said and nothing exited. *)
LEMMA InitHolds ==
    SInit => SentinelInv
<1> SUFFICES ASSUME SInit PROVE SentinelInv
  OBVIOUS
<1>1. CollectInv
  BY CollectInit DEF SInit
<1>2. Configured
  BY DEF SInit, Init, Configured, Loaded, Going
<1>3. HostIsRead /\ Silent /\ Judged
  BY DEF SInit, Init, HostIsRead, Silent, Judged
<1> QED
  BY <1>1, <1>2, <1>3 DEF SentinelInv

\* What is done stays as it is while nothing it is about changes.
LEMMA CollectStays ==
    ASSUME CollectInv, UNCHANGED vars PROVE CollectInv'
BY DEF vars, CollectInv, CTypeOK, Listing, Inspection

(* A step that leaves the collection and the observations alone keeps what was
   shown of them. *)
LEMMA JudgedStays ==
    ASSUME Silent, Judged, UNCHANGED <<vars, report>> PROVE Silent' /\ Judged'
<1>1. Today' = Today /\ Steady' = Steady
  BY DEF vars, Today, Steady
<1>2. Live' = Live
  BY <1>1 DEF vars, results, Live
<1>3. Counted' = Counted
  BY <1>1, <1>2 DEF vars, results, Counted
<1>4. Exact' = Exact
  BY <1>3 DEF vars, Exact
<1>5. /\ MapThenSumSet(Cost, Counted)' = MapThenSumSet(Cost, Counted)
      /\ MapThenSumSet(Cost, Counted \ Unread)' = MapThenSumSet(Cost, Counted \ Unread)
  <2>1. Unread' = Unread
    BY <1>3 DEF vars, Unread
  <2> QED
    BY <1>3, <2>1 DEF Cost, MapThenSumSet, MapThenFoldSet
<1>6. \A o \in raw : Measured(o)' = Measured(o)
  BY DEF Measured
<1>7. SpeaksOf(raw, Counted)' = SpeaksOf(raw, Counted)
  BY <1>3 DEF vars, SpeaksOf
<1>8. Silent'
  BY DEF Silent, vars
<1>9. Judged'
  BY <1>3, <1>4, <1>5, <1>6, <1>7 DEF Judged, vars
<1> QED
  BY <1>8, <1>9

\* The commands and the reading of the host leave the collection alone.
LEMMA CommandsKeep ==
    ASSUME SentinelInv,
           \/ Load \/ Refused \/ CheckPasses
           \/ (\E ok \in BOOLEAN : Probe(ok)) \/ SelftestEnds
           \/ ReadHost
    PROVE  SentinelInv'
<1>1. UNCHANGED <<vars, report>>
  BY DEF Load, Refused, CheckPasses, Probe, SelftestEnds, ReadHost
<1>2. CollectInv' /\ Silent' /\ Judged'
  BY <1>1, CollectStays, JudgedStays DEF SentinelInv
<1>3. Configured /\ HostIsRead
  BY DEF SentinelInv
<1>4. stage' = stage
  BY <1>1 DEF vars
<1>5. CASE Load
  <2>1. host = NotRead /\ stage = "ping" /\ probes = <<>> /\ exit # 0
    BY <1>3, <1>5 DEF Load, Configured, Going
  <2>2. Configured'
    BY <1>3, <1>4, <1>5, <2>1 DEF Load, Configured, Loaded
  <2>3. HostIsRead'
    BY <1>3, <1>4, <1>5, <2>1 DEF Load, HostIsRead
  <2> QED
    BY <1>2, <2>2, <2>3 DEF SentinelInv
<1>6. CASE Refused
  <2>1. Configured' /\ HostIsRead'
    BY <1>3, <1>4, <1>6 DEF Refused, Configured, Loaded, HostIsRead, Probed
  <2> QED
    BY <1>2, <2>1 DEF SentinelInv
<1>7. CASE CheckPasses
  <2>1. Configured' /\ HostIsRead'
    BY <1>3, <1>4, <1>7 DEF CheckPasses, Command, Configured, Loaded, HostIsRead, Probed
  <2> QED
    BY <1>2, <2>1 DEF SentinelInv
<1>8. ASSUME NEW ok \in BOOLEAN, Probe(ok) PROVE SentinelInv'
  <2>1. Loaded /\ exit # 0 /\ UNCHANGED <<situation, cfg, host, verdicts, exit>>
        /\ probes' = Append(probes, ok)
    BY <1>8 DEF Probe, Command, Going
  <2>2. probes' \in Seq(BOOLEAN)
    BY <1>3, <2>1 DEF Configured
  <2>3. Configured'
    BY <1>3, <1>4, <2>1, <2>2 DEF Configured, Loaded
  <2>4. HostIsRead'
    BY <1>3, <1>4, <2>1 DEF HostIsRead
  <2> QED
    BY <1>2, <2>3, <2>4 DEF SentinelInv
<1>9. CASE SelftestEnds
  <2>1. /\ Loaded /\ UNCHANGED <<situation, cfg, host, verdicts, probes>>
        /\ Len(probes) = Probed
        /\ exit' = IF \A i \in DOMAIN probes : probes[i] THEN 0 ELSE 1
    BY <1>9 DEF SelftestEnds
  <2>2. exit' = 0 => probes = [i \in 1..Probed |-> TRUE]
    <3>1. SUFFICES ASSUME \A i \in DOMAIN probes : probes[i]
                   PROVE  probes = [i \in 1..Probed |-> TRUE]
      BY <2>1
    <3>2. probes \in [1..Probed -> BOOLEAN]
      BY <1>3, <2>1 DEF Configured
    <3> QED
      BY <3>1, <3>2
  <2>3. Configured'
    BY <1>3, <1>4, <2>1, <2>2 DEF Configured, Loaded, Probed
  <2>4. HostIsRead'
    BY <1>3, <1>4, <2>1 DEF HostIsRead
  <2> QED
    BY <1>2, <2>3, <2>4 DEF SentinelInv
<1>10. CASE ReadHost
  <2>1. /\ Loaded /\ host = NotRead /\ exit # 0
        /\ UNCHANGED <<situation, cfg, verdicts, probes, exit>>
    BY <1>10 DEF ReadHost, Command, Going
  <2>2. verdicts = {} /\ stage # "done"
    BY <1>3, <2>1 DEF HostIsRead
  <2>3. Configured'
    BY <1>3, <1>4, <2>1 DEF Configured, Loaded
  <2>4. HostIsRead'
    BY <1>4, <1>10, <2>1, <2>2 DEF ReadHost, HostIsRead
  <2> QED
    BY <1>2, <2>3, <2>4 DEF SentinelInv
<1> QED
  BY <1>5, <1>6, <1>7, <1>8, <1>9, <1>10

\* While the run collects nothing has been said.
LEMMA CollectingKeeps ==
    ASSUME SentinelInv, CollectInv', UNCHANGED ours, stage # "done", stage' # "done",
           UNCHANGED results, Loaded \/ stage' = stage
    PROVE  SentinelInv'
<1>1. Configured'
  BY DEF SentinelInv, Configured, Loaded, ours, Probed
<1>2. HostIsRead'
  BY DEF SentinelInv, HostIsRead, ours
<1>3. Silent' /\ Judged'
  BY DEF SentinelInv, Silent, Judged, results
<1> QED
  BY <1>1, <1>2, <1>3 DEF SentinelInv

\* The run says what it found of all it looked at.
LEMMA EvaluateAllKeeps ==
    ASSUME SentinelInv, EvaluateAll PROVE SentinelInv'
<1>1. PICK case \in Cases, rep \in [Services -> Containers] :
         /\ \A s \in Services : rep[s] \in Representatives(s)
         /\ given' = case
         /\ raw' = RawOf(case, rep)
         /\ observations' = Apply(case.rules, case.now, raw')
  BY DEF EvaluateAll, Evaluate, RawOf
<1>2. /\ stage' = "done" /\ host # NotRead /\ Loaded
      /\ UNCHANGED <<docker, health, found, changed>>
      /\ verdicts' = LevelObservations(cfg, host) /\ report' = Build(observations')
      /\ UNCHANGED <<situation, cfg, host, probes, exit>>
  BY DEF EvaluateAll, Evaluate, SentinelInv, Configured
<1>3. CollectInv'
  BY <1>2 DEF SentinelInv, CollectInv, CTypeOK, Listing, Inspection
<1>4. Configured'
  BY <1>2 DEF SentinelInv, Configured, Loaded, Probed
<1>5. HostIsRead'
  BY <1>2 DEF SentinelInv, HostIsRead
<1>6. Silent'
  BY <1>2 DEF Silent
<1>7. CollectInv
  BY DEF SentinelInv
<1>8. \A o \in raw' : Measured(o)'
  BY <1>1, <1>7, RawIsMeasured DEF Measured
<1>9. Counted' = CountedBy(case)
  <2>1. (given \in Cases => Counted = CountedBy(given))'
    BY CountedByRules, PTL
  <2>2. CountedBy(given)' = CountedBy(case)
    BY <1>1, <1>2 DEF CountedBy, Steady
  <2> QED
    BY <1>1, <2>1, <2>2
<1>10. SpeaksOf(raw, Counted)'
  <2>1. SpeaksOf(RawOf(case, rep), CountedBy(case))
    BY <1>1, <1>7, RawSpeaks
  <2> QED
    BY <1>1, <1>2, <1>9, <2>1 DEF SpeaksOf
<1>11. ASSUME NEW o \in raw', o.check = "declared_overcommit"
       PROVE  o = DeclaredOvercommit(case)
  <2>1. \A c \in Containers : \A h, tier, value :
           /\ Linked("unbounded_mem", c, h, tier, value).check = "unbounded_mem"
           /\ Linked("crashloop", c, h, tier, value).check = "crashloop"
    BY DEF Linked
  <2>2. o \notin UnboundedMem(case)
    BY <1>11 DEF UnboundedMem, Linked
  <2>3. \A s \in Services : o # CrashLoop(case, s, rep[s])
    BY <1>11 DEF CrashLoop, Linked
  <2>4. \A check \in PerContainerCheckIDs : o # Unlinked(check, "docker", "UNKNOWN", "WARN")
    BY <1>11 DEF Unlinked, PerContainerCheckIDs
  <2> QED
    BY <1>1, <2>2, <2>3, <2>4 DEF RawOf
<1>12. \A o \in raw' : o.check = "declared_overcommit" =>
          /\ o.health = "OK" => MapThenSumSet(Cost, Counted \ Unread)' <= Usable
          /\ o.health = "BAD" /\ changed' = {} /\ Exact'
                => MapThenSumSet(Cost, Counted)' > Usable
  <2>1. /\ MapThenSumSet(Cost, Counted)' = MapThenSumSet(Cost, CountedBy(case))
        /\ MapThenSumSet(Cost, Counted \ Unread)'
              = MapThenSumSet(Cost, CountedBy(case) \ UnreadOf(case))
    <3>1. Unread' = UnreadOf(case)
      BY <1>2, <1>9 DEF Unread, UnreadOf
    <3> QED
      BY <1>9, <3>1 DEF Cost, MapThenSumSet, MapThenFoldSet
  <2>2. Exact' => \A c \in CountedBy(case) : found[c].used \in {0, WorkingSet[c]}
    BY <1>2, <1>9 DEF Exact
  <2>3. changed' = changed
    BY <1>2
  <2> QED
    BY <1>7, <1>11, <2>1, <2>2, <2>3, BudgetOfRaw
<1>13. Judged'
  BY <1>1, <1>2, <1>8, <1>10, <1>12 DEF Judged
<1> QED
  BY <1>3, <1>4, <1>5, <1>6, <1>13 DEF SentinelInv

\* One step of the program, or of what surrounds it.
LEMMA NextKeeps ==
    SentinelInv /\ [SNext]_svars => SentinelInv'
<1> SUFFICES ASSUME SentinelInv, [SNext]_svars PROVE SentinelInv'
  OBVIOUS
<1>1. CASE UNCHANGED svars
  <2>1. UNCHANGED <<vars, report>> /\ UNCHANGED ours /\ UNCHANGED vars
    BY <1>1 DEF svars, ours
  <2>2. CollectInv' /\ Silent' /\ Judged'
    BY <2>1, CollectStays, JudgedStays DEF SentinelInv
  <2>3. Configured' /\ HostIsRead'
    BY <2>1 DEF SentinelInv, Configured, HostIsRead, Loaded, Probed, ours, vars
  <2> QED
    BY <2>2, <2>3 DEF SentinelInv
<1>2. CASE CollectDocker
  <2>1. CollectInv'
    BY <1>2, CollectorKeeps DEF CollectDocker, SentinelInv
  <2>2. Loaded /\ UNCHANGED ours /\ stage # "done" /\ stage' # "done" /\ UNCHANGED results
    <3>1. Loaded /\ UNCHANGED ours
      BY <1>2 DEF CollectDocker, SentinelInv, Configured
    <3>2. stage # "done" /\ stage' # "done" /\ UNCHANGED results
      BY <1>2 DEF CollectDocker, DeadlineHits, PingAnswered, Unreachable, Listed, Goroutine,
                  Acquire, GiveUp, Inspected, InspectFails, Worker, Gather
    <3> QED
      BY <3>1, <3>2
  <2> QED
    BY <2>1, <2>2, CollectingKeeps
<1>3. CASE EvaluateAll
  BY <1>3, EvaluateAllKeeps
<1>4. CASE Surroundings
  <2>1. PICK c \in Containers, state \in {"running", "exited", "gone"} : Become(c, state)
    BY <1>4 DEF Surroundings, Environment, ComesUp, GoesDown, Removed
  <2>2. CollectInv'
    BY <2>1, BecomeKeeps DEF SentinelInv
  <2>3. UNCHANGED ours /\ stage # "done" /\ stage' = stage /\ UNCHANGED results
    BY <1>4, <2>1 DEF Surroundings, Become
  <2> QED
    BY <2>2, <2>3, CollectingKeeps
<1>5. CASE \/ Load \/ Refused \/ CheckPasses
           \/ (\E ok \in BOOLEAN : Probe(ok)) \/ SelftestEnds
           \/ ReadHost
  BY <1>5, CommandsKeep
<1> QED
  BY <1>1, <1>2, <1>3, <1>4, <1>5 DEF SNext, Program

\* The invariant of the whole program, from the command line to the report.
THEOREM SentinelInvariant == SSpec => []SentinelInv
BY InitHolds, NextKeeps, PTL DEF SSpec

-----------------------------------------------------------------------------
(* What the exceptions leave of what was measured *)

\* Of every measurement there is what the rules made of it, and of nothing else.
LEMMA Outcome ==
    ASSUME SentinelInv, stage = "done"
    PROVE  /\ \A o \in raw : \E p \in observations : Tempered(given.rules, given.now, o, p)
           /\ \A p \in observations :
                 \/ \E o \in raw : Tempered(given.rules, given.now, o, p)
                 \/ \E i \in DOMAIN given.rules :
                       RuleExpired(given.rules[i], given.now) /\ p = ExpiryWarn(i)
           /\ \A i \in DOMAIN given.rules :
                 RuleExpired(given.rules[i], given.now) => ExpiryWarn(i) \in observations
<1> DEFINE made(o) == Transformed(given.rules, given.now, o)
<1>1. given \in Cases /\ observations = Apply(given.rules, given.now, raw)
      /\ \A o \in raw : Measured(o)
  BY DEF SentinelInv, Judged
<1>2. Len(given.rules) \in Nat /\ DOMAIN given.rules = 1..Len(given.rules)
  BY <1>1, SamplingAssumption
<1>3. \A o \in raw : Tempered(given.rules, given.now, o, made(o))
  BY <1>1, <1>2, TransformedTempers DEF Measured
<1>4. \A o \in raw : made(o) \in observations
  BY <1>1 DEF Apply
<1>5. \A p \in observations :
         \/ \E o \in raw : p = made(o)
         \/ \E i \in DOMAIN given.rules :
               RuleExpired(given.rules[i], given.now) /\ p = ExpiryWarn(i)
  BY <1>1 DEF Apply
<1>6. \A i \in DOMAIN given.rules :
         RuleExpired(given.rules[i], given.now) => ExpiryWarn(i) \in observations
  BY <1>1 DEF Apply
<1> HIDE DEF made
<1> QED
  BY <1>3, <1>4, <1>5, <1>6

\* The rules that have not expired.
LEMMA LiveRules ==
    ASSUME given \in Cases
    PROVE  /\ Live \subseteq DOMAIN given.rules
           /\ \A i \in DOMAIN given.rules :
                 i \in Live <=> ~RuleExpired(given.rules[i], given.now)
BY LiveByTheClock DEF Live, Today

\* unbounded_mem speaks of the limits Docker has, of whatever number of containers
\* and under whatever exceptions: UnboundedMem takes an inspection's limit only,
\* inspectInto fills it in from Docker, and no rule re-decides this check.
THEOREM LimitsAreHonest == SSpec => []LimitsAreTrue
<1>1. SentinelInv => LimitsAreTrue
  <2> SUFFICES ASSUME SentinelInv, NEW p \in observations,
                      p.check = "unbounded_mem", p.of \in Containers
               PROVE  /\ p.health = "BAD" => Limit[p.of] = 0
                      /\ p.health = "OK" => Limit[p.of] > 0
    BY DEF LimitsAreTrue
  <2>1. stage = "done"
    BY DEF SentinelInv, Silent
  <2>2. \A i : p # ExpiryWarn(i)
    BY DEF ExpiryWarn
  <2>3. PICK o \in raw : Tempered(given.rules, given.now, o, p)
    BY <2>1, <2>2, Outcome
  <2>4. Measured(o)
    BY <2>1 DEF SentinelInv, Judged
  <2>5. o.check = "unbounded_mem" /\ o.of = p.of /\ o.health = p.health
    BY <2>3 DEF Tempered, SameThing, Primary
  <2> QED
    BY <2>4, <2>5 DEF Measured
<1> QED
  BY <1>1, SentinelInvariant, PTL

\* What ran all the while and counts is spoken of, whatever the exceptions do to
\* the observations of it, and a source that failed leaves its mark: inspections
\* that fail leave the container of the list, and Apply drops nothing.
THEOREM NothingIsAbsent == SSpec => []NeverAbsent
<1>1. SentinelInv => NeverAbsent
  <2> SUFFICES ASSUME SentinelInv, stage = "done" PROVE SpeaksOf(observations, Counted)
    BY DEF NeverAbsent, SpeaksOf
  <2>1. SpeaksOf(raw, Counted)
    BY DEF SentinelInv, Judged
  <2>2. \A o \in raw : \E p \in observations :
           p.check = o.check /\ p.scope = o.scope /\ p.of = o.of
    BY Outcome DEF Tempered, SameThing
  <2>3. CASE health = "OK"
    <3>1. ASSUME NEW c \in Counted
          PROVE  /\ \E p \in observations : p.check = "unbounded_mem" /\ p.of = c
                 /\ \E p \in observations :
                       p.check = "crashloop" /\ p.scope = Identity[c].key
      <4>1. PICK o \in raw : o.check = "unbounded_mem" /\ o.of = c
        BY <2>1, <2>3 DEF SpeaksOf
      <4>2. PICK q \in raw : q.check = "crashloop" /\ q.scope = Identity[c].key
        BY <2>1, <2>3 DEF SpeaksOf
      <4> QED
        BY <2>2, <4>1, <4>2
    <3> QED
      BY <2>3, <3>1 DEF SpeaksOf
  <2>4. CASE health # "OK"
    <3>1. ASSUME NEW check \in PerContainerCheckIDs
          PROVE  \E p \in observations : p.check = check /\ p.scope = "docker"
      <4>1. PICK o \in raw : o.check = check /\ o.scope = "docker"
        BY <2>1, <2>4 DEF SpeaksOf
      <4> QED
        BY <2>2, <4>1
    <3> QED
      BY <2>4, <3>1 DEF SpeaksOf
  <2> QED
    BY <2>3, <2>4
<1> QED
  BY <1>1, SentinelInvariant, PTL

\* A rule warns of itself if and only if its last day is over, and from then on
\* does nothing else: ruleExpired, for every clock and every last day, and Apply,
\* for every number of rules.
THEOREM ExpiredRulesOnlyWarn == SSpec => []ExpiredRulesAreInert
<1>1. SentinelInv => ExpiredRulesAreInert
  <2> SUFFICES ASSUME SentinelInv PROVE ExpiredRulesAreInert
    OBVIOUS
  <2>1. CASE stage # "done"
    <3>1. given.rules = <<>> /\ raw = {}
      BY <2>1 DEF SentinelInv, Silent, NoCase
    <3> QED
      BY <3>1 DEF ExpiredRulesAreInert
  <2>2. CASE stage = "done"
    <3>1. given \in Cases
      BY <2>2 DEF SentinelInv, Judged
    <3>2. ASSUME NEW i \in DOMAIN given.rules
          PROVE  (ExpiryWarn(i) \in observations) <=> i \notin Live
      <4>1. i \notin Live => ExpiryWarn(i) \in observations
        BY <2>2, <3>1, Outcome, LiveRules
      <4>2. ASSUME ExpiryWarn(i) \in observations PROVE i \notin Live
        <5>1. \A o \in raw : ~Tempered(given.rules, given.now, o, ExpiryWarn(i))
          BY <2>2 DEF SentinelInv, Judged, Measured, Tempered, SameThing, ExpiryWarn
        <5>2. PICK j \in DOMAIN given.rules :
                 /\ RuleExpired(given.rules[j], given.now)
                 /\ ExpiryWarn(i) = ExpiryWarn(j)
          BY <2>2, <4>2, <5>1, Outcome
        <5>3. i = j
          <6>1. ExpiryWarn(i).scope = i /\ ExpiryWarn(j).scope = j
            BY DEF ExpiryWarn
          <6> QED
            BY <5>2, <6>1
        <5> QED
          BY <3>1, <5>2, <5>3, LiveRules
      <4> QED
        BY <4>1, <4>2
    <3>3. ASSUME NEW o \in raw, \A i \in Live : ~MatchSpec(given.rules[i].match, o.target)
          PROVE  o \in observations
      <4>1. PICK p \in observations : Tempered(given.rules, given.now, o, p)
        BY <2>2, Outcome
      <4>2. \A i \in DOMAIN given.rules :
               \/ RuleExpired(given.rules[i], given.now)
               \/ ~MatchSpec(given.rules[i].match, o.target)
        BY <3>1, <3>3, LiveRules
      <4> QED
        BY <4>1, <4>2 DEF Tempered
    <3> QED
      BY <2>2, <3>2, <3>3 DEF ExpiredRulesAreInert
  <2> QED
    BY <2>1, <2>2
<1> QED
  BY <1>1, SentinelInvariant, PTL

\* Everything a check found BAD is in the report, and BAD but for a live rule that
\* matches it and asks for more than was measured: however many rules apply, in
\* whatever order, and whatever they mute or retier.
THEOREM MutesOnlyRelabel == SSpec => []NothingHidden
<1>1. SentinelInv => NothingHidden
  <2> SUFFICES ASSUME SentinelInv, stage = "done", NEW o \in raw, o.health = "BAD"
               PROVE  \E p \in report.findings \cup report.suppressed :
                         SameKey(o, p) /\ (p.health = "BAD" \/ Excused(o))
    BY DEF NothingHidden
  <2>1. PICK p \in observations : Tempered(given.rules, given.now, o, p)
    BY Outcome
  <2>2. p \in report.findings \cup report.suppressed
    BY <2>1 DEF SentinelInv, Judged, Build
  <2>3. SameKey(o, p)
    BY <2>1 DEF Tempered, SameThing, SameKey
  <2>4. ASSUME NEW i \in DOMAIN given.rules, Overrules(given.rules[i], given.now, o)
        PROVE  Excused(o)
    <3>1. given \in Cases /\ o.value \in Int
      BY DEF SentinelInv, Judged, Measured
    <3>2. i \in Live
      BY <2>4, <3>1, LiveRules DEF Overrules
    <3>3. o.check \in DOMAIN given.rules[i].thresholds
          /\ given.rules[i].thresholds[o.check] \in Int
      BY <2>4, <3>1, SamplingAssumption DEF Overrules
    <3>4. given.rules[i].thresholds[o.check] > o.value
      BY <2>4, <3>1, <3>3 DEF Overrules
    <3> QED
      BY <2>4, <3>2, <3>3, <3>4 DEF Overrules, Excused
  <2>5. p.health = "BAD" \/ Excused(o)
    BY <2>1, <2>4 DEF Tempered
  <2> QED
    BY <2>2, <2>3, <2>5
<1> QED
  BY <1>1, SentinelInvariant, PTL

\* declared_overcommit, for every number of containers, limit and floor: its sum is
\* over all that ran and counts, in any order, and takes no less for a container than
\* it costs, but for one without a limit whose cgroup was not read.
THEOREM BudgetIsComplete == SSpec => []BudgetIsWhole
<1>1. SentinelInv => BudgetIsWhole
  <2> SUFFICES ASSUME SentinelInv, NEW p \in observations,
                      p.check = "declared_overcommit"
               PROVE  /\ p.health = "OK"
                            => MapThenSumSet(Cost, Counted \ Unread) <= Usable
                      /\ p.health = "BAD" /\ changed = {} /\ Exact
                            => MapThenSumSet(Cost, Counted) > Usable
    BY DEF BudgetIsWhole
  <2>1. stage = "done"
    BY DEF SentinelInv, Silent
  <2>2. \A i : p # ExpiryWarn(i)
    BY DEF ExpiryWarn
  <2>3. PICK o \in raw : Tempered(given.rules, given.now, o, p)
    BY <2>1, <2>2, Outcome
  <2>4. o.check = "declared_overcommit" /\ o.health = p.health
    BY <2>3 DEF Tempered, SameThing, Primary
  <2> QED
    BY <2>1, <2>4 DEF SentinelInv, Judged
<1> QED
  BY <1>1, SentinelInvariant, PTL

\* Exit code 0 is earned, and nothing is read, asked or posted before a
\* configuration is accepted: main loads it first, and selftest is over when its
\* probes are, for every number of targets.
THEOREM ExitIsEarned == SSpec => []ExitIsHonest
<1>1. SentinelInv => ExitIsHonest
  BY DEF SentinelInv, Configured, ExitIsHonest
<1> QED
  BY <1>1, SentinelInvariant, PTL

-----------------------------------------------------------------------------
(* What an accepted file is good for *)

\* Decode replaces the addresses of the channels and the floor, nothing else.
LEMMA DecodedFile ==
    ASSUME NEW s \in Situations, NEW c \in Decode(s.file, s.secret)
    PROVE  /\ \A field \in DOMAIN s.file \ {"targets", "declared_overcommit"} :
                 c[field] = s.file[field]
           /\ DOMAIN c = DOMAIN s.file
           /\ c.declared_overcommit.headroom_floor
                 \in ByteSizes(s.file.declared_overcommit.headroom_floor)
           /\ c.declared_overcommit.headroom_reserve_pct =
                 s.file.declared_overcommit.headroom_reserve_pct
           /\ \A name \in DOMAIN c.targets : c.targets[name].url # "${URL}"
<1> DEFINE f == s.file
<1>1. /\ {"targets", "declared_overcommit"} \subseteq DOMAIN f
      /\ \A name \in DOMAIN f.targets : "url" \in DOMAIN f.targets[name]
      /\ {"headroom_reserve_pct", "headroom_floor"} \subseteq DOMAIN f.declared_overcommit
      /\ s.secret # "${URL}"
  BY SituationsAssumption DEF WellTyped
<1>2. PICK floor \in ByteSizes(f.declared_overcommit.headroom_floor) :
         c = [WithUrls(f, s.secret) EXCEPT !.declared_overcommit.headroom_floor = floor]
  BY DEF Decode
<1> HIDE DEF f
<1> DEFINE w == WithUrls(f, s.secret)
           t == [name \in DOMAIN f.targets |->
                   [f.targets[name] EXCEPT !.url = Expanded(@, s.secret)]]
<1>3. /\ DOMAIN w = DOMAIN f
      /\ \A field \in DOMAIN f \ {"targets"} : w[field] = f[field]
      /\ w.targets = t
  <2>1. w = [f EXCEPT !.targets = t]
    BY DEF WithUrls
  <2> HIDE DEF t, w
  <2> QED
    BY <1>1, <2>1
<1> HIDE DEF w
<1>4. /\ DOMAIN c = DOMAIN f
      /\ \A field \in DOMAIN f \ {"targets", "declared_overcommit"} : c[field] = f[field]
      /\ c.targets = w.targets
      /\ c.declared_overcommit = [f.declared_overcommit EXCEPT !.headroom_floor = floor]
  BY <1>1, <1>2, <1>3 DEF w
<1>5. /\ c.declared_overcommit.headroom_floor = floor
      /\ c.declared_overcommit.headroom_reserve_pct =
            f.declared_overcommit.headroom_reserve_pct
  BY <1>1, <1>4
<1>6. ASSUME NEW name \in DOMAIN c.targets PROVE c.targets[name].url # "${URL}"
  <2>1. c.targets = t /\ name \in DOMAIN f.targets
    BY <1>3, <1>4
  <2>2. c.targets[name] = [f.targets[name] EXCEPT !.url = Expanded(@, s.secret)]
    BY <2>1
  <2>3. c.targets[name].url = Expanded(f.targets[name].url, s.secret)
    BY <1>1, <2>1, <2>2
  <2> QED
    BY <1>1, <2>3 DEF Expanded
<1> QED
  BY <1>4, <1>5, <1>6 DEF f

Number == Int \cup {NaN}

\* Numbers compare as numbers.
LEMMA Compared ==
    ASSUME NEW a \in Int, NEW b \in Int
    PROVE  (AtLeast(a, b) <=> a >= b) /\ (Lt(a, b) <=> a < b) /\ a # NaN
<1>1. a # NaN /\ b # NaN
  BY ConfigurationAssumption
<1> QED
  BY <1>1 DEF AtLeast, Lt

\* A percentage that Validate lets through, and an order it demands.
LEMMA PercentRange ==
    ASSUME NEW v \in Number, RequirePercent(v), v # NaN PROVE v \in 1..100
<1>1. v \in Int
  BY DEF Number
<1>2. ~(0 >= v) /\ ~(100 < v)
  BY <1>1, Compared DEF RequirePercent
<1> QED
  BY <1>1, <1>2

(* requireOrdered lets only thresholds through that are numbers in their order. *)
LEMMA OrderedNumbers ==
    ASSUME NEW a \in Number, NEW b \in Number, RequireOrdered(a, b)
    PROVE  a \in Int /\ b \in Int /\ a < b
BY DEF Number, RequireOrdered, Lt

\* An enabled mem_pressure that is valid has a place for each tier.
LEMMA MemPressureTiers ==
    ASSUME NEW mp, {mp.warn, mp.alert, mp.page} \subseteq Number,
           MemPressureValid(mp), mp.enabled
    PROVE  /\ mp.warn \in 1..100 /\ mp.alert \in 1..100 /\ mp.page \in 1..100
           /\ mp.warn < mp.alert /\ mp.alert < mp.page
<1>1. /\ RequirePercent(mp.warn) /\ RequirePercent(mp.page)
      /\ RequireOrdered(mp.warn, mp.alert) /\ RequireOrdered(mp.alert, mp.page)
  BY DEF MemPressureValid
<1>2. /\ mp.warn \in Int /\ mp.alert \in Int /\ mp.page \in Int
      /\ mp.warn < mp.alert /\ mp.alert < mp.page
  BY <1>1, OrderedNumbers
<1>3. mp.warn \in 1..100 /\ mp.page \in 1..100
  BY <1>1, <1>2, PercentRange, ConfigurationAssumption
<1> QED
  BY <1>2, <1>3

\* How bad mem_pressure finds a host of which `used` in a hundred are used.
LEMMA MemPressureOf ==
    ASSUME NEW mp, mp.warn \in 1..100, mp.alert \in 1..100, mp.page \in 1..100,
           NEW used \in 0..100
    PROVE  Severity(MemPressure(mp, Sample(used))) =
              IF used >= mp.page THEN 3 ELSE IF used >= mp.alert THEN 2
              ELSE IF used >= mp.warn THEN 1 ELSE 0
<1> DEFINE mem == Sample(used)
<1>1. mem.health = "OK" /\ mem.total = 100 /\ mem.available = 100 - used
  BY DEF Sample
<1>2. (IF mem.available >= mem.total THEN 0 ELSE mem.total - mem.available) = used
  BY <1>1
<1>3. ASSUME NEW th \in 1..100 PROVE Reaches(used, 100, th) <=> used >= th
  BY Compared DEF Reaches
<1> HIDE DEF mem
<1>4. MemPressure(mp, mem) = IF used >= mp.page THEN Verdict("BAD", "PAGE")
                             ELSE IF used >= mp.alert THEN Verdict("BAD", "ALERT")
                             ELSE IF used >= mp.warn THEN Verdict("BAD", "WARN")
                             ELSE Healthy
  BY <1>1, <1>2, <1>3 DEF MemPressure
<1>5. /\ Severity(Verdict("BAD", "PAGE")) = 3 /\ Severity(Verdict("BAD", "ALERT")) = 2
      /\ Severity(Verdict("BAD", "WARN")) = 1 /\ Severity(Healthy) = 0
  BY DEF Severity, Verdict, Healthy
<1> QED
  BY <1>4, <1>5 DEF mem

(* How bad disk_inodes finds a filesystem with `used` in a hundred inodes used. *)
LEMMA DiskInodesOf ==
    ASSUME NEW di, di.alert \in 1..100, NEW used \in 0..100
    PROVE  Severity(DiskInodes(di, Inodes(used))) = IF used >= di.alert THEN 2 ELSE 0
<1> DEFINE disk == Inodes(used)
<1>1. disk.health = "OK" /\ disk.inodes = 100 /\ disk.inodesUsed = used
  BY DEF Inodes
<1>2. Reaches(used, 100, di.alert) <=> used >= di.alert
  BY Compared DEF Reaches
<1> HIDE DEF disk
<1>3. DiskInodes(di, disk) = IF used >= di.alert THEN Verdict("BAD", "ALERT") ELSE Healthy
  BY <1>1, <1>2 DEF DiskInodes
<1>4. Severity(Verdict("BAD", "ALERT")) = 2 /\ Severity(Healthy) = 0
  BY DEF Severity, Verdict, Healthy
<1> QED
  BY <1>3, <1>4 DEF disk

InFour(f, w, a, p) ==
    \A u \in 0..100 :
        f[u] = IF u >= p THEN 3 ELSE IF u >= a THEN 2 ELSE IF u >= w THEN 1 ELSE 0
InThree(f, w, a) ==
    \A u \in 0..100 : f[u] = IF u >= a THEN 2 ELSE IF u >= w THEN 1 ELSE 0
Says(f, n) ==
    (\A u \in 0..100 : f[u] \in 0..n) /\ \A level \in 0..n : \E u \in 0..100 : f[u] = level

\* A check with three thresholds in their order has four things to say.
LEMMA FourLevels ==
    ASSUME NEW w \in 1..100, NEW a \in 1..100, NEW p \in 1..100, w < a, a < p, NEW f,
           InFour(f, w, a, p)
    PROVE  Says(f, 3)
<1> USE DEF InFour, Says
<1>1. /\ w \in 0..100 /\ a \in 0..100 /\ p \in 0..100 /\ 0 \in 0..100 /\ 0 < w
  OBVIOUS
<1>2. f[0] = 0
  <2>1. ~(0 >= p) /\ ~(0 >= a) /\ ~(0 >= w)
    BY <1>1
  <2>2. f[0] = IF 0 >= p THEN 3 ELSE IF 0 >= a THEN 2 ELSE IF 0 >= w THEN 1 ELSE 0
    BY <1>1
  <2> QED
    BY <2>1, <2>2
<1>3. f[w] = 1 /\ f[a] = 2 /\ f[p] = 3
  BY <1>1
<1>4. \A u \in 0..100 : f[u] \in 0..3
  OBVIOUS
<1>5. \A n \in 0..3 : n = 0 \/ n = 1 \/ n = 2 \/ n = 3
  OBVIOUS
<1> QED
  BY <1>1, <1>2, <1>3, <1>4, <1>5

\* One with two has three.
LEMMA ThreeLevels ==
    ASSUME NEW w \in 1..100, NEW a \in 1..100, w < a, NEW f, InThree(f, w, a)
    PROVE  Says(f, 2)
<1> USE DEF InThree, Says
<1>1. w \in 0..100 /\ a \in 0..100 /\ 0 \in 0..100 /\ 0 < w
  OBVIOUS
<1>2. f[0] = 0
  <2>1. ~(0 >= a) /\ ~(0 >= w)
    BY <1>1
  <2>2. f[0] = IF 0 >= a THEN 2 ELSE IF 0 >= w THEN 1 ELSE 0
    BY <1>1
  <2> QED
    BY <2>1, <2>2
<1>3. f[w] = 1 /\ f[a] = 2
  BY <1>1
<1>4. \A u \in 0..100 : f[u] \in 0..2
  OBVIOUS
<1>5. \A n \in 0..2 : n = 0 \/ n = 1 \/ n = 2
  OBVIOUS
<1> QED
  BY <1>1, <1>2, <1>3, <1>4, <1>5

\* A promise that swap covers many times over does not trip the guard of
\* committed_as, whatever the file says of it.
LEMMA CoveredPromise ==
    ASSUME NEW ca, ca.commit_vs_swap_ratio \in Number, NEW p \in Nat
    PROVE  ~SwapGuard(ca, Promise(p, 100 * p))
<1> SUFFICES ASSUME SwapGuard(ca, Promise(p, 100 * p)) PROVE FALSE
  OBVIOUS
<1>1. PICK r \in Int : r = ca.commit_vs_swap_ratio /\ 0 < r
  BY DEF SwapGuard, Number, Lt
<1>2. p * 100 > (200 + 100 * p) * r
  BY <1>1 DEF SwapGuard, Promise
<1>3. PICK x \in Nat : x = 200 + 100 * p
  OBVIOUS
<1>4. x * r >= x
  BY <1>1
<1>5. x * r \in Int /\ x > p * 100
  BY <1>1, <1>3
<1> QED
  BY <1>2, <1>3, <1>4, <1>5

\* How bad committed_as finds such a promise.
LEMMA CommittedASOf ==
    ASSUME NEW ca, ca.warn \in Int, ca.alert \in Int, ca.commit_vs_swap_ratio \in Number,
           NEW p \in Nat \ {0}
    PROVE  Severity(CommittedAS(ca, Promise(p, 100 * p))) =
              IF p >= 2 * ca.alert THEN 2 ELSE IF p >= 2 * ca.warn THEN 1 ELSE 0
<1> DEFINE mem == Promise(p, 100 * p)
<1>1. mem.health = "OK" /\ mem.total = 200 /\ mem.committed = p /\ p # 0
  BY DEF Promise
<1>2. ~SwapGuard(ca, mem)
  BY CoveredPromise
<1>3. ASSUME NEW th \in Int PROVE Reaches(p, 200, th) <=> p >= 2 * th
  <2>1. p * 100 \in Int /\ th * 200 \in Int /\ (p * 100 >= th * 200 <=> p >= 2 * th)
    OBVIOUS
  <2> QED
    BY <2>1, Compared DEF Reaches
<1> HIDE DEF mem
<1>4. CommittedAS(ca, mem) = IF p >= 2 * ca.alert THEN Verdict("BAD", "ALERT")
                             ELSE IF p >= 2 * ca.warn THEN Verdict("BAD", "WARN")
                             ELSE Healthy
  BY <1>1, <1>2, <1>3 DEF CommittedAS
<1>5. /\ Severity(Verdict("BAD", "ALERT")) = 2 /\ Severity(Verdict("BAD", "WARN")) = 1
      /\ Severity(Healthy) = 0
  BY DEF Severity, Verdict, Healthy
<1> QED
  BY <1>4, <1>5 DEF mem

\* Every tier of the memory checks of an accepted file is reached.
LEMMA MemoryReached ==
    ASSUME {cfg.mem_pressure.warn, cfg.mem_pressure.alert, cfg.mem_pressure.page,
            cfg.committed_as.warn, cfg.committed_as.alert,
            cfg.committed_as.commit_vs_swap_ratio} \subseteq Number,
           Validate(cfg)
    PROVE  MemoryTiers
<1> DEFINE mp == cfg.mem_pressure
           ca == cfg.committed_as
           Mem(used) == Severity(MemPressure(mp, Sample(used)))
           Com(p) == Severity(CommittedAS(ca, Promise(p, 100 * p)))
<1>1. MemPressureValid(mp) /\ CommittedASValid(ca)
  BY DEF Validate, ValidChecks
<1>2. ASSUME mp.enabled PROVE {Mem(used) : used \in 0..100} = 0..3
  <2>1. /\ mp.warn \in 1..100 /\ mp.alert \in 1..100 /\ mp.page \in 1..100
        /\ mp.warn < mp.alert /\ mp.alert < mp.page
    <3> HIDE DEF mp
    <3>1. {mp.warn, mp.alert, mp.page} \subseteq Number
      BY DEF mp
    <3> QED
      BY <1>1, <1>2, <3>1, MemPressureTiers
  <2>2. \A used \in 0..100 :
           Mem(used) = IF used >= mp.page THEN 3 ELSE IF used >= mp.alert THEN 2
                       ELSE IF used >= mp.warn THEN 1 ELSE 0
    <3> HIDE DEF mp
    <3> QED
      BY <2>1, MemPressureOf
  <2> DEFINE f == [used \in 0..100 |-> Mem(used)]
  <2> HIDE DEF mp, Mem
  <2>3. \A used \in 0..100 :
           f[used] = IF used >= mp.page THEN 3 ELSE IF used >= mp.alert THEN 2
                     ELSE IF used >= mp.warn THEN 1 ELSE 0
    BY <2>2
  <2>4. {f[used] : used \in 0..100} = 0..3
    <3> HIDE DEF f
    <3>1. PICK w \in 1..100, a \in 1..100, p \in 1..100 :
             w = mp.warn /\ a = mp.alert /\ p = mp.page
      BY <2>1
    <3>2. w < a /\ a < p
      BY <2>1, <3>1
    <3>3. InFour(f, w, a, p)
      BY <2>3, <3>1 DEF InFour
    <3>4. Says(f, 3)
      BY <3>2, <3>3, FourLevels
    <3> QED
      BY <3>4 DEF Says
  <2> QED
    BY <2>4
<1>3. ASSUME ca.enabled PROVE {Com(p) : p \in {1, 2 * ca.warn, 2 * ca.alert}} = 0..2
  <2>1. ca.warn \in Int /\ ca.alert \in Int /\ ca.warn < ca.alert /\ 0 < ca.warn
    <3>1. RequireOrdered(ca.warn, ca.alert) /\ RequirePositive(ca.warn)
      BY <1>1, <1>3 DEF CommittedASValid
    <3>2. ca.warn \in Int /\ ca.alert \in Int /\ ca.warn < ca.alert
      <4>1. ca.warn \in Number /\ ca.alert \in Number
        OBVIOUS
      <4> HIDE DEF ca
      <4> QED
        BY <3>1, <4>1, OrderedNumbers
    <3> QED
      BY <3>1, <3>2, Compared DEF RequirePositive
  <2>2. ASSUME NEW p \in Nat \ {0}
        PROVE  Com(p) = IF p >= 2 * ca.alert THEN 2 ELSE IF p >= 2 * ca.warn THEN 1 ELSE 0
    <3>1. ca.commit_vs_swap_ratio \in Number
      OBVIOUS
    <3> HIDE DEF ca
    <3> QED
      BY <2>1, <3>1, CommittedASOf
  <2>3. PICK w \in Int, a \in Int : w = ca.warn /\ a = ca.alert /\ 0 < w /\ w < a
    BY <2>1
  <2> HIDE DEF Com, ca
  <2>4. 2 * w \in Nat \ {0} /\ 2 * a \in Nat \ {0} /\ 1 \in Nat \ {0}
    BY <2>3
  <2>5. Com(1) = 0 /\ Com(2 * w) = 1 /\ Com(2 * a) = 2
    BY <2>2, <2>3, <2>4
  <2>6. \A n : n \in 0..2 <=> n = 0 \/ n = 1 \/ n = 2
    OBVIOUS
  <2>7. {Com(p) : p \in {1, 2 * w, 2 * a}} = {0, 1, 2}
    BY <2>5
  <2> QED
    BY <2>3, <2>6, <2>7
<1>4. ASSUME ca.enabled, ca.commit_vs_swap_ratio \notin {0, NaN}
      PROVE  SwapGuard(ca, Promise(2 * ca.commit_vs_swap_ratio + 1, 0))
  <2>1. PICK r \in Int : r = ca.commit_vs_swap_ratio
    BY <1>4 DEF Number
  <2>2. ~Lt(r, 0)
    BY <1>1, <1>4, <2>1 DEF CommittedASValid
  <2>3. 0 < r
    BY <1>4, <2>1, <2>2, Compared
  <2>4. Lt(0, r) /\ (2 * r + 1) * 100 > (200 + 0) * r
    BY <2>3, Compared
  <2> HIDE DEF ca
  <2> QED
    BY <2>1, <2>4 DEF SwapGuard, Promise
<1> HIDE DEF Mem, Com
<1> QED
  BY <1>2, <1>3, <1>4 DEF MemoryTiers, Mem, Com

\* Those of the disk checks are, but for a threshold of NaN.
LEMMA DiskReached ==
    ASSUME {cfg.disk_fill.warn, cfg.disk_fill.alert, cfg.disk_fill.days_to_full_alert,
            cfg.disk_inodes.alert} \subseteq Number,
           Validate(cfg)
    PROVE  DiskTiers
<1> DEFINE df == cfg.disk_fill
           di == cfg.disk_inodes
           Fill(used) == Severity(DiskFill(df, used, {}))
           Disk(used) == Severity(DiskInodes(di, Inodes(used)))
<1>1. DiskFillValid(df) /\ (di.enabled => RequirePercent(di.alert))
  BY DEF Validate, ValidChecks
<1>2. ASSUME df.enabled
      PROVE  df.warn \in 1..100 /\ df.alert \in 1..100 /\ df.warn < df.alert
  <2>1. /\ RequirePercent(df.warn) /\ RequirePercent(df.alert)
        /\ RequireOrdered(df.warn, df.alert)
    BY <1>1, <1>2 DEF DiskFillValid
  <2>2. df.warn \in Number /\ df.alert \in Number
    OBVIOUS
  <2> HIDE DEF df
  <2>3. df.warn \in Int /\ df.alert \in Int /\ df.warn < df.alert
    BY <2>1, <2>2, OrderedNumbers
  <2> QED
    BY <2>1, <2>2, <2>3, PercentRange, ConfigurationAssumption
<1>3. ASSUME df.enabled PROVE {Fill(used) : used \in 0..100} = 0..2
  <2>1. PICK w \in 1..100, a \in 1..100 : w = df.warn /\ a = df.alert /\ w < a
    BY <1>2, <1>3
  <2>2. ASSUME NEW used \in 0..100
        PROVE  Fill(used) = IF used >= a THEN 2 ELSE IF used >= w THEN 1 ELSE 0
    <3>1. (AtLeast(used, w) <=> used >= w) /\ (AtLeast(used, a) <=> used >= a)
      <4>1. used \in Int /\ w \in Int /\ a \in Int
        OBVIOUS
      <4> HIDE DEF df
      <4> QED
        BY <4>1, Compared
    <3>2. used >= a => used >= w
      BY <2>1
    <3> HIDE DEF df
    <3> QED
      BY <2>1, <3>1, <3>2 DEF DiskFill, Severity, Verdict, Healthy
  <2> DEFINE f == [used \in 0..100 |-> Fill(used)]
  <2> HIDE DEF df, Fill
  <2>3. InThree(f, w, a)
    BY <2>2 DEF InThree
  <2>4. {f[used] : used \in 0..100} = 0..2
    <3> HIDE DEF f
    <3>1. Says(f, 2)
      BY <2>1, <2>3, ThreeLevels
    <3> QED
      BY <3>1 DEF Says
  <2> QED
    BY <2>4
<1>4. ASSUME df.enabled
      PROVE  Severity(DiskFill(df, 0, {0})) =
                IF df.days_to_full_alert = NaN THEN 0 ELSE 2
  <2>1. PICK w \in 1..100 : w = df.warn
    BY <1>2, <1>4
  <2>2. ~AtLeast(0, w)
    BY Compared
  <2>3. df.days_to_full_alert # NaN <=> AtLeast(df.days_to_full_alert, 0)
    <3>1. ~Lt(df.days_to_full_alert, 0) /\ df.days_to_full_alert \in Number
      BY <1>1, <1>4 DEF DiskFillValid
    <3> HIDE DEF df
    <3>2. CASE df.days_to_full_alert = NaN
      BY <3>2 DEF AtLeast
    <3>3. CASE df.days_to_full_alert # NaN
      <4>1. PICK d \in Int : d = df.days_to_full_alert
        BY <3>1, <3>3 DEF Number
      <4>2. d >= 0
        BY <3>1, <4>1, Compared
      <4> QED
        BY <3>3, <4>1, <4>2, Compared
    <3> QED
      BY <3>2, <3>3
  <2> HIDE DEF df
  <2> QED
    BY <2>1, <2>2, <2>3 DEF DiskFill, Severity, Verdict, Healthy
<1>5. ASSUME di.enabled, di.alert # NaN PROVE {Disk(used) : used \in 0..100} = {0, 2}
  <2>1. di.alert \in 1..100
    BY <1>1, <1>5, PercentRange
  <2>2. \A used \in 0..100 : Disk(used) = IF used >= di.alert THEN 2 ELSE 0
    <3> HIDE DEF di
    <3> QED
      BY <2>1, DiskInodesOf
  <2> HIDE DEF Disk, di
  <2>3. Disk(0) = 0 /\ Disk(di.alert) = 2 /\ di.alert \in 0..100 /\ 0 \in 0..100
    BY <2>1, <2>2
  <2> QED
    BY <2>2, <2>3
<1>6. ASSUME di.alert = NaN PROVE {Disk(used) : used \in 0..100} = {0}
  <2> HIDE DEF di
  <2>1. \A used \in 0..100 : Disk(used) = 0
    BY <1>6 DEF DiskInodes, Inodes, Reaches, Severity, Verdict, Healthy
  <2>2. 0 \in 0..100
    OBVIOUS
  <2> HIDE DEF Disk
  <2> QED
    BY <2>1, <2>2
<1> HIDE DEF Fill, Disk
<1> QED
  BY <1>3, <1>4, <1>5, <1>6 DEF DiskTiers, Fill, Disk

\* So are that of swap_thrash and the budget of declared_overcommit.
LEMMA RateReached ==
    ASSUME {cfg.swap_thrash.pswpin_pages_per_sec,
            cfg.declared_overcommit.headroom_reserve_pct} \subseteq Number,
           Validate(cfg)
    PROVE  RateAndBudget
<1> DEFINE st == cfg.swap_thrash
           do == cfg.declared_overcommit
           rate == st.pswpin_pages_per_sec
           share == do.headroom_reserve_pct
           Thrash(r) == Severity(SwapThrash(st, r))
<1>1. /\ st.enabled => RequirePositive(rate)
      /\ DeclaredOvercommitValid(do)
  BY DEF Validate, ValidChecks
<1>2. ASSUME NEW r
      PROVE  Thrash(r) = IF AtLeast(r, rate) THEN 3 ELSE 0
  BY DEF SwapThrash, Severity, Verdict, Healthy
<1>3. ASSUME st.enabled
      PROVE  {Thrash(r) : r \in {0, rate} \ {NaN}} = IF rate = NaN THEN {0} ELSE {0, 3}
  <2> 0 # NaN
    <3>1. 0 \in Int
      OBVIOUS
    <3> QED
      BY <3>1, ConfigurationAssumption, Zenon
  <2>1. CASE rate = NaN
    <3>1. ~AtLeast(0, rate)
      BY <2>1 DEF AtLeast
    <3>2. Thrash(0) = 0
      BY <1>2, <3>1
    <3>3. {0, rate} \ {NaN} = {0}
      BY <2>1
    <3> HIDE DEF Thrash, rate
    <3> QED
      BY <2>1, <3>2, <3>3
  <2>2. CASE rate # NaN
    <3>1. PICK n \in Int : n = rate
      BY <2>2 DEF Number
    <3>2. 0 < n
      BY <1>1, <1>3, <3>1, Compared DEF RequirePositive
    <3>3. ~AtLeast(0, n) /\ AtLeast(n, n)
      BY <3>2, Compared
    <3>4. Thrash(0) = 0 /\ Thrash(n) = 3
      BY <1>2, <3>1, <3>3
    <3>5. {0, rate} \ {NaN} = {0, n}
      BY <2>2, <3>1
    <3> HIDE DEF Thrash, rate
    <3> QED
      BY <2>2, <3>4, <3>5
  <2> QED
    BY <2>1, <2>2
<1>4. ASSUME do.enabled, NEW usable \in UsableOf(do, 100)
      PROVE  usable >= 1 <=> share # NaN
  <2>1. CASE share = NaN
    <3>1. usable \in {0, -MaxBytes - 1} /\ MaxBytes \in Nat
      BY <1>4, <2>1, ConfigurationAssumption DEF UsableOf
    <3>2. ~(usable >= 1)
      BY <3>1
    <3> QED
      BY <2>1, <3>2
  <2>2. CASE share # NaN
    <3>1. PICK n \in Int : n = share
      BY <2>2 DEF Number
    <3>2. ~Lt(n, 0) /\ ~AtLeast(n, 100)
      BY <1>1, <1>4, <3>1 DEF DeclaredOvercommitValid
    <3>3. 0 <= n /\ n < 100
      BY <3>2, Compared
    <3>4. usable = (100 * (100 - n)) \div 100
      BY <1>4, <2>2, <3>1 DEF UsableOf
    <3>5. usable >= 1
      BY <3>3, <3>4
    <3> QED
      BY <2>2, <3>5
  <2> QED
    BY <2>1, <2>2
<1> HIDE DEF Thrash
<1> QED
  BY <1>3, <1>4 DEF RateAndBudget, Thrash

\* What the alert machine and the checks read off an accepted file is in range,
\* whatever overrides, channels and sizes the file has, and its thresholds leave no
\* tier out of reach but in the ways a NaN does.
THEOREM AcceptedFilesAreUsable == SSpec => []AcceptedIsUsable
<1>1. SentinelInv => AcceptedIsUsable
  <2> SUFFICES ASSUME SentinelInv, exit = 0
               PROVE  AlertingIsDefined /\ MemoryTiers /\ DiskTiers /\ RateAndBudget
    BY DEF AcceptedIsUsable
  <2>1. /\ situation \in Situations
        /\ cfg \in Decode(situation.file, situation.secret) /\ Validate(cfg)
    BY DEF SentinelInv, Configured
  <2>2. WellTyped(situation.file)
    BY <2>1, SituationsAssumption
  <2>3. \A field \in DOMAIN situation.file \ {"targets", "declared_overcommit"} :
           cfg[field] = situation.file[field]
    BY <2>1, DecodedFile
  <2>4. MemoryTiers /\ DiskTiers /\ RateAndBudget
    <3>1. /\ cfg.mem_pressure = situation.file.mem_pressure
          /\ cfg.committed_as = situation.file.committed_as
          /\ cfg.disk_fill = situation.file.disk_fill
          /\ cfg.disk_inodes = situation.file.disk_inodes
          /\ cfg.swap_thrash = situation.file.swap_thrash
      BY <2>2, <2>3 DEF WellTyped
    <3>2. cfg.declared_overcommit.headroom_reserve_pct =
             situation.file.declared_overcommit.headroom_reserve_pct
      BY <2>1, DecodedFile
    <3>3. MemoryTiers
      BY <2>1, <2>2, <3>1, MemoryReached DEF WellTyped, Number
    <3>4. DiskTiers
      BY <2>1, <2>2, <3>1, DiskReached DEF WellTyped, Number
    <3>5. RateAndBudget
      BY <2>1, <2>2, <3>1, <3>2, RateReached DEF WellTyped, Number
    <3> QED
      BY <3>3, <3>4, <3>5
  <2>5. cfg.resolve_samples >= 1
    BY <2>1 DEF Validate, ValidAlerting
  <2>6. ASSUME NEW check \in Phase1CheckIDs \cup {"exception_expired"}, NEW tier \in Tiers
        PROVE  FlapSamplesOf(cfg, check, tier) >= 1 /\ CooldownOf(cfg, check, tier) >= 0
    BY <2>1 DEF Validate, ValidAlerting, ValidOverrides, FlapSamplesOf, CooldownOf,
                OverridesFor
  <2>7. ASSUME NEW tier \in Tiers, NEW name \in cfg.routing[tier]
        PROVE  name \in DOMAIN cfg.targets /\ cfg.targets[name].url \notin {"", "${URL}"}
    <3>1. name \in DOMAIN cfg.targets /\ cfg.targets[name].url # ""
      BY <2>1 DEF Validate, ValidTargets
    <3>2. cfg.targets[name].url # "${URL}"
      BY <2>1, <3>1, DecodedFile
    <3> QED
      BY <3>1, <3>2
  <2>8. LET size == situation.file.declared_overcommit.headroom_floor
            bytes == (size.number * Units[size.unit]) \div 100
        IN  size.number # NaN /\ bytes <= MaxBytes =>
                cfg.declared_overcommit.headroom_floor = bytes
    BY <2>1, DecodedFile DEF ByteSizes
  <2> QED
    BY <2>4, <2>5, <2>6, <2>7, <2>8 DEF AlertingIsDefined
<1> QED
  BY <1>1, SentinelInvariant, PTL

-----------------------------------------------------------------------------
(* What is missing from a file *)

\* A part that is as large as one that reaches a threshold reaches it.
LEMMA LargerReaches ==
    ASSUME NEW a \in Nat, NEW b \in Int, a <= b, NEW whole \in Nat, NEW th \in Number
    PROVE  Reaches(a, whole, th) => Reaches(b, whole, th)
<1> SUFFICES ASSUME Reaches(a, whole, th) PROVE Reaches(b, whole, th)
  OBVIOUS
<1>1. th \in Int /\ th # NaN
  BY DEF Reaches, Number
<1>2. a * 100 \in Int /\ b * 100 \in Int /\ th * whole \in Int
  BY <1>1
<1>3. a * 100 >= th * whole
  BY <1>1, <1>2, Compared DEF Reaches
<1>4. a * 100 <= b * 100
  OBVIOUS
<1>5. b * 100 >= th * whole
  BY <1>2, <1>3, <1>4
<1> QED
  BY <1>1, <1>2, <1>5, Compared DEF Reaches

Used(mem) == IF mem.available >= mem.total THEN 0 ELSE mem.total - mem.available

\* Of two samples of one host, the one that shows less available is judged no
\* milder.
LEMMA LessIsNoMilder ==
    ASSUME NEW mp, {mp.warn, mp.alert, mp.page} \subseteq Number, NEW m, NEW f,
           m.health = "OK", f.health = "OK", m.total \in Nat, f.total = m.total,
           m.available \in Nat, f.available \in Nat, m.available <= f.available
    PROVE  Severity(MemPressure(mp, m)) >= Severity(MemPressure(mp, f))
<1>1. Used(m) \in Nat /\ Used(f) \in Nat /\ Used(f) <= Used(m)
  BY DEF Used
<1>2. ASSUME NEW th \in {mp.warn, mp.alert, mp.page}
      PROVE  Reaches(Used(f), f.total, th) => Reaches(Used(m), m.total, th)
  BY <1>1, LargerReaches
<1>3. ASSUME NEW x, x.health = "OK"
      PROVE  Severity(MemPressure(mp, x)) =
                IF Reaches(Used(x), x.total, mp.page) THEN 3
                ELSE IF Reaches(Used(x), x.total, mp.alert) THEN 2
                ELSE IF Reaches(Used(x), x.total, mp.warn) THEN 1 ELSE 0
  BY <1>3 DEF MemPressure, Used, Severity, Verdict, Healthy
<1> HIDE DEF Used
<1>4. Severity(MemPressure(mp, m)) \in 0..3
  BY <1>3
<1> QED
  BY <1>2, <1>3, <1>4

\* The same of the promised memory, when less swap is shown.
LEMMA LessSwapIsNoMilder ==
    ASSUME NEW ca, {ca.warn, ca.alert, ca.commit_vs_swap_ratio} \subseteq Number,
           NEW m, NEW f, m.health = "OK", f.health = "OK", m.total \in Nat,
           f.total = m.total, m.committed \in Nat, f.committed = m.committed,
           m.swap \in Nat, f.swap \in Nat, m.swap <= f.swap
    PROVE  /\ \/ CommittedAS(ca, m).health = "UNKNOWN"
              \/ Severity(CommittedAS(ca, m)) >= Severity(CommittedAS(ca, f))
           /\ Severity(CommittedAS(ca, m)) > Severity(CommittedAS(ca, f)) =>
                 m.swap # f.swap /\ Severity(CommittedAS(ca, m)) = 2
<1>1. SwapGuard(ca, f) => SwapGuard(ca, m)
  <2> SUFFICES ASSUME SwapGuard(ca, f) PROVE SwapGuard(ca, m)
    OBVIOUS
  <2> DEFINE r == ca.commit_vs_swap_ratio
  <2>1. r \in Int /\ Lt(0, r)
    BY DEF SwapGuard, Number, Lt
  <2>2. 0 < r
    BY <2>1, Compared
  <2>3. (m.total + m.swap) * r <= (m.total + f.swap) * r
    <3>1. ASSUME NEW x \in Nat, NEW y \in Nat, NEW z \in Int, x <= y, 0 < z
          PROVE  x * z <= y * z
      BY <3>1
    <3> HIDE DEF r
    <3> QED
      BY <2>1, <2>2, <3>1
  <2>4. m.committed * 100 > (m.total + f.swap) * r
    BY DEF SwapGuard
  <2>5. /\ m.committed * 100 \in Int /\ (m.total + f.swap) * r \in Int
        /\ (m.total + m.swap) * r \in Int
    BY <2>1
  <2>6. m.committed * 100 > (m.total + m.swap) * r
    <3> HIDE DEF r
    <3> QED
      BY <2>3, <2>4, <2>5
  <2> QED
    BY <2>1, <2>6 DEF SwapGuard
<1>2. CASE m.committed = 0
  <2>1. CommittedAS(ca, m) = Unmeasured /\ CommittedAS(ca, f) = Unmeasured
    BY <1>2 DEF CommittedAS
  <2>2. Unmeasured.health = "UNKNOWN" /\ Severity(Unmeasured) = 0
    BY DEF Unmeasured, Verdict, Severity
  <2> QED
    BY <2>1, <2>2
<1>3. CASE m.committed # 0
  <2>1. ASSUME NEW x, x.health = "OK", x.committed # 0
        PROVE  Severity(CommittedAS(ca, x)) =
                  IF Reaches(x.committed, x.total, ca.alert) \/ SwapGuard(ca, x) THEN 2
                  ELSE IF Reaches(x.committed, x.total, ca.warn) THEN 1 ELSE 0
    BY <2>1 DEF CommittedAS, Severity, Verdict, Healthy
  <2>2. Severity(CommittedAS(ca, m)) \in 0..2 /\ Severity(CommittedAS(ca, f)) \in 0..2
    BY <1>3, <2>1
  <2>3. m.swap = f.swap => (SwapGuard(ca, f) <=> SwapGuard(ca, m))
    BY DEF SwapGuard
  <2> QED
    BY <1>1, <1>3, <2>1, <2>2, <2>3
<1> QED
  BY <1>2, <1>3

\* What is read of a plausible host's meminfo, against what there is in full.
LEMMA PartAgainstFull ==
    ASSUME NEW h, PlausibleHost(h), ReadMeminfo(h.meminfo).health # "UNKNOWN"
    PROVE  LET m == ReadMeminfo(h.meminfo)
               f == ReadMeminfo(h.truth)
           IN  /\ m.health = "OK" /\ f.health = "OK"
               /\ m.total = h.truth["MemTotal"] /\ f.total = m.total
               /\ m.total \in Nat \ {0}
               /\ m.available \in Nat /\ f.available \in Nat
               /\ m.available <= f.available
               /\ m.available = IF "MemAvailable" \in DOMAIN h.meminfo THEN f.available
                                ELSE IF "MemFree" \in DOMAIN h.meminfo
                                  THEN h.truth["MemFree"] ELSE 0
               /\ m.committed = 0 \/ f.committed = m.committed
               /\ m.committed \in Nat
               /\ m.swap \in Nat /\ f.swap \in Nat /\ m.swap <= f.swap
               /\ "SwapTotal" \in DOMAIN h.meminfo => m.swap = f.swap
               /\ m.swap = Field(h.meminfo, "SwapTotal")
<1>1. \A key \in {"MemTotal", "MemFree", "MemAvailable", "Committed_AS", "SwapTotal"} :
         /\ key \in DOMAIN h.truth /\ h.truth[key] \in Nat
         /\ Field(h.truth, key) = h.truth[key]
         /\ Field(h.meminfo, key) = IF key \in DOMAIN h.meminfo THEN h.truth[key] ELSE 0
  BY DEF PlausibleHost, Field
<1>2. Field(h.meminfo, "MemTotal") # 0
  BY DEF ReadMeminfo, NoMem
<1>3. /\ "MemTotal" \in DOMAIN h.meminfo /\ h.meminfo["MemTotal"] = h.truth["MemTotal"]
      /\ h.truth["MemTotal"] \in Nat \ {0} /\ Field(h.truth, "MemTotal") # 0
  BY <1>1, <1>2 DEF PlausibleHost
<1>4. ReadMeminfo(h.meminfo) =
         [health    |-> "OK",
          total     |-> h.truth["MemTotal"],
          available |-> IF "MemAvailable" \in DOMAIN h.meminfo THEN h.truth["MemAvailable"]
                        ELSE Field(h.meminfo, "MemFree"),
          committed |-> Field(h.meminfo, "Committed_AS"),
          swap      |-> Field(h.meminfo, "SwapTotal")]
  BY <1>2, <1>3 DEF ReadMeminfo, PlausibleHost
<1>5. ReadMeminfo(h.truth) =
         [health    |-> "OK",
          total     |-> h.truth["MemTotal"],
          available |-> h.truth["MemAvailable"],
          committed |-> h.truth["Committed_AS"],
          swap      |-> h.truth["SwapTotal"]]
  BY <1>1, <1>3 DEF ReadMeminfo
<1>6. h.truth["MemAvailable"] >= h.truth["MemFree"]
  BY DEF PlausibleHost
<1>7. ASSUME NEW m, NEW f, m = ReadMeminfo(h.meminfo), f = ReadMeminfo(h.truth)
      PROVE  /\ m.health = "OK" /\ f.health = "OK"
             /\ m.total = h.truth["MemTotal"] /\ f.total = m.total
             /\ m.available = IF "MemAvailable" \in DOMAIN h.meminfo
                                THEN h.truth["MemAvailable"]
                              ELSE Field(h.meminfo, "MemFree")
             /\ f.available = h.truth["MemAvailable"]
             /\ m.committed = Field(h.meminfo, "Committed_AS")
             /\ f.committed = h.truth["Committed_AS"]
             /\ m.swap = Field(h.meminfo, "SwapTotal") /\ f.swap = h.truth["SwapTotal"]
  BY <1>4, <1>5, <1>7
<1>8. ASSUME NEW m, NEW f, m = ReadMeminfo(h.meminfo), f = ReadMeminfo(h.truth)
      PROVE  /\ m.available \in Nat /\ f.available \in Nat /\ m.available <= f.available
             /\ m.available = IF "MemAvailable" \in DOMAIN h.meminfo THEN f.available
                              ELSE IF "MemFree" \in DOMAIN h.meminfo
                                THEN h.truth["MemFree"] ELSE 0
             /\ m.committed = 0 \/ f.committed = m.committed
             /\ m.committed \in Nat
             /\ m.swap \in Nat /\ f.swap \in Nat /\ m.swap <= f.swap
             /\ "SwapTotal" \in DOMAIN h.meminfo => m.swap = f.swap
  BY <1>1, <1>6, <1>7, <1>8
<1> QED
  BY <1>3, <1>7, <1>8

\* How bad the memory checks find a sample, in numbers.
LEMMA MemorySeverities ==
    ASSUME NEW mp, NEW ca, NEW x
    PROVE  /\ Severity(MemPressure(mp, x)) \in 0..3 /\ Severity(CommittedAS(ca, x)) \in 0..2
           /\ x.health # "OK" => /\ Severity(MemPressure(mp, x)) = 0
                                 /\ Severity(CommittedAS(ca, x)) = 0
<1>1. /\ Severity(Verdict("BAD", "PAGE")) = 3 /\ Severity(Verdict("BAD", "ALERT")) = 2
      /\ Severity(Verdict("BAD", "WARN")) = 1 /\ Severity(Healthy) = 0
      /\ Severity(Unmeasured) = 0
  BY DEF Severity, Verdict, Healthy, Unmeasured
<1>2. /\ MemPressure(mp, x) \in {Verdict("BAD", "PAGE"), Verdict("BAD", "ALERT"),
                                 Verdict("BAD", "WARN"), Healthy, Unmeasured}
      /\ x.health # "OK" => MemPressure(mp, x) = Unmeasured
  <2> HIDE DEF Verdict, Healthy, Unmeasured
  <2> QED
    BY DEF MemPressure
<1>3. /\ CommittedAS(ca, x) \in {Verdict("BAD", "ALERT"), Verdict("BAD", "WARN"),
                                 Healthy, Unmeasured}
      /\ x.health # "OK" => CommittedAS(ca, x) = Unmeasured
  BY DEF CommittedAS
<1> QED
  BY <1>1, <1>2, <1>3

\* A host that shows nothing available is paged.
LEMMA NothingAvailable ==
    ASSUME NEW mp, mp.page \in 1..100, NEW m, m.health = "OK", m.total \in Nat \ {0},
           m.available = 0
    PROVE  Severity(MemPressure(mp, m)) = 3
<1>1. PICK total \in Nat \ {0}, page \in 1..100 : total = m.total /\ page = mp.page
  OBVIOUS
<1>2. /\ total * 100 \in Int /\ page * total \in Int /\ page * total <= total * 100
  OBVIOUS
<1>3. Reaches(total, total, page)
  BY <1>2, Compared DEF Reaches
<1>4. (IF m.available >= m.total THEN 0 ELSE m.total - m.available) = total
  BY <1>1
<1>5. MemPressure(mp, m) = Verdict("BAD", "PAGE")
  BY <1>1, <1>3, <1>4 DEF MemPressure
<1> QED
  BY <1>5 DEF Severity, Verdict

\* An observation is as bad as its verdict.
LEMMA VerdictObserved ==
    ASSUME NEW check, NEW scope, NEW w
    PROVE  LET v == Observed(check, scope, w)
           IN  v.check = check /\ v.health = w.health /\ Severity(v) = Severity(w)
<1> DEFINE v == Observed(check, scope, w)
<1>1. v.check = check /\ v.health = w.health /\ v.tier = w.tier
  BY DEF Observed
<1> HIDE DEF v
<1>2. Severity(v) = Severity(w)
  BY <1>1 DEF Severity
<1> QED
  BY <1>1, <1>2 DEF v

\* A line that is missing from meminfo makes no verdict of memory milder.  It makes
\* one worse only in three ways: that of the free memory, for want of MemAvailable;
\* PAGE, for want of MemFree too; ALERT, for want of SwapTotal.  Swap that is shown
\* anywhere is seen.
THEOREM MissingLinesHideNothing == SSpec => []PartialReadsAreSafe
<1>1. SentinelInv => PartialReadsAreSafe
  <2> SUFFICES ASSUME SentinelInv, host # NotRead PROVE PartialReadsAreSafe
    BY DEF PartialReadsAreSafe
  <2> DEFINE h == situation.host
             m == ReadMeminfo(h.meminfo)
             f == ReadMeminfo(h.truth)
             mp == cfg.mem_pressure
             ca == cfg.committed_as
  <2>1. /\ situation \in Situations /\ Loaded
        /\ cfg \in Decode(situation.file, situation.secret) /\ Validate(cfg)
    BY DEF SentinelInv, Configured
  <2>2. WellTyped(situation.file) /\ PlausibleHost(h)
    BY <2>1, SituationsAssumption
  <2>3. mp = situation.file.mem_pressure /\ ca = situation.file.committed_as
    BY <2>1, <2>2, DecodedFile DEF WellTyped
  <2>4. /\ {mp.warn, mp.alert, mp.page} \subseteq Number
        /\ {ca.warn, ca.alert, ca.commit_vs_swap_ratio} \subseteq Number
    BY <2>2, <2>3 DEF WellTyped, Number
  <2>5. host.mem = m /\ (SwapPresent(m, h.swaps) => host.swap)
    <3>1. host.mem = m /\ host.swap = SwapPresent(m, h.swaps)
      BY DEF SentinelInv, HostIsRead
    <3> HIDE DEF m, h
    <3> QED
      BY <3>1
  <2>6. verdicts = {} \/ verdicts = LevelObservations(cfg, host)
    BY DEF SentinelInv, HostIsRead
  <2>7. ASSUME NEW v \in verdicts, v.check \in {"mem_pressure", "committed_as"}
        PROVE  /\ v.check \in Enabled(cfg)
               /\ v.check = "mem_pressure" =>
                     /\ v.health = MemPressure(mp, m).health
                     /\ Severity(v) = Severity(MemPressure(mp, m))
               /\ v.check = "committed_as" =>
                     /\ v.health = CommittedAS(ca, m).health
                     /\ Severity(v) = Severity(CommittedAS(ca, m))
    <3>1. v.check \in Enabled(cfg)
          /\ \/ v = Observed("mem_pressure", "host", MemPressure(mp, m))
             \/ v = Observed("committed_as", "host", CommittedAS(ca, m))
             \/ v.check = "disk_inodes"
      BY <2>5, <2>6, <2>7 DEF LevelObservations, Observed
    <3> HIDE DEF mp, ca, m
    <3>4. CASE v = Observed("mem_pressure", "host", MemPressure(mp, m))
      BY <3>1, <3>4, VerdictObserved
    <3>5. CASE v = Observed("committed_as", "host", CommittedAS(ca, m))
      BY <3>1, <3>5, VerdictObserved
    <3> QED
      BY <2>7, <3>1, <3>4, <3>5
  <2>8. CASE m.health = "UNKNOWN"
    <3>1. MemPressure(mp, m).health = "UNKNOWN" /\ CommittedAS(ca, m).health = "UNKNOWN"
      BY <2>8 DEF MemPressure, CommittedAS, Unmeasured, Verdict
    <3>2. host.mem.health # "OK"
      BY <2>5, <2>8
    <3>3. /\ Severity(MemPressure(mp, m)) = 0 /\ Severity(CommittedAS(ca, m)) = 0
          /\ Severity(InFull("mem_pressure")) \in 0..3
          /\ Severity(InFull("committed_as")) \in 0..2
      BY <2>8, MemorySeverities DEF InFull
    <3> HIDE DEF m, mp, ca
    <3>4. ASSUME NEW v \in verdicts, v.check \in {"mem_pressure", "committed_as"}
          PROVE  v.health = "UNKNOWN" /\ ~(Severity(v) > Severity(InFull(v.check)))
      BY <2>7, <3>1, <3>3, <3>4
    <3>5. h.swaps \notin {Unreadable, 0} => host.swap
      BY <2>2, <2>5 DEF SwapPresent, PlausibleHost
    <3> QED
      BY <3>2, <3>4, <3>5 DEF PartialReadsAreSafe
  <2>9. CASE m.health # "UNKNOWN"
    <3>1. /\ m.health = "OK" /\ f.health = "OK"
          /\ m.total = h.truth["MemTotal"] /\ f.total = m.total
          /\ m.total \in Nat \ {0}
          /\ m.available \in Nat /\ f.available \in Nat
          /\ m.available <= f.available
          /\ m.available = IF "MemAvailable" \in DOMAIN h.meminfo THEN f.available
                           ELSE IF "MemFree" \in DOMAIN h.meminfo
                             THEN h.truth["MemFree"] ELSE 0
          /\ m.committed = 0 \/ f.committed = m.committed
          /\ m.committed \in Nat
          /\ m.swap \in Nat /\ f.swap \in Nat /\ m.swap <= f.swap
          /\ "SwapTotal" \in DOMAIN h.meminfo => m.swap = f.swap
          /\ m.swap = Field(h.meminfo, "SwapTotal")
      BY <2>2, <2>9, PartAgainstFull
    <3>2. InFull("mem_pressure") = MemPressure(mp, f)
          /\ InFull("committed_as") = CommittedAS(ca, f)
      BY DEF InFull
    <3>3. /\ OfFree = MemPressure(mp, [f EXCEPT !.available = h.truth["MemFree"]])
          /\ f = [health |-> f.health, total |-> f.total, available |-> f.available,
                  committed |-> f.committed, swap |-> f.swap]
      BY DEF OfFree, ReadMeminfo, NoMem
    <3> HIDE DEF m, f, mp, ca, h
    <3>4. Severity(MemPressure(mp, m)) >= Severity(MemPressure(mp, f))
      BY <2>4, <3>1, LessIsNoMilder
    <3>5. /\ \/ CommittedAS(ca, m).health = "UNKNOWN"
             \/ Severity(CommittedAS(ca, m)) >= Severity(CommittedAS(ca, f))
          /\ Severity(CommittedAS(ca, m)) > Severity(CommittedAS(ca, f)) =>
                "SwapTotal" \notin DOMAIN h.meminfo /\ Severity(CommittedAS(ca, m)) = 2
      <4>1. CASE m.committed = 0
        <5>1. CommittedAS(ca, m) = Unmeasured
          BY <4>1 DEF CommittedAS
        <5>2. Unmeasured.health = "UNKNOWN" /\ Severity(Unmeasured) = 0
          BY DEF Unmeasured, Verdict, Severity
        <5>3. Severity(CommittedAS(ca, f)) \in 0..2
          BY MemorySeverities
        <5> QED
          BY <5>1, <5>2, <5>3
      <4>2. CASE f.committed = m.committed
        BY <2>4, <3>1, <4>2, LessSwapIsNoMilder
      <4> QED
        BY <3>1, <4>1, <4>2
    <3>6. ASSUME mp.enabled, Severity(MemPressure(mp, m)) > Severity(MemPressure(mp, f))
          PROVE  /\ "MemAvailable" \notin DOMAIN h.meminfo
                 /\ Severity(MemPressure(mp, m)) =
                       IF "MemFree" \in DOMAIN h.meminfo THEN Severity(OfFree) ELSE 3
      <4>1. mp.page \in 1..100
        BY <2>1, <2>4, <3>6, MemPressureTiers DEF Validate, ValidChecks, mp
      <4>2. "MemAvailable" \notin DOMAIN h.meminfo
        <5>1. CASE m.available = f.available
          <6>1. MemPressure(mp, m) = MemPressure(mp, f)
            BY <3>1, <5>1 DEF MemPressure
          <6>2. Severity(MemPressure(mp, f)) \in 0..3
            BY MemorySeverities
          <6> QED
            BY <3>6, <6>1, <6>2
        <5> QED
          BY <3>1, <5>1
      <4>3. CASE "MemFree" \in DOMAIN h.meminfo
        <5> DEFINE g == [f EXCEPT !.available = h.truth["MemFree"]]
        <5>1. /\ g.health = "OK" /\ g.total = m.total /\ g.available = m.available
          BY <3>1, <3>3, <4>2, <4>3
        <5>2. OfFree = MemPressure(mp, g)
          BY <3>3
        <5> HIDE DEF g
        <5>3. MemPressure(mp, g) = MemPressure(mp, m)
          BY <3>1, <5>1 DEF MemPressure
        <5> QED
          BY <4>2, <4>3, <5>2, <5>3
      <4>4. CASE "MemFree" \notin DOMAIN h.meminfo
        BY <3>1, <4>1, <4>2, <4>4, NothingAvailable
      <4> QED
        BY <4>2, <4>3, <4>4
    <3>7. /\ host.mem.health = "OK" /\ Field(h.meminfo, "SwapTotal") > 0 => host.swap
          /\ h.swaps \notin {Unreadable, 0} => host.swap
      BY <2>2, <2>5, <3>1 DEF SwapPresent, PlausibleHost
    <3>8. ASSUME NEW v \in verdicts, v.check \in {"mem_pressure", "committed_as"}
          PROVE  /\ v.health = "UNKNOWN" \/ Severity(v) >= Severity(InFull(v.check))
                 /\ Severity(v) > Severity(InFull(v.check)) => MadeUp(v)
      <4>1. CASE v.check = "mem_pressure"
        <5>1. mp.enabled
          BY <2>7, <4>1 DEF Enabled, mp
        <5>2. Severity(v) = Severity(MemPressure(mp, m)) /\ InFull(v.check) = MemPressure(mp, f)
          BY <2>7, <3>2, <4>1
        <5>3. ASSUME Severity(v) > Severity(InFull(v.check)) PROVE MadeUp(v)
          <6>1. /\ "MemAvailable" \notin DOMAIN h.meminfo
                /\ Severity(v) = IF "MemFree" \in DOMAIN h.meminfo THEN Severity(OfFree)
                                 ELSE 3
            BY <3>6, <5>1, <5>2, <5>3
          <6> QED
            BY <4>1, <6>1 DEF MadeUp, h
        <5> QED
          BY <3>4, <5>2, <5>3
      <4>2. CASE v.check = "committed_as"
        <5>1. /\ v.health = CommittedAS(ca, m).health
              /\ Severity(v) = Severity(CommittedAS(ca, m))
              /\ InFull(v.check) = CommittedAS(ca, f)
          BY <2>7, <3>2, <4>2
        <5>2. ASSUME Severity(v) > Severity(InFull(v.check)) PROVE MadeUp(v)
          <6>1. "SwapTotal" \notin DOMAIN h.meminfo /\ Severity(v) = 2
            BY <3>5, <5>1, <5>2
          <6> QED
            BY <4>2, <6>1 DEF MadeUp, h
        <5> QED
          BY <3>5, <5>1, <5>2
      <4> QED
        BY <3>8, <4>1, <4>2
    <3> QED
      BY <3>7, <3>8 DEF PartialReadsAreSafe, h
  <2> QED
    BY <2>8, <2>9
<1> QED
  BY <1>1, SentinelInvariant, PTL

-----------------------------------------------------------------------------
(* The paths, one after another *)

\* What CollectDisks does with one path.
After(out, path, mounted) ==
    IF /\ mounted[path].readable
       /\ \E i \in DOMAIN out : /\ out[i].health = "OK"
                                /\ out[i].device = Device(mounted[path])
      THEN out ELSE Append(out, StatPath(path, mounted[path]))

\* g gives for every set of the first n paths what is read of them.
IsWalk(g, paths, mounted, n) ==
    g = [s \in SUBSET (1..n) |->
            IF s = {} THEN <<>>
            ELSE After(g[s \ {Max(s)}], paths[Max(s)], mounted)]

\* There is such a function.
LEMMA WalkExists ==
    ASSUME NEW paths, NEW mounted, NEW n \in Nat
    PROVE  \E g : IsWalk(g, paths, mounted, n)
<1> DEFINE S == {m \in Nat : \E g : IsWalk(g, paths, mounted, m)}
<1>1. 0 \in S
  <2> DEFINE g == [s \in SUBSET (1..0) |-> <<>>]
  <2>1. 1..0 = {}
    OBVIOUS
  <2>2. IsWalk(g, paths, mounted, 0)
    BY <2>1 DEF IsWalk
  <2> QED
    BY <2>2
<1>2. ASSUME NEW m \in Nat, m \in S PROVE m + 1 \in S
  <2>1. PICK g : IsWalk(g, paths, mounted, m)
    BY <1>2
  <2> DEFINE h == [s \in SUBSET (1..(m + 1)) |->
                      IF m + 1 \in s THEN After(g[s \ {m + 1}], paths[m + 1], mounted)
                      ELSE g[s]]
  <2>2. ASSUME NEW s \in SUBSET (1..(m + 1))
        PROVE  h[s] = IF s = {} THEN <<>>
                      ELSE After(h[s \ {Max(s)}], paths[Max(s)], mounted)
    <3>1. CASE m + 1 \in s
      <4>1. m + 1 = Max(s)
        <5>1. s # {} /\ m + 1 \in Nat
          BY <3>1
        <5>2. Max(s) \in s /\ Max(s) >= m + 1
          BY <3>1, <5>1, MaxBelow
        <5>3. Max(s) \in 1..(m + 1)
          BY <5>2
        <5> QED
          BY <5>2, <5>3
      <4>2. s \ {m + 1} \in SUBSET (1..m) /\ s \ {m + 1} \in SUBSET (1..(m + 1))
        OBVIOUS
      <4>3. h[s \ {m + 1}] = g[s \ {m + 1}]
        BY <4>2
      <4>4. h[s] = After(g[s \ {m + 1}], paths[m + 1], mounted)
        BY <3>1
      <4> QED
        BY <3>1, <4>1, <4>3, <4>4
    <3>2. CASE m + 1 \notin s
      <4>1. s \in SUBSET (1..m)
        BY <3>2
      <4>2. h[s] = g[s]
        BY <3>2
      <4>3. s \ {Max(s)} \in SUBSET (1..(m + 1)) /\ m + 1 \notin s \ {Max(s)}
        BY <3>2
      <4>4. h[s \ {Max(s)}] = g[s \ {Max(s)}]
        BY <4>3
      <4>5. g[s] = IF s = {} THEN <<>>
                   ELSE After(g[s \ {Max(s)}], paths[Max(s)], mounted)
        BY <2>1, <4>1 DEF IsWalk
      <4> QED
        BY <4>2, <4>4, <4>5
    <3> QED
      BY <3>1, <3>2
  <2>3. IsWalk(h, paths, mounted, m + 1)
    <3> DEFINE k == [s \in SUBSET (1..(m + 1)) |->
                        IF s = {} THEN <<>>
                        ELSE After(h[s \ {Max(s)}], paths[Max(s)], mounted)]
    <3>1. \A s \in SUBSET (1..(m + 1)) : h[s] = k[s]
      BY <2>2
    <3>2. h = k
      <4> HIDE <2>2
      <4> QED
        BY <3>1
    <3> HIDE DEF h
    <3> QED
      BY <3>2 DEF IsWalk
  <2> QED
    BY <2>3
<1>3. Nat \subseteq S
  <2> HIDE DEF S
  <2> QED
    BY <1>1, <1>2, SetInduction
<1> QED
  BY <1>3

\* CollectDisks goes from path to path and returns what it has at the last.
LEMMA CollectDisksIsLast ==
    ASSUME NEW paths, NEW mounted, Len(paths) \in Nat, DOMAIN paths = 1..Len(paths)
    PROVE  \E p : /\ p[0] = <<>>
                  /\ \A k \in 1..Len(paths) : p[k] = After(p[k - 1], paths[k], mounted)
                  /\ CollectDisks(paths, mounted) = p[Len(paths)]
<1> DEFINE n == Len(paths)
           g == CHOOSE g : IsWalk(g, paths, mounted, n)
           p == [k \in 0..n |-> g[1..k]]
<1>1. IsWalk(g, paths, mounted, n)
  BY WalkExists
<1>2. CollectDisks(paths, mounted) = g[1..n]
  BY DEF CollectDisks, FoldLeft, MapThenFoldSet, IsWalk, After
<1>3. p[0] = <<>>
  <2>1. 1..0 = {} /\ p[0] = g[1..0] /\ {} \in SUBSET (1..n)
    OBVIOUS
  <2> QED
    BY <1>1, <2>1 DEF IsWalk
<1>4. ASSUME NEW k \in 1..n PROVE p[k] = After(p[k - 1], paths[k], mounted)
  <2> n \in Nat
    OBVIOUS
  <2> HIDE DEF n, g, p
  <2>1. 1..k \in SUBSET (1..n) /\ 1..k # {} /\ k \in 1..k
    OBVIOUS
  <2>2. Max(1..k) = k
    <3>1. Max(1..k) \in 1..k /\ Max(1..k) >= k
      BY <2>1, MaxBelow
    <3> QED
      BY <3>1
  <2>3. (1..k) \ {k} = 1..(k - 1)
    OBVIOUS
  <2>4. g[1..k] = After(g[(1..k) \ {Max(1..k)}], paths[Max(1..k)], mounted)
    BY <1>1, <2>1 DEF IsWalk
  <2>5. p[k] = g[1..k] /\ p[k - 1] = g[1..(k - 1)]
    BY DEF p
  <2> QED
    BY <2>2, <2>3, <2>4, <2>5
<1>5. p[n] = g[1..n]
  OBVIOUS
<1> QED
  BY <1>2, <1>3, <1>4, <1>5

\* The readings of the first k paths: of a path each, of a device at most one that
\* worked, and of every one of the paths its own or its device's.
Readings(out, paths, mounted, k) ==
    /\ \E S : out \in Seq(S)
    /\ \A i \in 1..Len(out) :
          /\ out[i].device = Device(mounted[out[i].path])
          /\ out[i].health \in {"OK", "UNKNOWN"}
    /\ \A i, j \in 1..Len(out) :
          out[i].health = "OK" /\ out[j].health = "OK" /\ out[i].device = out[j].device
             => i = j
    /\ \A i \in 1..k : \E j \in 1..Len(out) :
          IF mounted[paths[i]].readable
            THEN out[j].health = "OK" /\ out[j].device = Device(mounted[paths[i]])
            ELSE out[j].health = "UNKNOWN" /\ out[j].path = paths[i]

\* One more path keeps it that way.
LEMMA AfterReads ==
    ASSUME NEW paths, NEW mounted, NEW k \in Nat, NEW out,
           Readings(out, paths, mounted, k)
    PROVE  Readings(After(out, paths[k + 1], mounted), paths, mounted, k + 1)
<1> DEFINE path == paths[k + 1]
           r == StatPath(path, mounted[path])
           new == Append(out, r)
<1>1. PICK S : out \in Seq(S)
  BY DEF Readings
<1>2. Len(out) \in Nat /\ DOMAIN out = 1..Len(out)
  BY <1>1
<1>3. /\ r.path = path /\ r.device = Device(mounted[path])
      /\ r.health = IF mounted[path].readable THEN "OK" ELSE "UNKNOWN"
  BY DEF StatPath
<1>4. CASE /\ mounted[path].readable
           /\ \E i \in DOMAIN out : /\ out[i].health = "OK"
                                    /\ out[i].device = Device(mounted[path])
  <2>1. After(out, path, mounted) = out
    BY <1>4 DEF After
  <2>2. ASSUME NEW i \in 1..(k + 1)
        PROVE  \E j \in 1..Len(out) :
          IF mounted[paths[i]].readable
            THEN out[j].health = "OK" /\ out[j].device = Device(mounted[paths[i]])
            ELSE out[j].health = "UNKNOWN" /\ out[j].path = paths[i]
    <3>1. CASE i = k + 1
      BY <1>2, <1>4, <3>1
    <3>2. CASE i # k + 1
      <4>1. i \in 1..k
        BY <3>2
      <4> QED
        BY <4>1 DEF Readings
    <3> QED
      BY <3>1, <3>2
  <2> QED
    BY <2>1, <2>2 DEF Readings
<1>5. CASE ~ (/\ mounted[path].readable
              /\ \E i \in DOMAIN out : /\ out[i].health = "OK"
                                       /\ out[i].device = Device(mounted[path]))
  <2>1. After(out, path, mounted) = new
    BY <1>5 DEF After
  <2> HIDE DEF r
  <2>2. new \in Seq(S \cup {r})
    <3>1. out \in Seq(S \cup {r})
      BY <1>1
    <3> QED
      BY <3>1
  <2>3. /\ Len(new) = Len(out) + 1
        /\ \A i \in 1..Len(out) : new[i] = out[i]
        /\ new[Len(out) + 1] = r
    BY <1>1
  <2> HIDE DEF new, path
  <2>4. ASSUME NEW i \in 1..Len(new) PROVE i \in 1..Len(out) \/ i = Len(out) + 1
    BY <1>2, <2>3
  <2>5. \A i \in 1..Len(new) : /\ new[i].device = Device(mounted[new[i].path])
                               /\ new[i].health \in {"OK", "UNKNOWN"}
    BY <1>3, <2>3, <2>4 DEF Readings
  <2>6. ASSUME NEW i \in 1..Len(out), out[i].health = "OK", r.health = "OK"
        PROVE  out[i].device # r.device
    BY <1>2, <1>3, <1>5, <2>6
  <2>7. ASSUME NEW i \in 1..Len(new), NEW j \in 1..Len(new),
               new[i].health = "OK", new[j].health = "OK", new[i].device = new[j].device
        PROVE  i = j
    BY <2>3, <2>4, <2>6, <2>7 DEF Readings
  <2>8. ASSUME NEW i \in 1..(k + 1)
        PROVE  \E j \in 1..Len(new) :
          IF mounted[paths[i]].readable
            THEN new[j].health = "OK" /\ new[j].device = Device(mounted[paths[i]])
            ELSE new[j].health = "UNKNOWN" /\ new[j].path = paths[i]
    <3>1. CASE i = k + 1
      <4>1. Len(out) + 1 \in 1..Len(new)
        BY <1>2, <2>3
      <4> QED
        BY <1>3, <2>3, <3>1, <4>1 DEF path
    <3>2. CASE i # k + 1
      <4>1. i \in 1..k
        BY <3>2
      <4>2. PICK j \in 1..Len(out) :
          IF mounted[paths[i]].readable
            THEN out[j].health = "OK" /\ out[j].device = Device(mounted[paths[i]])
            ELSE out[j].health = "UNKNOWN" /\ out[j].path = paths[i]
        BY <4>1 DEF Readings
      <4>3. j \in 1..Len(new) /\ new[j] = out[j]
        BY <1>2, <2>3
      <4> QED
        BY <4>2, <4>3
    <3> QED
      BY <3>1, <3>2
  <2> QED
    BY <2>1, <2>2, <2>5, <2>7, <2>8 DEF Readings, path
<1> QED
  BY <1>4, <1>5

\* So it is at the last path.
LEMMA DisksAreReadings ==
    ASSUME NEW paths, NEW mounted, Len(paths) \in Nat, DOMAIN paths = 1..Len(paths)
    PROVE  Readings(CollectDisks(paths, mounted), paths, mounted, Len(paths))
<1>1. PICK p : /\ p[0] = <<>>
               /\ \A k \in 1..Len(paths) : p[k] = After(p[k - 1], paths[k], mounted)
               /\ CollectDisks(paths, mounted) = p[Len(paths)]
  BY CollectDisksIsLast
<1> DEFINE S == {k \in Nat : k <= Len(paths) => Readings(p[k], paths, mounted, k)}
<1>2. 0 \in S
  <2>1. Readings(<<>>, paths, mounted, 0)
    <3>1. <<>> \in Seq({}) /\ Len(<<>>) = 0 /\ 1..0 = {}
      OBVIOUS
    <3> QED
      BY <3>1 DEF Readings
  <2> QED
    BY <1>1, <2>1
<1>3. ASSUME NEW k \in Nat, k \in S PROVE k + 1 \in S
  <2> SUFFICES ASSUME k + 1 <= Len(paths) PROVE Readings(p[k + 1], paths, mounted, k + 1)
    OBVIOUS
  <2>1. Readings(p[k], paths, mounted, k)
    BY <1>3
  <2>2. p[k + 1] = After(p[k], paths[k + 1], mounted)
    <3>1. k + 1 \in 1..Len(paths) /\ (k + 1) - 1 = k
      OBVIOUS
    <3> QED
      BY <1>1, <3>1
  <2> QED
    BY <2>1, <2>2, AfterReads
<1>4. Nat \subseteq S
  <2> HIDE DEF S
  <2> QED
    BY <1>2, <1>3, SetInduction
<1> QED
  BY <1>1, <1>4

\* Whatever paths are configured, and however they lie on devices that can be read
\* and named or not: each is spoken of through one reading of what it passes for.
THEOREM PathsAreSpokenOf == SSpec => []EveryPathIsSpokenOf
<1>1. SentinelInv => EveryPathIsSpokenOf
  <2> DEFINE mounted == situation.host.mounted
             paths == cfg.disk_fill.paths
             out == host.disks
             Said(r) == Observed("disk_inodes", r.path, DiskInodes(cfg.disk_inodes, r))
             spoken == {v \in verdicts : v.check = "disk_inodes"}
  <2> SUFFICES ASSUME SentinelInv, stage = "done", "disk_inodes" \in Enabled(cfg),
                      NEW i \in DOMAIN paths
               PROVE  IF mounted[paths[i]].readable
                  THEN Cardinality({v \in spoken :
                           /\ v.health # "UNKNOWN"
                           /\ Device(mounted[v.scope]) = Device(mounted[paths[i]])}) = 1
                  ELSE \E v \in spoken : v.scope = paths[i] /\ v.health = "UNKNOWN"
    BY DEF EveryPathIsSpokenOf
  <2>1. /\ situation \in Situations /\ Loaded
        /\ cfg \in Decode(situation.file, situation.secret)
    BY DEF SentinelInv, Configured
  <2>2. WellTyped(situation.file)
    BY <2>1, SituationsAssumption
  <2>3. paths = situation.file.disk_fill.paths
    BY <2>1, <2>2, DecodedFile DEF WellTyped
  <2>4. Len(paths) \in Nat /\ DOMAIN paths = 1..Len(paths)
    BY <2>2, <2>3 DEF WellTyped
  <2>5. /\ out = CollectDisks(paths, mounted)
        /\ verdicts = LevelObservations(cfg, host)
    BY DEF SentinelInv, HostIsRead
  <2> HIDE DEF paths, mounted
  <2>6. Readings(out, paths, mounted, Len(paths))
    BY <2>4, <2>5, DisksAreReadings
  <2>7. Len(out) \in Nat /\ DOMAIN out = 1..Len(out)
    BY <2>6 DEF Readings
  <2>8. spoken = {Said(out[j]) : j \in 1..Len(out)}
    BY <2>5, <2>7 DEF LevelObservations, Observed
  <2>9. ASSUME NEW j \in 1..Len(out)
        PROVE  /\ Said(out[j]).scope = out[j].path
               /\ Said(out[j]).health = "UNKNOWN" <=> out[j].health = "UNKNOWN"
    BY <2>6 DEF Readings, Observed, DiskInodes, Unmeasured, Healthy, Verdict
  <2> HIDE DEF Said, spoken, out
  <2>10. PICK j \in 1..Len(out) :
          IF mounted[paths[i]].readable
            THEN out[j].health = "OK" /\ out[j].device = Device(mounted[paths[i]])
            ELSE out[j].health = "UNKNOWN" /\ out[j].path = paths[i]
    BY <2>4, <2>6 DEF Readings
  <2>11. CASE ~ mounted[paths[i]].readable
    BY <2>8, <2>9, <2>10, <2>11
  <2>12. CASE mounted[paths[i]].readable
    <3> DEFINE X == {v \in spoken :
                        /\ v.health # "UNKNOWN"
                        /\ Device(mounted[v.scope]) = Device(mounted[paths[i]])}
    <3>1. Said(out[j]) \in X
      BY <2>6, <2>8, <2>9, <2>10, <2>12 DEF Readings
    <3>2. ASSUME NEW v \in X PROVE v = Said(out[j])
      <4>1. PICK l \in 1..Len(out) : v = Said(out[l])
        BY <2>8
      <4>2. out[l].health = "OK" /\ out[l].device = Device(mounted[paths[i]])
        BY <2>6, <2>9, <4>1 DEF Readings
      <4>3. l = j
        BY <2>6, <2>10, <2>12, <4>2 DEF Readings
      <4> QED
        BY <4>1, <4>3
    <3>3. X = {Said(out[j])}
      BY <3>1, <3>2
    <3> HIDE DEF X
    <3>4. Cardinality(X) = 1
      BY <3>3, FS_Singleton
    <3> QED
      BY <2>12, <3>4 DEF X
  <2> QED
    BY <2>11, <2>12
<1> QED
  BY <1>1, SentinelInvariant, PTL

-----------------------------------------------------------------------------
(* Patterns.  Both functions of Globs are defined by what they are at other       *)
(* arguments; that there are such functions is shown first.                      *)

\* ShellMatch from places pi and si on, given the places after pi.
ShellFrom(g, pattern, s, pi, si) ==
    IF pi > Len(pattern) THEN si > Len(s)
    ELSE IF pattern[pi] = "*" THEN \E k \in si..(Len(s) + 1) : g[<<pi + 1, k>>]
    ELSE /\ si <= Len(s) /\ pattern[pi] \in {"?", s[si]}
         /\ g[<<pi + 1, si + 1>>]

\* g is that at all the places from lo on.
IsFrom(g, pattern, s, lo) ==
    g = [p \in (lo..(Len(pattern) + 1)) \X (1..(Len(s) + 1)) |->
            ShellFrom(g, pattern, s, p[1], p[2])]

\* There is such a function: the place before is defined by those after it.
LEMMA FromExists ==
    ASSUME NEW pattern, NEW s, Len(pattern) \in Nat, Len(s) \in Nat
    PROVE  \E g : IsFrom(g, pattern, s, 1)
<1> DEFINE P == Len(pattern)
           L == Len(s)
           D(lo) == (lo..(P + 1)) \X (1..(L + 1))
           S == {m \in Nat : m <= P => \E g : IsFrom(g, pattern, s, P + 1 - m)}
<1>1. 0 \in S
  <2> DEFINE g == [p \in D(P + 1) |-> p[2] > L]
  <2>1. ASSUME NEW h, NEW p \in D(P + 1)
        PROVE  ShellFrom(h, pattern, s, p[1], p[2]) = (p[2] > L)
    <3>1. p[1] > P
      OBVIOUS
    <3> QED
      BY <3>1 DEF ShellFrom
  <2>2. g = [p \in D(P + 1) |-> ShellFrom(g, pattern, s, p[1], p[2])]
    BY <2>1
  <2>3. IsFrom(g, pattern, s, P + 1)
    <3> HIDE DEF g
    <3> QED
      BY <2>2 DEF IsFrom
  <2> HIDE DEF g
  <2> QED
    BY <2>3
<1>2. ASSUME NEW m \in Nat, m \in S PROVE m + 1 \in S
  <2> SUFFICES ASSUME m + 1 <= P PROVE \E g : IsFrom(g, pattern, s, P + 1 - (m + 1))
    OBVIOUS
  <2> DEFINE lo == P - m
  <2>1. lo \in Nat /\ lo + 1 = P + 1 - m /\ lo = P + 1 - (m + 1)
    OBVIOUS
  <2>2. PICK g : IsFrom(g, pattern, s, lo + 1)
    BY <1>2, <2>1
  <2> HIDE DEF lo
  <2> DEFINE h == [p \in D(lo) |-> ShellFrom(g, pattern, s, p[1], p[2])]
  <2>3. \A p \in D(lo + 1) : p \in D(lo) /\ h[p] = g[p]
    <3>1. D(lo + 1) \subseteq D(lo)
      BY <2>1
    <3>2. \A p \in D(lo + 1) : g[p] = ShellFrom(g, pattern, s, p[1], p[2])
      BY <2>2 DEF IsFrom
    <3> QED
      BY <3>1, <3>2
  <2>4. ASSUME NEW p \in D(lo)
        PROVE  ShellFrom(g, pattern, s, p[1], p[2]) = ShellFrom(h, pattern, s, p[1], p[2])
    <3>1. p[1] \in lo..(P + 1) /\ p[2] \in 1..(L + 1)
      OBVIOUS
    <3> HIDE DEF h
    <3>2. CASE p[1] > P
      BY <3>2 DEF ShellFrom
    <3>3. CASE ~(p[1] > P)
      <4>1. \A k \in 1..(L + 1) : <<p[1] + 1, k>> \in D(lo + 1)
        BY <2>1, <3>1, <3>3
      <4>2. \A k \in 1..(L + 1) : h[<<p[1] + 1, k>>] = g[<<p[1] + 1, k>>]
        BY <2>3, <4>1
      <4>3. \A k \in p[2]..(L + 1) : h[<<p[1] + 1, k>>] = g[<<p[1] + 1, k>>]
        BY <3>1, <4>2
      <4>4. p[2] <= L => h[<<p[1] + 1, p[2] + 1>>] = g[<<p[1] + 1, p[2] + 1>>]
        <5> SUFFICES ASSUME p[2] <= L PROVE p[2] + 1 \in 1..(L + 1)
          BY <4>2
        <5> QED
          BY <3>1
      <4> QED
        BY <3>3, <4>3, <4>4 DEF ShellFrom
    <3> QED
      BY <3>2, <3>3
  <2>5. h = [p \in D(lo) |-> ShellFrom(h, pattern, s, p[1], p[2])]
    <3> DEFINE k == [p \in D(lo) |-> ShellFrom(h, pattern, s, p[1], p[2])]
    <3>1. h = k
      <4>1. \A p \in D(lo) : h[p] = k[p]
        <5> HIDE DEF D
        <5>1. \A p \in D(lo) : h[p] = ShellFrom(g, pattern, s, p[1], p[2])
          OBVIOUS
        <5> HIDE DEF h
        <5> QED
          BY <2>4, <5>1
      <4> HIDE <2>4 
      <4> HIDE DEF D
      <4> QED
        BY <4>1
    <3> QED
      BY <3>1
  <2>6. IsFrom(h, pattern, s, lo)
    <3> HIDE DEF h
    <3> QED
      BY <2>5 DEF IsFrom
  <2> HIDE DEF h
  <2> QED
    BY <2>1, <2>6
<1>3. Nat \subseteq S
  <2> HIDE DEF S
  <2> QED
    BY <1>1, <1>2, SetInduction
<1>4. CASE P = 0
  <2>1. \E g : IsFrom(g, pattern, s, P + 1 - 0)
    BY <1>1
  <2>2. P + 1 - 0 = 1
    BY <1>4
  <2> HIDE DEF P
  <2> QED
    BY <2>1, <2>2
<1>5. CASE P # 0
  <2>1. \E g : IsFrom(g, pattern, s, P + 1 - P)
    BY <1>3
  <2>2. P + 1 - P = 1
    OBVIOUS
  <2> HIDE DEF P
  <2> QED
    BY <2>1, <2>2
<1> QED
  BY <1>4, <1>5

\* ShellMatch is such a function's value where both begin.
LEMMA ShellPlaces ==
    ASSUME NEW pattern, NEW s, Len(pattern) \in Nat, Len(s) \in Nat
    PROVE  \E F : /\ ShellMatch(pattern, s) = F[<<1, 1>>]
                  /\ \A pi \in 1..(Len(pattern) + 1), si \in 1..(Len(s) + 1) :
                        F[<<pi, si>>] = ShellFrom(F, pattern, s, pi, si)
<1> DEFINE F == CHOOSE g : IsFrom(g, pattern, s, 1)
<1>1. IsFrom(F, pattern, s, 1)
  BY FromExists
<1>2. ShellMatch(pattern, s) = F[<<1, 1>>]
  BY DEF ShellMatch, IsFrom, ShellFrom
<1> HIDE DEF F
<1>3. ASSUME NEW pi \in 1..(Len(pattern) + 1), NEW si \in 1..(Len(s) + 1)
      PROVE  F[<<pi, si>>] = ShellFrom(F, pattern, s, pi, si)
  <2>1. <<pi, si>> \in (1..(Len(pattern) + 1)) \X (1..(Len(s) + 1))
    OBVIOUS
  <2> QED
    BY <1>1, <2>1 DEF IsFrom
<1> QED
  BY <1>2, <1>3

\* One turn of the loop of GlobMatch, given what it comes to at other cursors.
GlobStep(g, pattern, s, c) ==
    IF c.si > Len(s) THEN OnlyStars(pattern, c.pi)
    ELSE IF c.pi <= Len(pattern) /\ pattern[c.pi] \in {"?", s[c.si]}
      THEN g[At(c.pi + 1, c.si + 1, c.star, c.starMatch)]
    ELSE IF c.pi <= Len(pattern) /\ pattern[c.pi] = "*"
      THEN g[At(c.pi + 1, c.si, c.pi, c.si)]
    ELSE IF c.star # 0
      THEN g[At(c.star + 1, c.starMatch + 1, c.star, c.starMatch + 1)]
      ELSE FALSE

\* What every turn lessens: first how many stars may follow, then what the star
\* may still give up, then how much of the subject is left.
Rank(pattern, s, c) ==
    LET n == Len(s) + 2
    IN  ((Len(pattern) - c.star) * n + (Len(s) + 1 - c.starMatch)) * n
            + (Len(s) + 1 - c.si)

\* Of two numbers in three digits, the one with the smaller first digit that differs
\* is the smaller.
LEMMA Lexicographic ==
    ASSUME NEW n \in Nat, NEW a1 \in Nat, NEW b1 \in 0..(n - 1), NEW c1 \in 0..(n - 1),
           NEW a2 \in Nat, NEW b2 \in Nat, NEW c2 \in Nat,
           \/ a1 < a2
           \/ a1 = a2 /\ b1 < b2
           \/ a1 = a2 /\ b1 = b2 /\ c1 < c2
    PROVE  (a1 * n + b1) * n + c1 < (a2 * n + b2) * n + c2
<1> DEFINE u1 == a1 * n + b1
           u2 == a2 * n + b2
<1>1. u1 \in Nat /\ u2 \in Nat
  OBVIOUS
<1>2. ASSUME NEW x \in Nat, NEW y \in Nat, x < y PROVE x * n + n <= y * n
  <2>1. (x + 1) * n <= y * n
    <3>1. x + 1 <= y /\ x + 1 \in Nat
      BY <1>2
    <3>2. ASSUME NEW z \in Nat, z <= y PROVE z * n <= y * n
      BY <3>2
    <3> QED
      BY <3>1, <3>2
  <2> QED
    BY <2>1
<1>3. CASE a1 < a2
  <2>1. a1 * n + n <= a2 * n /\ a1 * n \in Nat /\ a2 * n \in Nat
    BY <1>2, <1>3
  <2>2. u1 < u2
    BY <2>1
  <2> HIDE DEF u1, u2
  <2>3. u1 * n + n <= u2 * n /\ u1 * n \in Nat /\ u2 * n \in Nat
    BY <1>1, <1>2, <2>2
  <2>4. u1 * n + c1 < u2 * n + c2
    BY <2>3
  <2> QED
    BY <2>4 DEF u1, u2
<1>4. CASE a1 = a2 /\ b1 < b2
  <2>1. u1 < u2
    BY <1>4
  <2> HIDE DEF u1, u2
  <2>2. u1 * n + n <= u2 * n /\ u1 * n \in Nat /\ u2 * n \in Nat
    BY <1>1, <1>2, <2>1
  <2>3. u1 * n + c1 < u2 * n + c2
    BY <2>2
  <2> QED
    BY <2>3 DEF u1, u2
<1>5. CASE a1 = a2 /\ b1 = b2 /\ c1 < c2
  <2>1. u1 = u2
    BY <1>5
  <2> HIDE DEF u1, u2
  <2>2. u1 * n \in Nat /\ u2 * n \in Nat /\ u1 * n = u2 * n
    BY <1>1, <2>1
  <2>3. u1 * n + c1 < u2 * n + c2
    BY <1>5, <2>2
  <2> QED
    BY <2>3 DEF u1, u2
<1> QED
  BY <1>3, <1>4, <1>5

\* The cursors that a turn goes on to are cursors of a lower rank.
LEMMA TurnDescends ==
    ASSUME NEW pattern, NEW s, Len(pattern) \in Nat, Len(s) \in Nat,
           NEW c \in Cursors(pattern, s), c.si <= Len(s)
    PROVE  /\ c.pi <= Len(pattern) =>
                LET d == At(c.pi + 1, c.si + 1, c.star, c.starMatch)
                    e == At(c.pi + 1, c.si, c.pi, c.si)
                IN  /\ d \in Cursors(pattern, s)
                    /\ Rank(pattern, s, d) < Rank(pattern, s, c)
                    /\ e \in Cursors(pattern, s)
                    /\ Rank(pattern, s, e) < Rank(pattern, s, c)
           /\ c.star # 0 =>
                LET d == At(c.star + 1, c.starMatch + 1, c.star, c.starMatch + 1)
                IN  /\ d \in Cursors(pattern, s)
                    /\ Rank(pattern, s, d) < Rank(pattern, s, c)
<1> DEFINE P == Len(pattern)
           L == Len(s)
           n == L + 2
<1>1. /\ c.pi \in 1..(P + 1) /\ c.si \in 1..(L + 1) /\ c.star \in 0..P
      /\ c.starMatch \in 1..(L + 1) /\ c.star < c.pi /\ c.starMatch <= c.si
  BY DEF Cursors
<1>2. ASSUME NEW pi \in 1..(P + 1), NEW si \in 1..(L + 1), NEW star \in 0..P,
             NEW starMatch \in 1..(L + 1), star < pi, starMatch <= si,
             \/ c.star < star
             \/ c.star = star /\ c.starMatch < starMatch
             \/ c.star = star /\ c.starMatch = starMatch /\ c.si < si
      PROVE  At(pi, si, star, starMatch) \in Cursors(pattern, s)
             /\ Rank(pattern, s, At(pi, si, star, starMatch)) < Rank(pattern, s, c)
  <2> DEFINE d == At(pi, si, star, starMatch)
  <2>1. /\ d \in [pi : 1..(P + 1), si : 1..(L + 1), star : 0..P, starMatch : 1..(L + 1)]
        /\ d.pi = pi /\ d.si = si /\ d.star = star /\ d.starMatch = starMatch
    BY DEF At
  <2> HIDE DEF d
  <2>2. d \in Cursors(pattern, s)
    BY <1>2, <2>1 DEF Cursors
  <2> DEFINE a1 == P - star
             b1 == L + 1 - starMatch
             c1 == L + 1 - si
             a2 == P - c.star
             b2 == L + 1 - c.starMatch
             c2 == L + 1 - c.si
  <2>3. /\ n \in Nat /\ a1 \in Nat /\ b1 \in 0..(n - 1) /\ c1 \in 0..(n - 1)
        /\ a2 \in Nat /\ b2 \in Nat /\ c2 \in Nat
        /\ \/ a1 < a2
           \/ a1 = a2 /\ b1 < b2
           \/ a1 = a2 /\ b1 = b2 /\ c1 < c2
    <3>1. PICK si0, star0, starMatch0 :
             si0 = c.si /\ star0 = c.star /\ starMatch0 = c.starMatch
      OBVIOUS
    <3>2. /\ si0 \in 1..(L + 1) /\ star0 \in 0..P /\ starMatch0 \in 1..(L + 1)
          /\ \/ star0 < star
             \/ star0 = star /\ starMatch0 < starMatch
             \/ star0 = star /\ starMatch0 = starMatch /\ si0 < si
      BY <1>1, <1>2, <3>1
    <3>3. P \in Nat /\ L \in Nat
      OBVIOUS
    <3> HIDE DEF P, L
    <3>4. /\ a1 \in Nat /\ b1 \in 0..(L + 1) /\ c1 \in 0..(L + 1)
          /\ P - star0 \in Nat /\ L + 1 - starMatch0 \in Nat /\ L + 1 - si0 \in Nat
      BY <3>2, <3>3
    <3>5. \/ a1 < P - star0
          \/ a1 = P - star0 /\ b1 < L + 1 - starMatch0
          \/ a1 = P - star0 /\ b1 = L + 1 - starMatch0 /\ c1 < L + 1 - si0
      BY <3>2, <3>3
    <3>6. n \in Nat /\ n - 1 = L + 1
      BY <3>3
    <3> HIDE DEF n, a1, b1, c1
    <3> QED
      BY <3>1, <3>4, <3>5, <3>6
  <2>4. Rank(pattern, s, d) = (a1 * n + b1) * n + c1
        /\ Rank(pattern, s, c) = (a2 * n + b2) * n + c2
    BY <2>1 DEF Rank
  <2> HIDE DEF a1, b1, c1, a2, b2, c2, n
  <2>5. (a1 * n + b1) * n + c1 < (a2 * n + b2) * n + c2
    BY <2>3, Lexicographic
  <2> QED
    BY <2>2, <2>4, <2>5 DEF d
<1> HIDE DEF P, L
<1>3. L \in Nat /\ P \in Nat /\ c.si <= L
  BY DEF L, P
<1>4. ASSUME c.pi <= P
      PROVE  LET d == At(c.pi + 1, c.si + 1, c.star, c.starMatch)
                 e == At(c.pi + 1, c.si, c.pi, c.si)
             IN  /\ d \in Cursors(pattern, s)
                 /\ Rank(pattern, s, d) < Rank(pattern, s, c)
                 /\ e \in Cursors(pattern, s)
                 /\ Rank(pattern, s, e) < Rank(pattern, s, c)
  <2>1. /\ c.pi + 1 \in 1..(P + 1) /\ c.si + 1 \in 1..(L + 1) /\ c.star < c.pi + 1
        /\ c.starMatch <= c.si + 1 /\ c.si < c.si + 1
    <3>1. ASSUME NEW p \in 1..(P + 1), NEW i \in 1..(L + 1), NEW a \in 0..P,
                 NEW m \in 1..(L + 1), a < p, m <= i, p <= P, i <= L
          PROVE  /\ p + 1 \in 1..(P + 1) /\ i + 1 \in 1..(L + 1) /\ a < p + 1
                 /\ m <= i + 1 /\ i < i + 1
      BY <1>3, <3>1
    <3> QED
      BY <1>1, <1>3, <1>4, <3>1
  <2>2. c.pi \in 0..P /\ c.pi < c.pi + 1 /\ c.si <= c.si
    BY <1>1, <1>3, <1>4
  <2> QED
    BY <1>1, <1>2, <2>1, <2>2
<1>5. ASSUME c.star # 0
      PROVE  LET d == At(c.star + 1, c.starMatch + 1, c.star, c.starMatch + 1)
             IN  /\ d \in Cursors(pattern, s)
                 /\ Rank(pattern, s, d) < Rank(pattern, s, c)
  <2>1. /\ c.star + 1 \in 1..(P + 1) /\ c.starMatch + 1 \in 1..(L + 1)
        /\ c.star < c.star + 1 /\ c.starMatch + 1 <= c.starMatch + 1
        /\ c.starMatch < c.starMatch + 1
    <3>1. ASSUME NEW i \in 1..(L + 1), NEW a \in 0..P, NEW m \in 1..(L + 1),
                 m <= i, i <= L
          PROVE  /\ a + 1 \in 1..(P + 1) /\ m + 1 \in 1..(L + 1)
                 /\ a < a + 1 /\ m + 1 <= m + 1 /\ m < m + 1
      BY <1>3, <3>1
    <3> QED
      BY <1>1, <1>3, <3>1
  <2> QED
    BY <1>1, <1>2, <2>1
<1> QED
  BY <1>4, <1>5 DEF P

\* Ranks are natural numbers, and there is a bound to them.
LEMMA RankRange ==
    ASSUME NEW pattern, NEW s, Len(pattern) \in Nat, Len(s) \in Nat
    PROVE  \E m \in Nat : \A c \in Cursors(pattern, s) :
              Rank(pattern, s, c) \in Nat /\ Rank(pattern, s, c) < m
<1> DEFINE P == Len(pattern)
           L == Len(s)
           n == L + 2
           m == ((P + 1) * n + 0) * n + 0
<1>1. ASSUME NEW c \in Cursors(pattern, s)
      PROVE  Rank(pattern, s, c) \in Nat /\ Rank(pattern, s, c) < m
  <2>1. PICK a, b, d : a = P - c.star /\ b = L + 1 - c.starMatch /\ d = L + 1 - c.si
    OBVIOUS
  <2>2. c.star \in 0..P /\ c.starMatch \in 1..(L + 1) /\ c.si \in 1..(L + 1)
    BY DEF Cursors
  <2>3. Rank(pattern, s, c) = (a * n + b) * n + d
    BY <2>1 DEF Rank
  <2>4. /\ n \in Nat /\ a \in Nat /\ b \in 0..(n - 1) /\ d \in 0..(n - 1)
        /\ P + 1 \in Nat /\ a < P + 1
    <3>1. P \in Nat /\ L \in Nat
      OBVIOUS
    <3> HIDE DEF P, L
    <3>2. ASSUME NEW x \in 0..P, NEW y \in 1..(L + 1), NEW z \in 1..(L + 1)
          PROVE  /\ P - x \in Nat /\ P - x < P + 1
                 /\ L + 1 - y \in 0..(L + 1) /\ L + 1 - z \in 0..(L + 1)
      BY <3>1
    <3>3. n \in Nat /\ n - 1 = L + 1 /\ P + 1 \in Nat
      BY <3>1
    <3> HIDE DEF n
    <3> QED
      BY <2>1, <2>2, <3>2, <3>3
  <2> HIDE DEF P, n
  <2>5. (a * n + b) * n + d < ((P + 1) * n + 0) * n + 0
    BY <2>4, Lexicographic
  <2>6. (a * n + b) * n + d \in Nat
    BY <2>4
  <2> QED
    BY <2>3, <2>5, <2>6
<1>2. m \in Nat
  OBVIOUS
<1> HIDE DEF m
<1> QED
  BY <1>1, <1>2

\* g is what the loop comes to at the cursors below a rank.
Below(pattern, s, m) == {c \in Cursors(pattern, s) : Rank(pattern, s, c) < m}
IsLoop(g, pattern, s, W) == g = [c \in W |-> GlobStep(g, pattern, s, c)]

\* So there is such a function for all of the cursors.
LEMMA LoopExists ==
    ASSUME NEW pattern, NEW s, Len(pattern) \in Nat, Len(s) \in Nat
    PROVE  \E g : IsLoop(g, pattern, s, Cursors(pattern, s))
<1> DEFINE D(m) == Below(pattern, s, m)
           S == {m \in Nat : \E g : IsLoop(g, pattern, s, D(m))}
<1>1. \A c \in Cursors(pattern, s) : Rank(pattern, s, c) \in Nat
  BY RankRange
<1>2. 0 \in S
  <2> DEFINE g == [c \in D(0) |-> TRUE]
  <2>1. \A c \in Cursors(pattern, s) : ~(Rank(pattern, s, c) < 0)
    BY <1>1
  <2>2. D(0) = {}
    BY <2>1 DEF Below
  <2>3. g = [c \in D(0) |-> GlobStep(g, pattern, s, c)]
    BY <2>2
  <2>4. IsLoop(g, pattern, s, D(0))
    BY <2>3 DEF IsLoop
  <2> HIDE DEF g
  <2> QED
    BY <2>4
<1>3. ASSUME NEW m \in Nat, m \in S PROVE m + 1 \in S
  <2>1. PICK g : IsLoop(g, pattern, s, D(m))
    BY <1>3
  <2> DEFINE h == [c \in D(m + 1) |-> GlobStep(g, pattern, s, c)]
  <2>2. ASSUME NEW c \in D(m) PROVE c \in D(m + 1) /\ h[c] = g[c]
    <3>1. c \in D(m + 1)
      <4>1. c \in Cursors(pattern, s) /\ Rank(pattern, s, c) < m
        BY DEF Below
      <4>2. Rank(pattern, s, c) < m + 1
        BY <1>1, <4>1
      <4> QED
        BY <4>1, <4>2 DEF Below
    <3>2. g[c] = GlobStep(g, pattern, s, c)
      BY <2>1 DEF IsLoop
    <3> QED
      BY <3>1, <3>2
  <2>3. ASSUME NEW c \in D(m + 1)
        PROVE  GlobStep(g, pattern, s, c) = GlobStep(h, pattern, s, c)
    <3>1. c \in Cursors(pattern, s) /\ Rank(pattern, s, c) < m + 1
      BY DEF Below
    <3>2. ASSUME NEW d \in Cursors(pattern, s), Rank(pattern, s, d) < Rank(pattern, s, c)
          PROVE  h[d] = g[d]
      <4>1. Rank(pattern, s, d) < m
        BY <1>1, <3>1, <3>2
      <4>2. d \in D(m)
        BY <4>1 DEF Below
      <4> HIDE DEF h, D
      <4> QED
        BY <2>2, <4>2
    <3> HIDE DEF h, D
    <3>3. CASE c.si > Len(s)
      BY <3>3 DEF GlobStep
    <3>4. CASE ~(c.si > Len(s))
      <4>1. c.si <= Len(s)
        BY <3>1, <3>4 DEF Cursors
      <4>2. c.pi <= Len(pattern) =>
              /\ LET d == At(c.pi + 1, c.si + 1, c.star, c.starMatch) IN h[d] = g[d]
              /\ LET d == At(c.pi + 1, c.si, c.pi, c.si) IN h[d] = g[d]
        BY <3>1, <3>2, <4>1, TurnDescends
      <4>3. c.star # 0 =>
              LET d == At(c.star + 1, c.starMatch + 1, c.star, c.starMatch + 1)
              IN  h[d] = g[d]
        BY <3>1, <3>2, <4>1, TurnDescends
      <4> QED
        BY <3>4, <4>2, <4>3 DEF GlobStep
    <3> QED
      BY <3>3, <3>4
  <2>4. h = [c \in D(m + 1) |-> GlobStep(h, pattern, s, c)]
    <3> DEFINE k == [c \in D(m + 1) |-> GlobStep(h, pattern, s, c)]
    <3>1. \A c \in D(m + 1) : h[c] = k[c]
      <4> HIDE DEF D
      <4>1. \A c \in D(m + 1) : h[c] = GlobStep(g, pattern, s, c)
        OBVIOUS
      <4> HIDE DEF h
      <4> QED
        BY <2>3, <4>1
    <3> HIDE <2>2, <2>3
    <3> HIDE DEF D
    <3> QED
      BY <3>1
  <2>5. IsLoop(h, pattern, s, D(m + 1))
    <3> HIDE DEF h
    <3> QED
      BY <2>4 DEF IsLoop
  <2> HIDE DEF h
  <2> QED
    BY <2>5
<1>4. Nat \subseteq S
  <2> HIDE DEF S
  <2> QED
    BY <1>2, <1>3, SetInduction
<1>5. PICK m \in Nat : \A c \in Cursors(pattern, s) : Rank(pattern, s, c) < m
  BY RankRange
<1>6. Below(pattern, s, m) = Cursors(pattern, s)
  BY <1>5 DEF Below
<1> QED
  BY <1>4, <1>6

\* GlobMatch is such a function's value where the loop begins.
LEMMA GlobTurns ==
    ASSUME NEW pattern, NEW s, Len(pattern) \in Nat, Len(s) \in Nat
    PROVE  \E G : /\ GlobMatch(pattern, s) = G[At(1, 1, 0, 1)]
                  /\ \A c \in Cursors(pattern, s) : G[c] = GlobStep(G, pattern, s, c)
<1> DEFINE G == CHOOSE g : IsLoop(g, pattern, s, Cursors(pattern, s))
<1>1. IsLoop(G, pattern, s, Cursors(pattern, s))
  BY LoopExists
<1>2. GlobMatch(pattern, s) = G[At(1, 1, 0, 1)]
  BY DEF GlobMatch, IsLoop, GlobStep
<1> HIDE DEF G
<1> QED
  BY <1>1, <1>2 DEF IsLoop

\* F tells of every place of a pattern whether the shell would have the rest match,
\* G of every cursor what the loop comes to.
Rests(F, pattern, s) ==
    \A pi \in 1..(Len(pattern) + 1), si \in 1..(Len(s) + 1) :
        F[<<pi, si>>] = ShellFrom(F, pattern, s, pi, si)
Turns(G, pattern, s) ==
    \A c \in Cursors(pattern, s) : G[c] = GlobStep(G, pattern, s, c)

\* No star is among these characters of the pattern.
Literal(pattern, from, to) == \A i \in from..to : pattern[i] # "*"

\* It either matches or does not.
LEMMA RestIsBoolean ==
    ASSUME NEW pattern, NEW s, Len(s) \in Nat, NEW F, Rests(F, pattern, s),
           NEW pi \in 1..(Len(pattern) + 1), NEW si \in 1..(Len(s) + 1)
    PROVE  F[<<pi, si>>] \in BOOLEAN
<1>1. F[<<pi, si>>] = ShellFrom(F, pattern, s, pi, si)
  BY DEF Rests
<1>2. ShellFrom(F, pattern, s, pi, si) \in BOOLEAN
  <2>1. CASE pi > Len(pattern)
    <3>1. ShellFrom(F, pattern, s, pi, si) = (si > Len(s))
      BY <2>1 DEF ShellFrom
    <3>2. (si > Len(s)) \in BOOLEAN
      BY SMT
    <3> QED
      BY <3>1, <3>2
  <2>2. CASE ~(pi > Len(pattern)) /\ pattern[pi] = "*"
    <3>1. ShellFrom(F, pattern, s, pi, si) = \E k \in si..(Len(s) + 1) : F[<<pi + 1, k>>]
      BY <2>2 DEF ShellFrom
    <3> QED
      BY <3>1, Zenon
  <2>3. CASE ~(pi > Len(pattern)) /\ pattern[pi] # "*"
    <3>1. ShellFrom(F, pattern, s, pi, si) =
            (si <= Len(s) /\ pattern[pi] \in {"?", s[si]} /\ F[<<pi + 1, si + 1>>])
      BY <2>3 DEF ShellFrom
    <3> QED
      BY <3>1, Zenon
  <2> QED
    BY <2>1, <2>2, <2>3
<1> QED
  BY <1>1, <1>2

\* Nothing is left of the subject: only stars match that.
LEMMA EndOfSubject ==
    ASSUME NEW pattern, NEW s, Len(pattern) \in Nat, Len(s) \in Nat,
           NEW F, Rests(F, pattern, s), NEW pi \in 1..(Len(pattern) + 1)
    PROVE  F[<<pi, Len(s) + 1>>] <=> OnlyStars(pattern, pi)
<1> DEFINE P == Len(pattern)
           L == Len(s)
           Is(q) == F[<<q, L + 1>>] <=> OnlyStars(pattern, q)
           S == {m \in Nat : m <= P => Is(P + 1 - m)}
<1>1. \A q \in 1..(P + 1) : F[<<q, L + 1>>] = ShellFrom(F, pattern, s, q, L + 1)
  <2>1. L + 1 \in 1..(L + 1)
    OBVIOUS
  <2> QED
    BY <2>1 DEF Rests
<1>2. 0 \in S
  <2>1. P + 1 \in 1..(P + 1) /\ P + 1 > P /\ L + 1 > L /\ P + 1 - 0 = P + 1
    OBVIOUS
  <2>2. F[<<P + 1, L + 1>>] = (L + 1 > L)
    BY <1>1, <2>1 DEF ShellFrom
  <2>3. F[<<P + 1, L + 1>>]
    BY <2>1, <2>2
  <2>4. OnlyStars(pattern, P + 1)
    BY DEF OnlyStars
  <2> QED
    BY <2>1, <2>3, <2>4
<1>3. ASSUME NEW m \in Nat, m \in S PROVE m + 1 \in S
  <2> SUFFICES ASSUME m + 1 <= P PROVE Is(P + 1 - (m + 1))
    OBVIOUS
  <2>1. PICK q \in 1..P : q = P + 1 - (m + 1) /\ q + 1 = P + 1 - m
    <3>1. P + 1 - (m + 1) \in 1..P /\ P + 1 - (m + 1) + 1 = P + 1 - m
      OBVIOUS
    <3> QED
      BY <3>1
  <2>2. Is(q + 1)
    <3>1. Is(P + 1 - m)
      BY <1>3
    <3> HIDE DEF Is
    <3> QED
      BY <2>1, <3>1
  <2>3. OnlyStars(pattern, q) <=> pattern[q] = "*" /\ OnlyStars(pattern, q + 1)
    <3>1. \A j : j \in q..P <=> j = q \/ j \in (q + 1)..P
      BY <2>1
    <3> QED
      BY <3>1 DEF OnlyStars
  <2>4. F[<<q, L + 1>>] = ShellFrom(F, pattern, s, q, L + 1)
    BY <1>1
  <2>5. F[<<q, L + 1>>] <=> pattern[q] = "*" /\ F[<<q + 1, L + 1>>]
    <3>1. ~(q > P) /\ ~(L + 1 <= L) /\ (\A k : k \in (L + 1)..(L + 1) <=> k = L + 1)
      OBVIOUS
    <3>2. q \in 1..(P + 1) /\ L + 1 \in 1..(L + 1)
      OBVIOUS
    <3>3. F[<<q, L + 1>>] \in BOOLEAN
      BY <3>2, RestIsBoolean
    <3>4. CASE pattern[q] = "*"
      <4>1. F[<<q, L + 1>>] = \E k \in (L + 1)..(L + 1) : F[<<q + 1, k>>]
        BY <2>4, <3>1, <3>4 DEF ShellFrom
      <4> QED
        BY <3>1, <3>4, <4>1
    <3>5. CASE pattern[q] # "*"
      <4>1. ~F[<<q, L + 1>>]
        BY <2>4, <3>1, <3>5 DEF ShellFrom
      <4> QED
        BY <3>5, <4>1
    <3> QED
      BY <3>4, <3>5
  <2>6. Is(q)
    BY <2>2, <2>3, <2>5
  <2> HIDE DEF Is
  <2> QED
    BY <2>1, <2>6
<1>4. Nat \subseteq S
  <2> HIDE DEF S
  <2> QED
    BY <1>2, <1>3, SetInduction
<1>5. P + 1 - pi \in Nat /\ P + 1 - pi <= P /\ P + 1 - (P + 1 - pi) = pi
  OBVIOUS
<1>6. Is(P + 1 - (P + 1 - pi))
  BY <1>4, <1>5
<1> HIDE DEF P, L
<1>7. F[<<pi, L + 1>>] <=> OnlyStars(pattern, pi)
  BY <1>5, <1>6
<1> QED
  BY <1>7 DEF L

\* A stretch without stars takes as many characters as it has.
LEMMA LiteralTakes ==
    ASSUME NEW pattern, NEW s, Len(pattern) \in Nat, Len(s) \in Nat,
           NEW F, Rests(F, pattern, s), NEW d \in Nat,
           NEW a \in 1..(Len(pattern) + 1), a + d <= Len(pattern) + 1,
           Literal(pattern, a, a + d - 1),
           NEW k \in 1..(Len(s) + 1), F[<<a, k>>]
    PROVE  k + d <= Len(s) + 1 /\ F[<<a + d, k + d>>]
<1> DEFINE P == Len(pattern)
           L == Len(s)
           S == {n \in Nat : n <= d => k + n <= L + 1 /\ F[<<a + n, k + n>>]}
<1>1. 0 \in S
  <2>1. a + 0 = a /\ k + 0 = k
    OBVIOUS
  <2> QED
    BY <2>1
<1>2. ASSUME NEW n \in Nat, n \in S PROVE n + 1 \in S
  <2> SUFFICES ASSUME n + 1 <= d
               PROVE  k + (n + 1) <= L + 1 /\ F[<<a + (n + 1), k + (n + 1)>>]
    OBVIOUS
  <2>1. PICK q, j : q = a + n /\ j = k + n
    OBVIOUS
  <2>2. /\ q \in 1..P /\ j \in 1..(L + 1) /\ q \in a..(a + d - 1) /\ F[<<q, j>>]
        /\ a + (n + 1) = q + 1 /\ k + (n + 1) = j + 1
    BY <1>2, <2>1
  <2>3. pattern[q] # "*"
    BY <2>2 DEF Literal
  <2>4. F[<<q, j>>] = ShellFrom(F, pattern, s, q, j)
    <3>1. q \in 1..(P + 1) /\ j \in 1..(L + 1)
      BY <2>2
    <3> QED
      BY <3>1 DEF Rests
  <2>5. ShellFrom(F, pattern, s, q, j) <=>
          j <= L /\ pattern[q] \in {"?", s[j]} /\ F[<<q + 1, j + 1>>]
    <3>1. ~(q > P)
      BY <2>2
    <3> QED
      BY <2>3, <3>1 DEF ShellFrom
  <2>6. j <= L /\ F[<<q + 1, j + 1>>]
    BY <2>2, <2>4, <2>5
  <2>7. j + 1 <= L + 1
    BY <2>2, <2>6
  <2> HIDE DEF L
  <2> QED
    BY <2>2, <2>6, <2>7
<1>3. Nat \subseteq S
  <2> HIDE DEF S
  <2> QED
    BY <1>1, <1>2, SetInduction
<1>4. d \in S /\ d <= d
  BY <1>3
<1> QED
  BY <1>4

\* A star that can take from j on can take from any place before.
LEMMA StarTakesMore ==
    ASSUME NEW pattern, NEW s, Len(pattern) \in Nat, Len(s) \in Nat,
           NEW F, Rests(F, pattern, s), NEW q \in 1..Len(pattern), pattern[q] = "*",
           NEW i \in 1..(Len(s) + 1)
    PROVE  /\ F[<<q, i>>] <=> \E k \in i..(Len(s) + 1) : F[<<q + 1, k>>]
           /\ \A j \in i..(Len(s) + 1) : F[<<q, j>>] => F[<<q, i>>]
<1>1. ASSUME NEW x \in 1..(Len(s) + 1)
      PROVE  F[<<q, x>>] <=> \E k \in x..(Len(s) + 1) : F[<<q + 1, k>>]
  <2>1. q \in 1..(Len(pattern) + 1) /\ ~(q > Len(pattern))
    OBVIOUS
  <2>2. F[<<q, x>>] = ShellFrom(F, pattern, s, q, x)
    BY <2>1 DEF Rests
  <2>3. ShellFrom(F, pattern, s, q, x) = \E k \in x..(Len(s) + 1) : F[<<q + 1, k>>]
    BY <2>1 DEF ShellFrom
  <2> QED
    BY <2>2, <2>3
<1>2. ASSUME NEW j \in i..(Len(s) + 1), F[<<q, j>>] PROVE F[<<q, i>>]
  <2>1. j \in 1..(Len(s) + 1)
    OBVIOUS
  <2>2. PICK k \in j..(Len(s) + 1) : F[<<q + 1, k>>]
    BY <1>1, <1>2, <2>1
  <2>3. k \in i..(Len(s) + 1)
    OBVIOUS
  <2> QED
    BY <1>1, <2>2, <2>3
<1> QED
  BY <1>1, <1>2


\* Since the star gave up its last character, pattern and subject were taken one
\* for one, and no star was passed.
Aligned(pattern, c) ==
    /\ c.si - c.starMatch = c.pi - c.star - 1
    /\ Literal(pattern, c.star + 1, c.pi - 1)

\* What the loop is to come to: the rest matches here, or, if there was a star,
\* what follows it matches further on.
Answer(F, s, c) ==
    \/ F[<<c.pi, c.si>>]
    \/ /\ c.star # 0
       /\ \E k \in (c.starMatch + 1)..(Len(s) + 1) : F[<<c.star + 1, k>>]

\* Where the loop has come past a star, what follows the star can only match
\* further on if what is left can match at or after the subject's cursor.
LEMMA FurtherOn ==
    ASSUME NEW pattern, NEW s, Len(pattern) \in Nat, Len(s) \in Nat,
           NEW F, Rests(F, pattern, s), NEW c \in Cursors(pattern, s),
           Aligned(pattern, c), NEW k \in (c.starMatch + 1)..(Len(s) + 1),
           F[<<c.star + 1, k>>]
    PROVE  \E j \in (c.si + 1)..(Len(s) + 1) : F[<<c.pi, j>>]
<1> DEFINE P == Len(pattern)
           L == Len(s)
<1>1. PICK p, i, a, m : p = c.pi /\ i = c.si /\ a = c.star /\ m = c.starMatch
  OBVIOUS
<1>2. /\ p \in 1..(P + 1) /\ i \in 1..(L + 1) /\ a \in 0..P /\ m \in 1..(L + 1)
      /\ a < p /\ m <= i
  BY <1>1 DEF Cursors
<1>3. i - m = p - a - 1 /\ Literal(pattern, a + 1, p - 1)
  BY <1>1 DEF Aligned
<1> DEFINE d == p - a - 1
<1>4. /\ d \in Nat /\ a + 1 \in 1..(P + 1) /\ (a + 1) + d = p /\ p <= P + 1
      /\ (a + 1) + d - 1 = p - 1 /\ d = i - m
  BY <1>2, <1>3
<1>5. k \in 1..(L + 1) /\ F[<<a + 1, k>>] /\ k >= m + 1
  BY <1>1, <1>2
<1> HIDE DEF d
<1>6. k + d <= L + 1 /\ F[<<p, k + d>>]
  <2>1. Literal(pattern, a + 1, (a + 1) + d - 1) /\ (a + 1) + d <= P + 1
    BY <1>2, <1>3, <1>4
  <2>2. k + d <= L + 1 /\ F[<<(a + 1) + d, k + d>>]
    BY <1>4, <1>5, <2>1, LiteralTakes
  <2> QED
    BY <1>4, <2>2
<1>7. k + d \in (i + 1)..(L + 1)
  <2>1. /\ L \in Nat /\ i \in Int /\ m \in Int /\ k \in Int /\ d \in Int
        /\ d = i - m /\ k >= m + 1 /\ k + d <= L + 1
    BY <1>2, <1>4, <1>5, <1>6
  <2>2. k + d \in Int /\ k + d >= i + 1
    BY <2>1
  <2> HIDE DEF L
  <2> QED
    BY <2>1, <2>2
<1> QED
  BY <1>1, <1>6, <1>7

\* A turn of the loop answers, if those of lower rank do.
LEMMA TurnAnswers ==
    ASSUME NEW pattern, NEW s, Len(pattern) \in Nat, Len(s) \in Nat,
           \A i \in 1..Len(s) : s[i] # "*",
           NEW F, Rests(F, pattern, s), NEW G, Turns(G, pattern, s),
           NEW c \in Cursors(pattern, s), Aligned(pattern, c),
           \A d \in Cursors(pattern, s) :
              Rank(pattern, s, d) < Rank(pattern, s, c) /\ Aligned(pattern, d)
                 => G[d] \in BOOLEAN /\ (G[d] <=> Answer(F, s, d))
    PROVE  G[c] \in BOOLEAN /\ (G[c] <=> Answer(F, s, c))
<1> DEFINE P == Len(pattern)
           L == Len(s)
<1>1. PICK p, i, a, m : p = c.pi /\ i = c.si /\ a = c.star /\ m = c.starMatch
  OBVIOUS
<1>2. /\ p \in 1..(P + 1) /\ i \in 1..(L + 1) /\ a \in 0..P /\ m \in 1..(L + 1)
      /\ a < p /\ m <= i
  BY <1>1 DEF Cursors
<1>3. i - m = p - a - 1 /\ Literal(pattern, a + 1, p - 1)
  BY <1>1 DEF Aligned
<1>4. G[c] = GlobStep(G, pattern, s, c)
  BY DEF Turns
<1>5. Answer(F, s, c) <=>
        F[<<p, i>>] \/ (a # 0 /\ \E k \in (m + 1)..(L + 1) : F[<<a + 1, k>>])
  BY <1>1 DEF Answer
<1>6. ASSUME NEW k \in (m + 1)..(L + 1), F[<<a + 1, k>>]
      PROVE  \E j \in (i + 1)..(L + 1) : F[<<p, j>>]
  BY <1>1, <1>6, FurtherOn
<1>7. ASSUME NEW p1, NEW i1, NEW a1, NEW m1,
             At(p1, i1, a1, m1) \in Cursors(pattern, s),
             Rank(pattern, s, At(p1, i1, a1, m1)) < Rank(pattern, s, c),
             i1 - m1 = p1 - a1 - 1, Literal(pattern, a1 + 1, p1 - 1)
      PROVE  /\ G[At(p1, i1, a1, m1)] \in BOOLEAN
             /\ G[At(p1, i1, a1, m1)] <=>
                  \/ F[<<p1, i1>>]
                  \/ a1 # 0 /\ \E k \in (m1 + 1)..(L + 1) : F[<<a1 + 1, k>>]
  <2> DEFINE d == At(p1, i1, a1, m1)
  <2>1. d.pi = p1 /\ d.si = i1 /\ d.star = a1 /\ d.starMatch = m1
    BY DEF At
  <2> HIDE DEF d
  <2>2. Aligned(pattern, d)
    BY <1>7, <2>1 DEF Aligned
  <2>3. G[d] \in BOOLEAN /\ (G[d] <=> Answer(F, s, d))
    BY <1>7, <2>2 DEF d
  <2>4. Answer(F, s, d) <=>
            \/ F[<<p1, i1>>]
            \/ a1 # 0 /\ \E k \in (m1 + 1)..(L + 1) : F[<<a1 + 1, k>>]
    BY <2>1 DEF Answer
  <2> QED
    BY <2>3, <2>4 DEF d
<1>8. F[<<p, i>>] \in BOOLEAN /\ F[<<p, i>>] = ShellFrom(F, pattern, s, p, i)
  BY <1>2, RestIsBoolean DEF Rests
\* The subject is used up.
<1>9. CASE i > L
  <2>1. i = L + 1 /\ (L + 1) + 1 > L + 1
    BY <1>2, <1>9
  <2>2. G[c] = OnlyStars(pattern, p)
    BY <1>1, <1>4, <1>9 DEF GlobStep
  <2>3. F[<<p, i>>] <=> OnlyStars(pattern, p)
    BY <1>2, <2>1, EndOfSubject
  <2>4. ~\E k \in (m + 1)..(L + 1) : F[<<a + 1, k>>]
    <3>1. ~\E j \in (i + 1)..(L + 1) : F[<<p, j>>]
      <4>1. L \in Nat /\ i = L + 1
        BY <2>1
      <4> HIDE DEF L
      <4>2. (i + 1)..(L + 1) = {}
        BY <4>1
      <4> QED
        BY <4>2
    <3> QED
      BY <1>6, <3>1
  <2>5. G[c] \in BOOLEAN
    BY <2>2, Zenon DEF OnlyStars
  <2> QED
    BY <1>5, <2>2, <2>3, <2>4, <2>5
\* A character is taken by one like it.
<1>10. CASE i <= L /\ p <= P /\ pattern[p] \in {"?", s[i]}
  <2>1. G[c] = G[At(p + 1, i + 1, a, m)]
    BY <1>1, <1>2, <1>4, <1>10 DEF GlobStep
  <2>2. At(p + 1, i + 1, a, m) \in Cursors(pattern, s)
        /\ Rank(pattern, s, At(p + 1, i + 1, a, m)) < Rank(pattern, s, c)
    BY <1>1, <1>10, TurnDescends
  <2>3. pattern[p] # "*"
    BY <1>2, <1>10
  <2>4. /\ (i + 1) - m = (p + 1) - a - 1
        /\ Literal(pattern, a + 1, (p + 1) - 1)
    <3>1. \A q : q \in (a + 1)..((p + 1) - 1) => q = p \/ q \in (a + 1)..(p - 1)
      BY <1>2
    <3>2. (i + 1) - m = (p + 1) - a - 1
      BY <1>2, <1>3
    <3> QED
      BY <1>3, <2>3, <3>1, <3>2 DEF Literal
  <2>5. F[<<p, i>>] <=> F[<<p + 1, i + 1>>]
    <3>1. ~(p > P)
      BY <1>2, <1>10
    <3> QED
      BY <1>8, <1>10, <2>3, <3>1 DEF ShellFrom
  <2> QED
    BY <1>5, <1>7, <2>1, <2>2, <2>4, <2>5
\* A star takes nothing at first.
<1>11. CASE i <= L /\ p <= P /\ pattern[p] \notin {"?", s[i]} /\ pattern[p] = "*"
  <2>1. G[c] = G[At(p + 1, i, p, i)]
    BY <1>1, <1>2, <1>4, <1>11 DEF GlobStep
  <2>2. At(p + 1, i, p, i) \in Cursors(pattern, s)
        /\ Rank(pattern, s, At(p + 1, i, p, i)) < Rank(pattern, s, c)
    BY <1>1, <1>11, TurnDescends
  <2>3. i - i = (p + 1) - p - 1 /\ Literal(pattern, p + 1, (p + 1) - 1) /\ p # 0
    BY <1>2 DEF Literal
  <2>4. /\ G[c] \in BOOLEAN
        /\ G[c] <=> \/ F[<<p + 1, i>>]
                    \/ \E k \in (i + 1)..(L + 1) : F[<<p + 1, k>>]
    BY <1>7, <2>1, <2>2, <2>3
  <2>5. p \in 1..P
    BY <1>2, <1>11
  <2>6. /\ F[<<p, i>>] <=> \E k \in i..(L + 1) : F[<<p + 1, k>>]
        /\ \A j \in i..(L + 1) : F[<<p, j>>] => F[<<p, i>>]
    BY <1>2, <1>11, <2>5, StarTakesMore
  <2>7. G[c] <=> F[<<p, i>>]
    <3>1. \A k : k \in i..(L + 1) <=> k = i \/ k \in (i + 1)..(L + 1)
      BY <1>2, <1>11
    <3> QED
      BY <2>4, <2>6, <3>1
  <2>8. ASSUME NEW k \in (m + 1)..(L + 1), F[<<a + 1, k>>] PROVE F[<<p, i>>]
    <3>1. PICK j \in (i + 1)..(L + 1) : F[<<p, j>>]
      BY <1>6, <2>8
    <3>2. j \in i..(L + 1)
      BY <1>2
    <3> QED
      BY <2>6, <3>1, <3>2
  <2> QED
    BY <1>5, <2>4, <2>7, <2>8
\* Nothing matches here.
<1>12. CASE i <= L /\ ~(p <= P /\ pattern[p] \in {"?", s[i]})
            /\ ~(p <= P /\ pattern[p] = "*")
  <2>1. ~F[<<p, i>>]
    <3>1. CASE p <= P
      <4>1. ~(p > P)
        BY <1>2, <3>1
      <4> QED
        BY <1>8, <1>12, <3>1, <4>1 DEF ShellFrom
    <3>2. CASE ~(p <= P)
      <4>1. p > P /\ ~(i > L)
        BY <1>2, <1>12, <3>2
      <4> QED
        BY <1>8, <4>1 DEF ShellFrom
    <3> QED
      BY <3>1, <3>2
  <2>2. CASE a = 0
    <3>1. G[c] = FALSE
      BY <1>1, <1>2, <1>4, <1>12, <2>2 DEF GlobStep
    <3> QED
      BY <1>5, <2>1, <2>2, <3>1
  <2>3. CASE a # 0
    <3>1. G[c] = G[At(a + 1, m + 1, a, m + 1)]
      BY <1>1, <1>2, <1>4, <1>12, <2>3 DEF GlobStep
    <3>2. At(a + 1, m + 1, a, m + 1) \in Cursors(pattern, s)
          /\ Rank(pattern, s, At(a + 1, m + 1, a, m + 1)) < Rank(pattern, s, c)
      BY <1>1, <1>12, <2>3, TurnDescends
    <3>3. (m + 1) - (m + 1) = (a + 1) - a - 1 /\ Literal(pattern, a + 1, (a + 1) - 1)
      BY <1>2 DEF Literal
    <3>4. /\ G[c] \in BOOLEAN
          /\ G[c] <=> \/ F[<<a + 1, m + 1>>]
                      \/ \E k \in (m + 1 + 1)..(L + 1) : F[<<a + 1, k>>]
      BY <1>7, <2>3, <3>1, <3>2, <3>3
    <3>5. \A k : k \in (m + 1)..(L + 1) <=> k = m + 1 \/ k \in (m + 1 + 1)..(L + 1)
      BY <1>2, <1>12
    <3> QED
      BY <1>5, <2>1, <2>3, <3>4, <3>5
  <2> QED
    BY <2>2, <2>3
<1>13. i > L \/ i <= L
  BY <1>2
<1> QED
  BY <1>9, <1>10, <1>11, <1>12, <1>13

\* A pattern matches as a shell would have it every name that has no star in it.
LEMMA GlobsAreShells ==
    ASSUME NEW pattern, NEW s, Len(pattern) \in Nat, Len(s) \in Nat,
           \A i \in 1..Len(s) : s[i] # "*"
    PROVE  GlobMatch(pattern, s) = ShellMatch(pattern, s)
<1>1. PICK F : ShellMatch(pattern, s) = F[<<1, 1>>] /\ Rests(F, pattern, s)
  BY ShellPlaces DEF Rests
<1>2. PICK G : GlobMatch(pattern, s) = G[At(1, 1, 0, 1)] /\ Turns(G, pattern, s)
  BY GlobTurns DEF Turns
<1> DEFINE Answers(c) == G[c] \in BOOLEAN /\ (G[c] <=> Answer(F, s, c))
           S == {m \in Nat : \A c \in Cursors(pattern, s) :
                    Rank(pattern, s, c) < m /\ Aligned(pattern, c) => Answers(c)}
<1>3. \A c \in Cursors(pattern, s) : Rank(pattern, s, c) \in Nat
  BY RankRange
<1>4. 0 \in S
  <2>1. \A c \in Cursors(pattern, s) : ~(Rank(pattern, s, c) < 0)
    BY <1>3
  <2> HIDE DEF Answers
  <2> QED
    BY <2>1
<1>5. ASSUME NEW m \in Nat, m \in S PROVE m + 1 \in S
  <2> SUFFICES ASSUME NEW c \in Cursors(pattern, s), Rank(pattern, s, c) < m + 1,
                      Aligned(pattern, c)
               PROVE  Answers(c)
    BY DEF S
  <2>1. ASSUME NEW d \in Cursors(pattern, s), Aligned(pattern, d),
               Rank(pattern, s, d) < Rank(pattern, s, c)
        PROVE  Answers(d)
    <3>1. Rank(pattern, s, d) < m
      BY <1>3, <2>1
    <3> QED
      BY <1>5, <2>1, <3>1
  <2> QED
    BY <1>1, <1>2, <2>1, TurnAnswers
<1>6. Nat \subseteq S
  <2> HIDE DEF S
  <2> QED
    BY <1>4, <1>5, SetInduction
<1> DEFINE c == At(1, 1, 0, 1)
<1>7. c \in Cursors(pattern, s) /\ Aligned(pattern, c)
      /\ c.star = 0 /\ c.pi = 1 /\ c.si = 1
  <2>1. c.pi = 1 /\ c.si = 1 /\ c.star = 0 /\ c.starMatch = 1
    BY DEF At
  <2>2. c \in [pi : 1..(Len(pattern) + 1), si : 1..(Len(s) + 1),
               star : 0..Len(pattern), starMatch : 1..(Len(s) + 1)]
    BY DEF At
  <2> HIDE DEF c
  <2>3. Aligned(pattern, c)
    BY <2>1 DEF Aligned, Literal
  <2> QED
    BY <2>1, <2>2, <2>3 DEF Cursors
<1> HIDE DEF c
<1>8. Answers(c)
  <2>1. PICK m \in Nat : Rank(pattern, s, c) < m
    BY <1>7, RankRange
  <2> HIDE DEF Answers
  <2> QED
    BY <1>6, <1>7, <2>1
<1>9. G[c] \in BOOLEAN /\ (G[c] <=> F[<<1, 1>>])
  BY <1>7, <1>8 DEF Answer
<1>10. F[<<1, 1>>] \in BOOLEAN
  <2>1. 1 \in 1..(Len(pattern) + 1) /\ 1 \in 1..(Len(s) + 1)
    OBVIOUS
  <2> QED
    BY <1>1, <2>1, RestIsBoolean
<1> QED
  BY <1>1, <1>2, <1>9, <1>10 DEF c

\* The patterns of the rules mean what a shell means by them: for every pattern of
\* every accepted file and every name that has no star in it.
THEOREM PatternsMatchAsInShells == SSpec => []PatternsAreGlobs
<1>1. SentinelInv => PatternsAreGlobs
  <2> SUFFICES ASSUME SentinelInv, exit = 0, NEW i \in DOMAIN cfg.exceptions,
                      NEW subject \in Subjects
               PROVE  LET pattern == cfg.exceptions[i].match.name
                      IN  GlobMatch(pattern, subject) = ShellMatch(pattern, subject)
    BY DEF PatternsAreGlobs
  <2>1. /\ situation \in Situations
        /\ cfg \in Decode(situation.file, situation.secret)
    BY DEF SentinelInv, Configured
  <2>2. WellTyped(situation.file)
    BY <2>1, SituationsAssumption
  <2>3. cfg.exceptions = situation.file.exceptions
    BY <2>1, <2>2, DecodedFile DEF WellTyped
  <2>4. Len(cfg.exceptions[i].match.name) \in Nat
    BY <2>2, <2>3 DEF WellTyped
  <2> QED
    BY <2>4, SubjectsAssumption, GlobsAreShells
<1> QED
  BY <1>1, SentinelInvariant, PTL
=============================================================================
