--------------------------- MODULE HostChecksProofs ---------------------------
(* Theorems about HostChecks, for every size, threshold and bound. *)
EXTENDS HostChecks, SequenceTheorems, WellFoundedInduction, TLAPS

\* The figures of the counter and of its baseline are natural numbers.
Counters ==
    /\ now \in Nat \ {0} /\ pswpin \in Nat /\ paged \in Nat /\ lapse \in Nat
    /\ snap.vmstat \in [at : Nat, boot : Nat, pswpin : Nat]
    /\ boot \in Nat

\* What the counter shows beyond its baseline came in since the baseline was
\* read, and the baseline's time is that far back.
Accounted ==
    snap.vmstat.at # 0 =>
        /\ pswpin - snap.vmstat.pswpin <= paged
        /\ ~stepped => now - snap.vmstat.at = lapse

Inv == Counters /\ Accounted

-----------------------------------------------------------------------------
\* At the start there is no baseline.
LEMMA InitInv == Init => Inv
<1> SUFFICES ASSUME Init PROVE Inv
  OBVIOUS
<1>1. snap.vmstat = [at |-> 0, boot |-> 0, pswpin |-> 0]
  BY DEF Init, Fresh, NoReading, NoBoot
<1> QED
  BY <1>1 DEF Init, Inv, Counters, Accounted

\* The invariant is kept by whatever the host, its clock and the runs do.
LEMMA NextInv == Inv /\ [Next]_vars => Inv'
<1> SUFFICES ASSUME Inv, [Next]_vars PROVE Inv'
  OBVIOUS
<1> USE HostAssumption DEF Inv, Counters, Accounted
<1>1. CASE Tick
  <2>1. now' = now + 1 /\ lapse' = lapse + 1
    BY <1>1 DEF Tick
  <2>2. snap' = snap /\ pswpin' = pswpin /\ boot' = boot /\ paged' = paged
         /\ stepped' = stepped
    BY <1>1 DEF Tick, host
  <2>3. Counters'
    BY <2>1, <2>2
  <2>4. Accounted'
    BY <2>1, <2>2
  <2> QED
    BY <2>3, <2>4
<1>2. CASE PageIn
  BY <1>2 DEF PageIn
<1>3. CASE Reboot
  BY <1>3 DEF Reboot, history
<1>4. CASE LoseState
  BY <1>4 DEF LoseState, Fresh, NoReading, NoBoot, host
<1>5. ASSUME NEW t \in 1..MaxClock, Step(t) PROVE Inv'
  BY <1>5 DEF Step, host
<1>6. ASSUME NEW u \in 0..Total, Write(u) PROVE Inv'
  BY <1>6 DEF Write, history
<1>7. ASSUME NEW statfs \in BOOLEAN, NEW vmstat \in BOOLEAN, NEW id \in BootIds,
             Run(statfs, vmstat, id)
      PROVE Inv'
  <2>1. snap'.vmstat = VmstatBaseline(vmstat, id) /\ id \in Nat
    BY <1>7 DEF Run, BootIds, NoBoot
  <2>2. CASE vmstat
    <3>1. snap'.vmstat = [at |-> now, boot |-> id, pswpin |-> pswpin]
      BY <2>1, <2>2 DEF VmstatBaseline
    <3>2. paged' = 0 /\ lapse' = 0 /\ stepped' = FALSE
      BY <1>7, <2>2 DEF Run
    <3>3. now' = now /\ pswpin' = pswpin /\ boot' = boot
      BY <1>7 DEF Run, host
    <3>4. Counters'
      BY <2>1, <3>1, <3>2, <3>3
    <3>5. Accounted'
      BY <3>1, <3>2, <3>3
    <3> QED
      BY <3>4, <3>5
  <2>3. CASE ~vmstat
    <3>1. snap'.vmstat = snap.vmstat
      BY <2>1, <2>3 DEF VmstatBaseline
    <3>2. UNCHANGED <<paged, lapse, stepped>>
      BY <1>7, <2>3 DEF Run
    <3> QED
      BY <1>7, <3>1, <3>2 DEF Run, host
  <2> QED
    BY <2>2, <2>3
<1>8. CASE UNCHANGED vars
  BY <1>8 DEF vars, host, history
<1> QED
  BY <1>1, <1>2, <1>3, <1>4, <1>5, <1>6, <1>7, <1>8 DEF Next

\* Where the counter is accounted for, a page is of pages that came in.
LEMMA InvReal == Inv => SwapAlarmIsReal
<1> SUFFICES ASSUME Inv, NEW id \in BootIds, SwapVerdict(id) = "PAGE"
             PROVE  /\ paged >= Rate
                    /\ ~stepped => paged >= Rate * lapse
  BY DEF SwapAlarmIsReal
<1> DEFINE dt == now - snap.vmstat.at
<1>1. /\ snap.vmstat.at # 0
      /\ now > snap.vmstat.at
      /\ pswpin - snap.vmstat.pswpin >= Rate * dt
  BY DEF SwapVerdict, Warming, Measurable
<1>2. pswpin - snap.vmstat.pswpin <= paged /\ (~stepped => dt = lapse)
  BY <1>1 DEF Inv, Accounted
<1>3. /\ dt \in Nat \ {0} /\ Rate \in Nat \ {0} /\ paged \in Nat
      /\ pswpin \in Nat /\ snap.vmstat.pswpin \in Nat
  BY <1>1, HostAssumption DEF Inv, Counters
<1> HIDE DEF dt
<1>4. Rate * dt >= Rate /\ Rate * dt \in Nat
  BY <1>3
<1>5. paged >= Rate * dt
  BY <1>1, <1>2, <1>3, <1>4
<1> QED
  BY <1>2, <1>3, <1>4, <1>5

\* No page without paging: whatever is read or not, through reboots, steps of
\* the clock and lost state, swap_thrash says PAGE only when that many pages
\* came in since its baseline was read.
THEOREM NoFalsePage == Spec => []SwapAlarmIsReal
<1>1. Spec => []Inv
  BY InitInv, NextInv, PTL DEF Spec
<1> QED
  BY <1>1, InvReal, PTL

-----------------------------------------------------------------------------
(* What swap_thrash sees *)

\* Boots are counted up, and no snapshot knows one that is still to come.
Boots ==
    /\ boot \in Nat \ {0}
    /\ snap.boot \in 0..boot /\ snap.vmstat.boot \in 0..boot

\* A baseline of the boot that is running belongs to a state that was kept,
\* and what the counter shows beyond it is all that came in.
Current ==
    snap.vmstat.boot = boot =>
        /\ snap.known /\ snap.vmstat.at # 0
        /\ snap.boot \in {NoBoot, boot}
        /\ pswpin - snap.vmstat.pswpin = paged

SeenInv == Inv /\ Boots /\ Current

(* Before the first run there is no baseline to be wrong about. *)
LEMMA InitSeen == Init => Boots /\ Current
BY DEF Init, Boots, Current, Fresh, NoReading, NoBoot

(* Page-ins, reboots and runs keep the baseline that of the last reading. *)
LEMMA NextSeen == SeenInv /\ [Next]_vars => Boots' /\ Current'
<1> SUFFICES ASSUME SeenInv, [Next]_vars PROVE Boots' /\ Current'
  OBVIOUS
<1> USE HostAssumption
<1>1. CASE Tick
  BY <1>1 DEF Tick, host, SeenInv, Boots, Current
<1>2. CASE PageIn
  BY <1>2 DEF PageIn, SeenInv, Inv, Counters, Boots, Current
<1>3. CASE Reboot
  BY <1>3 DEF Reboot, history, SeenInv, Boots, Current
<1>4. CASE LoseState
  BY <1>4 DEF LoseState, Fresh, NoReading, NoBoot, host, SeenInv, Boots, Current
<1>5. ASSUME NEW t \in 1..MaxClock, Step(t) PROVE Boots' /\ Current'
  BY <1>5 DEF Step, host, SeenInv, Boots, Current
<1>6. ASSUME NEW u \in 0..Total, Write(u) PROVE Boots' /\ Current'
  BY <1>6 DEF Write, history, SeenInv, Boots, Current
<1>7. ASSUME NEW statfs \in BOOLEAN, NEW vmstat \in BOOLEAN, NEW id \in BootIds,
             Run(statfs, vmstat, id)
      PROVE Boots' /\ Current'
  <2>1. /\ snap'.known = TRUE /\ snap'.boot = id
        /\ snap'.vmstat = VmstatBaseline(vmstat, id)
        /\ boot' = boot /\ pswpin' = pswpin
    BY <1>7 DEF Run, host
  <2>2. id \in {NoBoot, boot} /\ NoBoot = 0 /\ boot \in Nat \ {0}
    BY DEF BootIds, NoBoot, SeenInv, Boots
  <2>3. CASE vmstat
    <3>1. snap'.vmstat = [at |-> now, boot |-> id, pswpin |-> pswpin]
      BY <2>1, <2>3 DEF VmstatBaseline
    <3>2. paged' = 0 /\ now # 0 /\ pswpin \in Nat
      BY <1>7, <2>3 DEF Run, SeenInv, Inv, Counters
    <3> QED
      BY <2>1, <2>2, <3>1, <3>2 DEF Boots, Current
  <2>4. CASE ~vmstat
    <3>1. snap'.vmstat = snap.vmstat /\ paged' = paged
      BY <1>7, <2>1, <2>4 DEF VmstatBaseline, Run
    <3> QED
      BY <2>1, <2>2, <3>1 DEF SeenInv, Boots, Current
  <2> QED
    BY <2>3, <2>4
<1>8. CASE UNCHANGED vars
  BY <1>8 DEF vars, host, history, SeenInv, Boots, Current
<1> QED
  BY <1>1, <1>2, <1>3, <1>4, <1>5, <1>6, <1>7, <1>8 DEF Next

\* Where the baseline is current, the rate that is compared is the true one.
LEMMA SeenPages == SeenInv => ThrashIsSeen
<1> SUFFICES ASSUME SeenInv, snap.vmstat.boot = boot, ~stepped, lapse > 0,
                    paged >= Rate * lapse
             PROVE  SwapVerdict(boot) = "PAGE"
  BY DEF ThrashIsSeen
<1>1. /\ snap.known /\ snap.vmstat.at # 0 /\ snap.boot \in {NoBoot, boot}
      /\ pswpin - snap.vmstat.pswpin = paged
      /\ now - snap.vmstat.at = lapse
  BY DEF SeenInv, Inv, Accounted, Current
<1>2. ~ Warming(boot)
  BY <1>1 DEF Warming, BootChanged
<1>3. /\ now \in Nat /\ pswpin \in Nat /\ paged \in Nat /\ lapse \in Nat
      /\ snap.vmstat.at \in Nat /\ snap.vmstat.pswpin \in Nat
  BY DEF SeenInv, Inv, Counters
<1>4. Measurable
  BY <1>1, <1>3 DEF Measurable
<1>5. pswpin - snap.vmstat.pswpin >= Rate * (now - snap.vmstat.at)
  BY <1>1
<1> QED
  BY <1>2, <1>4, <1>5 DEF SwapVerdict

\* A host that thrashes is paged of: when the pages of one boot came in at the
\* configured rate or above since the last reading, the rate swap_thrash takes
\* over its baseline says so, whatever was read, rebooted or lost before.
THEOREM ThrashIsPaged == Spec => []ThrashIsSeen
<1>1. Init => SeenInv
  BY InitInv, InitSeen DEF SeenInv
<1>2. SeenInv /\ [Next]_vars => SeenInv'
  BY NextInv, NextSeen DEF SeenInv
<1> QED
  BY <1>1, <1>2, SeenPages, PTL DEF Spec

-----------------------------------------------------------------------------
(* The slope of a ring.  EwmaSlope is a recursive function: that it is what its *)
(* equation says, and that no value exceeds every slope, are inductions.        *)

\* Induction over the naturals, for a set.
LEMMA SetInduction ==
    ASSUME NEW S, 0 \in S, \A n \in Nat : n \in S => n + 1 \in S
    PROVE  Nat \subseteq S
<1> DEFINE T == Nat \ S
<1>1. SUFFICES ASSUME T # {} PROVE FALSE
  OBVIOUS
<1>2. T \subseteq Nat
  OBVIOUS
<1>3. PICK x \in T : \A y \in T : <<y, x>> \notin OpToRel(<, Nat)
  BY <1>1, <1>2, WFMin, NatLessThanWellFounded, Zenon
<1>4. \A y \in T : ~ (y < x)
  BY <1>3, Zenon DEF OpToRel
<1>5. x # 0 /\ x - 1 \in Nat
  OBVIOUS
<1>6. x - 1 \in S => x \in S
  BY <1>5
<1> QED
  BY <1>4, <1>5, <1>6

Points == [at : Nat, used : 0..Total]

\* The rate after one more point, and the function that gives it for each.
NextRate(pts, i, before) ==
    IF pts[i].at <= pts[i-1].at THEN before
    ELSE [have  |-> TRUE,
          value |-> IF before.have
                      THEN (Slope(pts[i-1], pts[i]) + before.value) \div 2
                    ELSE Slope(pts[i-1], pts[i])]

IsRate(pts, f, n) ==
    f = [i \in 1..n |-> IF i = 1 THEN NoRate ELSE NextRate(pts, i, f[i-1])]

\* There is such a function for a ring of every length.
LEMMA RateExists == ASSUME NEW pts PROVE \A n \in Nat : \E f : IsRate(pts, f, n)
<1> DEFINE S == {n \in Nat : \E f : IsRate(pts, f, n)}
<1>1. 0 \in S
  <2> DEFINE f == [i \in 1..0 |-> NoRate]
  <2>1. IsRate(pts, f, 0)
    BY DEF IsRate
  <2> QED
    BY <2>1
<1>2. ASSUME NEW n \in Nat, n \in S PROVE n + 1 \in S
  <2>1. PICK f : IsRate(pts, f, n)
    BY <1>2
  <2> DEFINE g == [i \in 1..(n + 1) |->
                      IF i = 1 THEN NoRate ELSE NextRate(pts, i, f[i-1])]
  <2>2. ASSUME NEW i \in 1..n PROVE g[i] = f[i]
    <3>1. f[i] = IF i = 1 THEN NoRate ELSE NextRate(pts, i, f[i-1])
      BY <2>1 DEF IsRate
    <3>2. i \in 1..(n + 1)
      OBVIOUS
    <3> QED
      BY <3>1, <3>2
  <2>3. ASSUME NEW i \in 1..(n + 1), i # 1 PROVE g[i-1] = f[i-1]
    <3>1. i - 1 \in 1..n
      BY <2>3
    <3> HIDE DEF g
    <3> QED
      BY <3>1, <2>2
  <2>4. g = [i \in 1..(n + 1) |->
                IF i = 1 THEN NoRate ELSE NextRate(pts, i, g[i-1])]
    <3> DEFINE h == [i \in 1..(n + 1) |->
                        IF i = 1 THEN NoRate ELSE NextRate(pts, i, g[i-1])]
    <3>1. \A i \in 1..(n + 1) : g[i] = h[i]
      BY <2>3
    <3> QED
      BY <3>1
  <2> HIDE DEF g
  <2>5. IsRate(pts, g, n + 1)
    BY <2>4 DEF IsRate
  <2> QED
    BY <2>5
<1> HIDE DEF S
<1>3. Nat \subseteq S
  BY <1>1, <1>2, SetInduction
<1> QED
  BY <1>3 DEF S

\* So EwmaSlope is the last value of such a function.
LEMMA EwmaIsRate ==
    ASSUME NEW pts, Len(pts) \in Nat
    PROVE  \E f : IsRate(pts, f, Len(pts)) /\ EwmaSlope(pts) = f[Len(pts)]
<1> DEFINE f == CHOOSE f : IsRate(pts, f, Len(pts))
<1>1. IsRate(pts, f, Len(pts))
  BY RateExists
<1>2. EwmaSlope(pts) = f[Len(pts)]
  BY DEF EwmaSlope, IsRate, NextRate
<1> QED
  BY <1>1, <1>2

\* The slope between two of the points that time went forward between.
Steep(pts, i, value) ==
    pts[i + 1].at > pts[i].at /\ Slope(pts[i], pts[i + 1]) >= value

\* No rate without a slope at least as steep among the points that it is of.
LEMMA RateIsBounded ==
    ASSUME NEW n \in Nat, NEW pts \in [1..n -> Points], NEW f, IsRate(pts, f, n)
    PROVE  \A m \in 1..n :
              /\ f[m] \in [have : BOOLEAN, value : Int]
              /\ f[m].have => \E i \in 1..(m - 1) : Steep(pts, i, f[m].value)
<1> DEFINE Bounded(m) ==
              /\ f[m] \in [have : BOOLEAN, value : Int]
              /\ f[m].have => \E i \in 1..(m - 1) : Steep(pts, i, f[m].value)
           S == {m \in Nat : m + 1 \in 1..n => Bounded(m + 1)}
<1>1. \A m \in 1..n : f[m] = IF m = 1 THEN NoRate ELSE NextRate(pts, m, f[m-1])
  BY DEF IsRate
<1>2. 0 \in S
  <2> SUFFICES ASSUME 1 \in 1..n PROVE Bounded(1)
    OBVIOUS
  <2>1. f[1] = [have |-> FALSE, value |-> 0]
    BY <1>1 DEF NoRate
  <2> QED
    BY <2>1
<1>3. ASSUME NEW l \in Nat, l \in S PROVE l + 1 \in S
  <2> DEFINE m == (l + 1) + 1
  <2> SUFFICES ASSUME m \in 1..n PROVE Bounded(m)
    OBVIOUS
  <2>1. Bounded(m - 1) /\ m - 1 \in 1..n /\ m - 1 = l + 1
    BY <1>3
  <2>2. f[m] = NextRate(pts, m, f[m-1])
    BY <1>1
  <2>3. pts[m] \in Points /\ pts[m-1] \in Points
    BY <2>1
  <2> DEFINE s == Slope(pts[m-1], pts[m])
             v == f[m-1].value
  <2>4. CASE pts[m].at <= pts[m-1].at
    BY <2>1, <2>2, <2>4 DEF NextRate
  <2>5. CASE pts[m].at > pts[m-1].at
    <3>1. s \in Int
      <4>1. (pts[m].used - pts[m-1].used) * Scale \in Int
            /\ pts[m].at - pts[m-1].at \in Nat \ {0}
        BY <2>3, <2>5, HostAssumption DEF Points
      <4> QED
        BY <4>1 DEF Slope
    <3>2. v \in Int /\ f[m-1].have \in BOOLEAN
      BY <2>1
    <3>3. pts[m].at \in Nat /\ pts[m-1].at \in Nat
      BY <2>3 DEF Points
    <3>4. ~ (pts[m].at <= pts[m-1].at)
      BY <3>3, <2>5
    <3>5. f[m] = [have |-> TRUE,
                  value |-> IF f[m-1].have THEN (s + v) \div 2 ELSE s]
      BY <2>2, <3>4 DEF NextRate
    <3>6. (m - 1) + 1 = m /\ m - 1 \in 1..(m - 1)
      OBVIOUS
    <3>7. Steep(pts, m - 1, s)
      BY <2>5, <3>1, <3>6 DEF Steep
    <3> HIDE DEF s
    <3>8. CASE ~ f[m-1].have
      <4>1. f[m] = [have |-> TRUE, value |-> s]
        BY <3>5, <3>8
      <4> QED
        BY <4>1, <3>1, <3>6, <3>7
    <3>9. CASE f[m-1].have
      <4>1. f[m] = [have |-> TRUE, value |-> (s + v) \div 2]
        BY <3>5, <3>9
      <4>2. PICK i \in 1..(m - 2) : Steep(pts, i, v)
        BY <2>1, <3>9
      <4>3. (s + v) \div 2 \in Int
            /\ ((s + v) \div 2 <= s \/ (s + v) \div 2 <= v)
        BY <3>1, <3>2
      <4>4. Slope(pts[i], pts[i + 1]) \in Int
        <5>1. i \in 1..n /\ i + 1 \in 1..n
          BY <4>2
        <5>2. pts[i] \in Points /\ pts[i + 1] \in Points
          BY <5>1
        <5>3. pts[i + 1].used \in Int /\ pts[i].used \in Int
              /\ pts[i + 1].at \in Nat /\ pts[i].at \in Nat
          BY <5>2, HostAssumption DEF Points
        <5>4. pts[i + 1].at - pts[i].at \in Nat \ {0}
          BY <4>2, <5>3 DEF Steep
        <5>5. (pts[i + 1].used - pts[i].used) * Scale \in Int
          BY <5>3, HostAssumption
        <5> QED
          BY <5>4, <5>5 DEF Slope
      <4>5. Slope(pts[m - 1], pts[(m - 1) + 1]) \in Int
        BY <3>1, <3>6 DEF s
      <4> DEFINE w == (s + v) \div 2
      <4>6. w <= v => Steep(pts, i, w)
        BY <4>2, <4>3, <4>4, <3>2 DEF Steep
      <4>7. w <= s => Steep(pts, m - 1, w)
        BY <3>1, <3>7, <4>3, <4>5 DEF Steep
      <4>8. i \in 1..(m - 1)
        OBVIOUS
      <4>9. f[m].value = w /\ f[m].have
        BY <4>1
      <4>10. f[m] \in [have : BOOLEAN, value : Int]
        BY <4>1, <4>3
      <4> HIDE DEF w
      <4> QED
        BY <3>6, <4>3, <4>6, <4>7, <4>8, <4>9, <4>10 DEF w
    <3> QED
      BY <3>2, <3>8, <3>9
  <2>6. pts[m].at <= pts[m-1].at \/ pts[m].at > pts[m-1].at
    BY <2>3 DEF Points
  <2> QED
    BY <2>4, <2>5, <2>6
<1> HIDE DEF S
<1>4. Nat \subseteq S
  BY <1>2, <1>3, SetInduction
<1>5. ASSUME NEW m \in 1..n PROVE Bounded(m)
  <2>1. m - 1 \in S /\ (m - 1) + 1 = m
    BY <1>4
  <2> QED
    BY <2>1 DEF S
<1> QED
  BY <1>5

-----------------------------------------------------------------------------
(* What disk_fill projects *)

\* A common factor of two products can be left out.
LEMMA Cancel ==
    ASSUME NEW a \in Int, NEW b \in Int, NEW d \in Nat \ {0}, a * d <= b * d
    PROVE  a <= b
<1>1. b < a => b * d < a * d
  <2> SUFFICES ASSUME b < a PROVE b * d < a * d
    OBVIOUS
  <2>1. a * d = b * d + (a - b) * d
    OBVIOUS
  <2>2. (a - b) * d > 0
    OBVIOUS
  <2> QED
    BY <2>1, <2>2
<1> QED
  BY <1>1

\* A slope that fills what is free in time is one of two readings that do: that
\* rates are rounded down makes the projection later, never earlier.
LEMMA SteepProjects ==
    ASSUME NEW grown \in Int, NEW dt \in Nat \ {0}, NEW value \in Nat \ {0},
           NEW free \in Nat, (grown * Scale) \div dt >= value,
           free * Scale <= value * Horizon
    PROVE  grown > 0 /\ free * dt <= grown * Horizon
<1> DEFINE q == (grown * Scale) \div dt
<1>1. Scale \in Nat \ {0} /\ Horizon \in Nat
  BY HostAssumption
<1>2. grown * Scale \in Int
  BY <1>1
<1>3. q \in Int /\ q * dt <= grown * Scale
  BY <1>2
<1> HIDE DEF q
<1>4. q >= value
  BY DEF q
<1>5. value * dt <= q * dt
  <2>1. q * dt = value * dt + (q - value) * dt /\ (q - value) * dt >= 0
    BY <1>3, <1>4
  <2> QED
    BY <2>1, <1>3
<1>6. value * dt <= grown * Scale /\ value * dt > 0 /\ value * dt \in Nat
  BY <1>2, <1>3, <1>5
<1>7. grown > 0
  <2>1. grown <= 0 => grown * Scale <= 0
    BY <1>1
  <2>2. grown * Scale > 0
    BY <1>2, <1>6
  <2> QED
    BY <1>2, <2>1, <2>2
<1>8. (free * Scale) * dt <= (value * Horizon) * dt
  BY <1>1
<1>9. (value * dt) * Horizon <= (grown * Scale) * Horizon
  BY <1>1, <1>2, <1>6
<1>10. (free * dt) * Scale = (free * Scale) * dt
       /\ (value * Horizon) * dt = (value * dt) * Horizon
       /\ (grown * Scale) * Horizon = (grown * Horizon) * Scale
  BY <1>1
<1>11. (free * dt) * Scale <= (grown * Horizon) * Scale
  BY <1>1, <1>8, <1>9, <1>10
<1>12. free * dt <= grown * Horizon
  <2>1. free * dt \in Int /\ grown * Horizon \in Int
    BY <1>1
  <2> QED
    BY <2>1, <1>1, <1>11, Cancel
<1> QED
  BY <1>7, <1>12

\* The ring of the snapshot is the last readings, in their order.
Ring ==
    /\ now \in Nat /\ used \in 0..Total
    /\ readings \in Seq(Points) /\ Len(readings) <= RingMax
    /\ snap.ring = readings

(* What a run reads of the filesystem is a point of the ring. *)
LEMMA ReadingType == Ring => Reading \in Points
BY DEF Ring, Reading, Points

\* Dropping the oldest of a full ring leaves the others.
LEMMA ShiftedRing ==
    ASSUME NEW s \in Seq(Points), NEW p \in Points, s # <<>>
    PROVE  SubSeq(Append(s, p), 2, Len(s) + 1) = Append(Tail(s), p)
<1>1. Append(s, p) \in Seq(Points) /\ Len(Append(s, p)) = Len(s) + 1
  OBVIOUS
<1>2. Append(s, p) # <<>>
  BY <1>1, EmptySeq
<1>3. Tail(Append(s, p)) = SubSeq(Append(s, p), 2, Len(s) + 1)
  BY <1>1, <1>2, TailIsSubSeq
<1>4. Tail(Append(s, p)) = Append(Tail(s), p)
  OBVIOUS
<1> QED
  BY <1>3, <1>4

(* The ring is empty at first. *)
LEMMA InitRing == Init => Ring
<1> SUFFICES ASSUME Init PROVE Ring
  OBVIOUS
<1>1. readings = <<>> /\ snap.ring = <<>> /\ now = 1 /\ used \in 0..Total
  BY DEF Init, Fresh
<1>2. <<>> \in Seq(Points) /\ Len(<<>>) = 0
  OBVIOUS
<1> QED
  BY <1>1, <1>2, HostAssumption DEF Ring

(* Runs, clock steps, writes and lost state keep every point of the ring a real
   reading. *)
LEMMA NextRing == Ring /\ [Next]_vars => Ring'
<1> SUFFICES ASSUME Ring, [Next]_vars PROVE Ring'
  OBVIOUS
<1> USE HostAssumption
<1>1. CASE Tick
  BY <1>1 DEF Tick, host, Ring
<1>2. CASE PageIn
  BY <1>2 DEF PageIn, Ring
<1>3. CASE Reboot
  BY <1>3 DEF Reboot, history, Ring
<1>4. CASE LoseState
  BY <1>4 DEF LoseState, Fresh, host, Ring
<1>5. ASSUME NEW t \in 1..MaxClock, Step(t) PROVE Ring'
  BY <1>5 DEF Step, host, Ring
<1>6. ASSUME NEW u \in 0..Total, Write(u) PROVE Ring'
  BY <1>6 DEF Write, history, Ring
<1>7. ASSUME NEW statfs \in BOOLEAN, NEW vmstat \in BOOLEAN, NEW id \in BootIds,
             Run(statfs, vmstat, id)
      PROVE Ring'
  <2>1. /\ snap'.ring = IF statfs THEN Added(snap.ring, Reading) ELSE snap.ring
        /\ readings' = IF ~statfs THEN readings
                       ELSE IF Len(readings) < RingMax
                              THEN Append(readings, Reading)
                       ELSE Append(Tail(readings), Reading)
        /\ now' = now /\ used' = used
    BY <1>7 DEF Run, host
  <2>2. readings \in Seq(Points) /\ Len(readings) <= RingMax
        /\ snap.ring = readings /\ Reading \in Points
    BY ReadingType DEF Ring
  <2>3. CASE ~statfs
    BY <2>1, <2>3 DEF Ring
  <2>4. CASE statfs /\ Len(readings) < RingMax
    <3>1. readings' = Append(readings, Reading)
      BY <2>1, <2>4
    <3>2. readings' \in Seq(Points) /\ Len(readings') = Len(readings) + 1
      BY <2>2, <3>1
    <3>3. snap'.ring = readings'
      BY <2>1, <2>2, <2>4, <3>1, <3>2 DEF Added
    <3> QED
      BY <2>1, <2>2, <2>4, <3>2, <3>3 DEF Ring
  <2>5. CASE statfs /\ ~ (Len(readings) < RingMax)
    <3>1. Len(readings) = RingMax /\ readings # <<>>
      BY <2>2, <2>5
    <3>2. readings' = Append(Tail(readings), Reading)
      BY <2>1, <2>5
    <3>3. Tail(readings) \in Seq(Points) /\ Len(Tail(readings)) = RingMax - 1
      BY <2>2, <3>1
    <3>4. readings' \in Seq(Points) /\ Len(readings') = RingMax
      BY <2>2, <3>2, <3>3
    <3>5. Len(Append(readings, Reading)) = RingMax + 1
      BY <2>2, <3>1
    <3>6. snap'.ring = SubSeq(Append(readings, Reading), 2, RingMax + 1)
      <4>1. (RingMax + 1) - RingMax + 1 = 2
        OBVIOUS
      <4> QED
        BY <2>1, <2>2, <2>5, <3>5, <4>1 DEF Added
    <3>7. snap'.ring = readings'
      BY <2>2, <3>1, <3>2, <3>6, ShiftedRing
    <3> QED
      BY <2>1, <3>4, <3>7 DEF Ring
  <2> QED
    BY <2>3, <2>4, <2>5
<1>8. CASE UNCHANGED vars
  BY <1>8 DEF vars, host, history, Ring
<1> QED
  BY <1>1, <1>2, <1>3, <1>4, <1>5, <1>6, <1>7, <1>8 DEF Next

(* With real readings in the ring, a projected alarm is of a filesystem that fills. *)
LEMMA RingReal == Ring => DiskAlarmIsReal
<1> SUFFICES ASSUME Ring, DiskVerdict = "ALERT", ~Past(Alert)
             PROVE  \E i \in 1..(Len(Window) - 1) : Projects(i)
  BY DEF DiskAlarmIsReal
<1>1. Projected
  BY DEF DiskVerdict
<1>2. /\ FillRate.have /\ FillRate.value > 0
      /\ (Total - used) * Scale <= FillRate.value * Horizon
  BY <1>1 DEF Projected
<1>3. Window \in Seq(Points) /\ Len(Window) \in Nat \ {0}
  BY ReadingType DEF Ring, Window
<1>4. FillRate = EwmaSlope(Window)
  BY <1>2 DEF FillRate, Ring, Window, NoRate
<1>5. PICK f : IsRate(Window, f, Len(Window))
               /\ EwmaSlope(Window) = f[Len(Window)]
  BY <1>3, EwmaIsRate
<1> DEFINE n == Len(Window)
           v == FillRate.value
<1>6. n \in Nat /\ n \in 1..n /\ Window \in [1..n -> Points]
  BY <1>3
<1>7. /\ f[n] \in [have : BOOLEAN, value : Int]
      /\ f[n].have => \E i \in 1..(n - 1) : Steep(Window, i, f[n].value)
  BY <1>5, <1>6, RateIsBounded
<1>8. f[n] = FillRate
  BY <1>4, <1>5
<1>9. PICK i \in 1..(n - 1) : Steep(Window, i, v)
  BY <1>2, <1>7, <1>8
<1>10. v \in Nat \ {0}
  BY <1>2, <1>7, <1>8
<1> HIDE DEF n, v
<1> DEFINE grown == Window[i + 1].used - Window[i].used
           dt == Window[i + 1].at - Window[i].at
<1>11. Window[i] \in Points /\ Window[i + 1] \in Points
  BY <1>6
<1>12. grown \in Int /\ dt \in Nat \ {0} /\ Forward(i)
  BY <1>9, <1>11, HostAssumption DEF Points, Steep, Forward
<1>13. (grown * Scale) \div dt >= v
  BY <1>9 DEF Steep, Slope
<1>14. Total - used \in Nat /\ (Total - used) * Scale <= v * Horizon
  BY <1>2, HostAssumption DEF Ring, v
<1> HIDE DEF grown, dt
<1>15. grown > 0 /\ (Total - used) * dt <= grown * Horizon
  BY <1>10, <1>12, <1>13, <1>14, SteepProjects
<1>16. Projects(i)
  BY <1>12, <1>15 DEF Projects, grown, dt
<1> QED
  BY <1>9, <1>16 DEF n

\* No alarm without growth: below its level disk_fill alerts only of a
\* filesystem that two neighbouring readings on record project full in time,
\* for every length of the ring, whatever the clock, the reads and the file did.
THEOREM NoFalseProjection == Spec => []DiskAlarmIsReal
<1>1. Spec => []Ring
  BY InitRing, NextRing, PTL DEF Spec
<1> QED
  BY <1>1, RingReal, PTL

-----------------------------------------------------------------------------
(* What disk_fill does not miss.  A rate that is rounded down can miss a        *)
(* filesystem by less than the rounding; with a Scale that every interval       *)
(* divides, no slope is rounded (the code's floating point is finer still).     *)

WholeSlopes == \A dt \in 1..MaxClock : \E m \in Nat : Scale = m * dt

\* The slope between two of the points that time went forward between.
Flat(pts, i, value) ==
    pts[i + 1].at > pts[i].at /\ Slope(pts[i], pts[i + 1]) <= value

\* The slope between two points is an integer where time went forward.
LEMMA SlopeType ==
    ASSUME NEW p \in Points, NEW q \in Points, q.at > p.at
    PROVE  Slope(p, q) \in Int
<1>1. p.used \in Int /\ q.used \in Int /\ p.at \in Nat /\ q.at \in Nat
  BY HostAssumption DEF Points
<1>2. (q.used - p.used) * Scale \in Int /\ q.at - p.at \in Nat \ {0}
  BY <1>1, HostAssumption
<1> QED
  BY <1>2 DEF Slope

\* Nor is a rate below every slope that it is of, and the last step forward
\* gives one.
LEMMA RateIsReached ==
    ASSUME NEW n \in Nat, NEW pts \in [1..n -> Points], NEW f, IsRate(pts, f, n)
    PROVE  \A m \in 1..n :
              /\ f[m].have => \E i \in 1..(m - 1) : Flat(pts, i, f[m].value)
              /\ m > 1 /\ pts[m].at > pts[m-1].at => f[m].have
<1> DEFINE Reached(m) ==
              f[m].have => \E i \in 1..(m - 1) : Flat(pts, i, f[m].value)
           S == {m \in Nat : m + 1 \in 1..n => Reached(m + 1)}
<1>1. \A m \in 1..n : f[m] = IF m = 1 THEN NoRate ELSE NextRate(pts, m, f[m-1])
  BY DEF IsRate
<1>2. \A m \in 1..n : f[m] \in [have : BOOLEAN, value : Int]
  BY RateIsBounded
<1>3. 0 \in S
  <2> SUFFICES ASSUME 1 \in 1..n PROVE Reached(1)
    OBVIOUS
  <2>1. f[1] = [have |-> FALSE, value |-> 0]
    BY <1>1 DEF NoRate
  <2> QED
    BY <2>1
<1>4. ASSUME NEW m \in 1..n, m > 1
      PROVE  /\ m - 1 \in 1..n /\ (m - 1) + 1 = m
             /\ pts[m] \in Points /\ pts[m-1] \in Points
             /\ pts[m].at \in Nat /\ pts[m-1].at \in Nat
             /\ f[m] = NextRate(pts, m, f[m-1])
  <2>1. m - 1 \in 1..n /\ (m - 1) + 1 = m /\ m # 1
    BY <1>4
  <2>2. pts[m] \in Points /\ pts[m-1] \in Points
    BY <2>1
  <2> QED
    BY <1>1, <2>1, <2>2 DEF Points
<1>5. ASSUME NEW l \in Nat, l \in S PROVE l + 1 \in S
  <2> DEFINE m == (l + 1) + 1
  <2> SUFFICES ASSUME m \in 1..n PROVE Reached(m)
    OBVIOUS
  <2>1. Reached(m - 1) /\ m - 1 \in 1..n /\ m - 1 = l + 1 /\ m > 1
    BY <1>5
  <2>2. f[m] = NextRate(pts, m, f[m-1]) /\ (m - 1) + 1 = m
        /\ pts[m] \in Points /\ pts[m-1] \in Points
        /\ pts[m].at \in Nat /\ pts[m-1].at \in Nat
    BY <1>4, <2>1
  <2> DEFINE s == Slope(pts[m-1], pts[m])
             v == f[m-1].value
  <2>3. CASE pts[m].at <= pts[m-1].at
    BY <2>1, <2>2, <2>3 DEF NextRate
  <2>4. CASE pts[m].at > pts[m-1].at
    <3>1. s \in Int /\ v \in Int /\ f[m-1].have \in BOOLEAN
      BY <1>2, <2>1, <2>2, <2>4, SlopeType
    <3>2. ~ (pts[m].at <= pts[m-1].at)
      BY <2>2, <2>4
    <3>3. f[m] = [have |-> TRUE,
                  value |-> IF f[m-1].have THEN (s + v) \div 2 ELSE s]
      BY <2>2, <3>2 DEF NextRate
    <3>4. m - 1 \in 1..(m - 1)
      BY <2>1
    <3>5. Flat(pts, m - 1, s)
      BY <2>2, <2>4, <3>1 DEF Flat
    <3>6. Slope(pts[m - 1], pts[(m - 1) + 1]) = s
      BY <2>2
    <3> HIDE DEF s
    <3>7. CASE ~ f[m-1].have
      <4>1. f[m] = [have |-> TRUE, value |-> s]
        BY <3>3, <3>7
      <4> QED
        BY <4>1, <3>4, <3>5
    <3>8. CASE f[m-1].have
      <4>1. f[m] = [have |-> TRUE, value |-> (s + v) \div 2]
        BY <3>3, <3>8
      <4>2. PICK i \in 1..(m - 2) : Flat(pts, i, v)
        BY <2>1, <3>8
      <4> DEFINE w == (s + v) \div 2
      <4>3. w \in Int /\ (s <= w \/ v <= w)
        BY <3>1
      <4>4. Slope(pts[i], pts[i + 1]) \in Int
        <5>1. i \in 1..n /\ i + 1 \in 1..n
          BY <4>2
        <5>2. pts[i] \in Points /\ pts[i + 1] \in Points
          BY <5>1
        <5> QED
          BY <4>2, <5>2, SlopeType DEF Flat
      <4>5. f[m].value = w
        BY <4>1
      <4> HIDE DEF w
      <4>6. v <= w => Flat(pts, i, w)
        BY <4>2, <4>3, <4>4, <3>1 DEF Flat
      <4>7. s <= w => Flat(pts, m - 1, w)
        BY <3>1, <3>5, <3>6, <4>3 DEF Flat
      <4>8. i \in 1..(m - 1)
        OBVIOUS
      <4> QED
        BY <3>4, <4>3, <4>5, <4>6, <4>7, <4>8
    <3> QED
      BY <3>1, <3>7, <3>8
  <2> QED
    BY <2>2, <2>3, <2>4
<1> HIDE DEF S
<1>6. Nat \subseteq S
  BY <1>3, <1>5, SetInduction
<1>7. ASSUME NEW m \in 1..n PROVE Reached(m)
  <2>1. m - 1 \in S /\ (m - 1) + 1 = m
    BY <1>6
  <2> QED
    BY <2>1 DEF S
<1>8. ASSUME NEW m \in 1..n, m > 1, pts[m].at > pts[m-1].at PROVE f[m].have
  <2>1. ~ (pts[m].at <= pts[m-1].at)
    BY <1>4, <1>8
  <2>2. f[m] = NextRate(pts, m, f[m-1])
    BY <1>4, <1>8
  <2>3. \E v : f[m] = [have |-> TRUE, value |-> v]
    BY <2>1, <2>2 DEF NextRate
  <2> QED
    BY <2>3
<1> QED
  BY <1>7, <1>8

\* Two readings that project the filesystem full have, where nothing is
\* rounded, a slope that does.
LEMMA ProjectsSteep ==
    ASSUME NEW grown \in Nat \ {0}, NEW dt \in Nat \ {0}, NEW free \in Nat,
           NEW m \in Nat, Scale = m * dt, free * dt <= grown * Horizon
    PROVE  LET slope == (grown * Scale) \div dt
           IN  slope \in Nat \ {0} /\ free * Scale <= slope * Horizon
<1>1. Scale \in Nat \ {0} /\ Horizon \in Nat
  BY HostAssumption
<1> DEFINE slope == grown * m
<1>2. m # 0
  <2>1. m = 0 => m * dt = 0
    OBVIOUS
  <2> QED
    BY <1>1, <2>1
<1>3. slope \in Nat \ {0}
  BY <1>2
<1>4. grown * Scale = slope * dt
  OBVIOUS
<1> HIDE DEF slope
<1>5. (slope * dt) \div dt = slope
  <2> DEFINE q == (slope * dt) \div dt
             r == (slope * dt) % dt
  <2>1. slope * dt \in Int
    BY <1>3
  <2>2. q \in Int /\ r \in 0..(dt - 1) /\ slope * dt = dt * q + r
    BY <2>1
  <2> HIDE DEF q, r
  <2>3. (slope - q) * dt = r
    BY <1>3, <2>2
  <2>4. slope - q > 0 => (slope - q) * dt >= dt
    BY <1>3, <2>2
  <2>5. slope - q < 0 => (slope - q) * dt < 0
    BY <1>3, <2>2
  <2>6. slope = q
    BY <1>3, <2>2, <2>3, <2>4, <2>5
  <2> QED
    BY <2>6 DEF q
<1>6. free * Scale <= slope * Horizon
  <2>1. (free * dt) * m <= (grown * Horizon) * m
    BY <1>1
  <2>2. free * Scale = (free * dt) * m /\ slope * Horizon = (grown * Horizon) * m
    BY <1>1 DEF slope
  <2> QED
    BY <2>1, <2>2
<1> QED
  BY <1>3, <1>4, <1>5, <1>6

\* The readings on record are of the clock's range.
Dated ==
    /\ now \in 1..MaxClock
    /\ \A i \in 1..Len(readings) : readings[i].at \in 1..MaxClock

(* A sequence of readings of the clock's range, and one more, is one again. *)
LEMMA AppendDated ==
    ASSUME NEW s \in Seq(Points), NEW p \in Points, p.at \in 1..MaxClock,
           \A i \in 1..Len(s) : s[i].at \in 1..MaxClock
    PROVE  \A i \in 1..Len(Append(s, p)) : Append(s, p)[i].at \in 1..MaxClock
<1>1. Len(Append(s, p)) = Len(s) + 1 /\ Len(s) \in Nat
      /\ \A i \in 1..(Len(s) + 1) :
            Append(s, p)[i] = IF i <= Len(s) THEN s[i] ELSE p
  OBVIOUS
<1>2. ASSUME NEW i \in 1..(Len(s) + 1) PROVE Append(s, p)[i].at \in 1..MaxClock
  <2>1. CASE i <= Len(s)
    <3>1. i \in 1..Len(s)
      BY <1>1, <2>1
    <3> QED
      BY <1>1, <2>1, <3>1
  <2>2. CASE ~ (i <= Len(s))
    BY <1>1, <2>2
  <2> QED
    BY <2>1, <2>2
<1> QED
  BY <1>1, <1>2

(* The clock begins in its range and no reading is on record. *)
LEMMA InitDated == Init => Dated
BY HostAssumption DEF Init, Dated

(* Every step keeps the clock and the readings in the clock's range. *)
LEMMA NextDated == Ring /\ Dated /\ [Next]_vars => Dated'
<1> SUFFICES ASSUME Ring, Dated, [Next]_vars PROVE Dated'
  OBVIOUS
<1>1. CASE Tick
  BY <1>1, HostAssumption DEF Tick, Dated
<1>2. CASE PageIn \/ Reboot
  BY <1>2 DEF PageIn, Reboot, history, Dated
<1>3. CASE LoseState
  BY <1>3 DEF LoseState, Dated
<1>4. ASSUME NEW t \in 1..MaxClock, Step(t) PROVE Dated'
  BY <1>4 DEF Step, Dated
<1>5. ASSUME NEW u \in 0..Total, Write(u) PROVE Dated'
  BY <1>5 DEF Write, history, Dated
<1>6. ASSUME NEW statfs \in BOOLEAN, NEW vmstat \in BOOLEAN, NEW id \in BootIds,
             Run(statfs, vmstat, id)
      PROVE Dated'
  <2>1. /\ readings' = IF ~statfs THEN readings
                       ELSE IF Len(readings) < RingMax
                              THEN Append(readings, Reading)
                       ELSE Append(Tail(readings), Reading)
        /\ now' = now
    BY <1>6 DEF Run
  <2>2. readings \in Seq(Points) /\ Reading.at = now
    BY DEF Ring, Reading
  <2>3. CASE ~statfs
    BY <2>1, <2>3 DEF Dated
  <2>4. CASE statfs /\ Len(readings) < RingMax
    <3>1. readings' = Append(readings, Reading)
      BY <2>1, <2>4
    <3> QED
      BY <2>1, <2>2, <3>1, AppendDated, ReadingType DEF Dated
  <2>5. CASE statfs /\ ~ (Len(readings) < RingMax)
    <3>1. readings # <<>>
      BY <2>2, <2>5, HostAssumption
    <3>2. Tail(readings) \in Seq(Points)
          /\ Len(Tail(readings)) = Len(readings) - 1
          /\ \A i \in 1..(Len(readings) - 1) : Tail(readings)[i] = readings[i + 1]
      BY <2>2, <3>1
    <3>3. \A i \in 1..Len(Tail(readings)) : Tail(readings)[i].at \in 1..MaxClock
      BY <2>2, <3>1, <3>2 DEF Dated
    <3>4. readings' = Append(Tail(readings), Reading)
      BY <2>1, <2>5
    <3> QED
      BY <2>1, <2>2, <3>2, <3>3, <3>4, AppendDated, ReadingType DEF Dated
  <2> QED
    BY <2>3, <2>4, <2>5
<1>7. CASE UNCHANGED vars
  BY <1>7 DEF vars, history, Dated
<1> QED
  BY <1>1, <1>2, <1>3, <1>4, <1>5, <1>6, <1>7 DEF Next

(* If every interval of the window shows a disk that fills, the verdict says so. *)
LEMMA RingSees ==
    ASSUME WholeSlopes, Ring, Dated
    PROVE  FillIsSeen
<1> DEFINE n == Len(Window)
<1> SUFFICES ASSUME n > 1, \A i \in 1..(n - 1) : Projects(i)
             PROVE  DiskVerdict = "ALERT"
  BY DEF FillIsSeen
<1>1. Window \in Seq(Points) /\ n \in Nat \ {0} /\ n = Len(readings) + 1
  BY ReadingType DEF Ring, Window
<1>2. \A i \in 1..n : Window[i].at \in 1..MaxClock
  BY <1>1 DEF Ring, Dated, Window, Reading
<1>3. FillRate = EwmaSlope(Window)
  BY <1>1 DEF FillRate, Ring, Window
<1>4. PICK f : IsRate(Window, f, n) /\ EwmaSlope(Window) = f[n]
  BY <1>1, EwmaIsRate
<1>5. n \in 1..n /\ n - 1 \in 1..(n - 1) /\ (n - 1) + 1 = n
      /\ Window \in [1..n -> Points]
  BY <1>1
<1>6. f[n] \in [have : BOOLEAN, value : Int]
  BY <1>1, <1>4, <1>5, RateIsBounded
<1>7. /\ f[n].have => \E i \in 1..(n - 1) : Flat(Window, i, f[n].value)
      /\ Window[n].at > Window[n-1].at => f[n].have
  BY <1>1, <1>4, <1>5, RateIsReached
<1>8. Window[n].at > Window[n-1].at
  BY <1>5 DEF Projects, Forward
<1>9. PICK i \in 1..(n - 1) : Flat(Window, i, f[n].value)
  BY <1>7, <1>8
<1>10. Projects(i)
  BY <1>9
<1>11. i \in 1..n /\ i + 1 \in 1..n
  BY <1>1
<1> DEFINE grown == Window[i + 1].used - Window[i].used
           dt == Window[i + 1].at - Window[i].at
           free == Total - used
           slope == (grown * Scale) \div dt
           v == f[n].value
<1>12. Window[i] \in Points /\ Window[i + 1] \in Points
       /\ Window[i].at \in 1..MaxClock /\ Window[i + 1].at \in 1..MaxClock
  BY <1>2, <1>5, <1>11
<1>13. grown \in Nat \ {0} /\ dt \in 1..MaxClock /\ free \in Nat
       /\ free * dt <= grown * Horizon
  <2>1. free * dt <= grown * Horizon /\ grown > 0
        /\ Window[i + 1].at > Window[i].at
    BY <1>10 DEF Projects, Forward
  <2>2. Window[i].used \in Nat /\ Window[i + 1].used \in Nat
    BY <1>12, HostAssumption DEF Points
  <2>3. grown \in Nat \ {0}
    BY <2>1, <2>2
  <2>4. dt \in 1..MaxClock
    BY <1>12, <2>1, HostAssumption
  <2>5. free \in Nat
    BY HostAssumption DEF Ring
  <2> QED
    BY <2>1, <2>3, <2>4, <2>5
<1>14. slope <= v
  BY <1>9 DEF Flat, Slope
<1> HIDE DEF n, grown, dt, free
<1>15. PICK m \in Nat : Scale = m * dt
  BY <1>13 DEF WholeSlopes
<1>16. dt \in Nat \ {0}
  BY <1>13, HostAssumption
<1>17. slope \in Nat \ {0} /\ free * Scale <= slope * Horizon
  BY <1>13, <1>15, <1>16, ProjectsSteep
<1> HIDE DEF slope
<1>18. v \in Int /\ v > 0
  BY <1>6, <1>14, <1>17
<1>19. slope * Horizon <= v * Horizon
  <2>1. v * Horizon = slope * Horizon + (v - slope) * Horizon
        /\ (v - slope) * Horizon >= 0
    BY <1>14, <1>17, <1>18, HostAssumption
  <2> QED
    BY <2>1, <1>17, <1>18, HostAssumption
<1>20. free * Scale <= v * Horizon
  BY <1>13, <1>17, <1>18, <1>19, HostAssumption
<1>21. Projected
  BY <1>3, <1>4, <1>7, <1>8, <1>18, <1>20 DEF Projected, free
<1> QED
  BY <1>21 DEF DiskVerdict

\* Nor is a fill missed: a filesystem that every reading on record projects
\* full in time is alerted of, for every length of the ring and whatever the
\* clock, the reads and the file did, where rates are not rounded.
THEOREM NoFillMissed == ASSUME WholeSlopes PROVE Spec => []FillIsSeen
<1>1. Init => Ring /\ Dated
  BY InitRing, InitDated
<1>2. Ring /\ Dated /\ [Next]_vars => Ring' /\ Dated'
  BY NextRing, NextDated
<1>3. Ring /\ Dated => FillIsSeen
  BY RingSees
<1> QED
  BY <1>1, <1>2, <1>3, PTL DEF Spec
=============================================================================
