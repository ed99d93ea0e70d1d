------------------------------ MODULE HostChecks ------------------------------
(***************************************************************************)
(* The checks that compare a run with the runs before it on the host's own *)
(* figures: disk_fill, which projects a filesystem from the ring of its    *)
(* last readings, and swap_thrash, which takes the rate of a counter from  *)
(* the vmstat baseline (internal/checks/disk.go, swap.go, baseline.go).    *)
(*                                                                         *)
(* Time is that of the wall clock, in units of the least interval of two   *)
(* runs; an operator or NTP may step it.  The host reboots, which sets the *)
(* counter back to zero; a run may be unable to read the filesystem, the   *)
(* counters or the boot id, and may have lost its state file.              *)
(***************************************************************************)
EXTENDS Integers, Sequences

CONSTANTS
    Total,          \* size of the filesystem
    Reserved,       \* what of it is reserved for root
    Warn, Alert,    \* disk_fill.warn, disk_fill.alert, in percent
    Horizon,        \* disk_fill.days_to_full_alert
    RingMax,        \* state.DiskRingMax
    Scale,          \* rates are fixed-point numbers: this many to a whole one
    Rate,           \* swap_thrash.pswpin_pages_per_sec
    MaxClock,       \* bound on the readings of the clock
    MaxSteps,       \* bound on the steps of the clock
    MaxBoot,        \* bound on the boots
    MaxPages,       \* bound on the counter
    MaxRuns         \* bound on the runs

ASSUME HostAssumption ==
    /\ Total \in Nat /\ Reserved \in Nat /\ Reserved < Total
    /\ Warn \in Nat /\ Alert \in Nat /\ Warn < Alert /\ Alert <= 100
    /\ Horizon \in Nat /\ RingMax \in Nat \ {0} /\ Scale \in Nat \ {0}
    /\ Rate \in Nat \ {0}
    /\ MaxClock \in Nat \ {0} /\ MaxSteps \in Nat /\ MaxBoot \in Nat \ {0}
    /\ MaxPages \in Nat /\ MaxRuns \in Nat

VARIABLES
    now,        \* the wall clock
    boot,       \* the boot id
    used,       \* the filesystem's used bytes
    pswpin,     \* pages swapped in since boot
    snap,       \* the snapshot: known, boot, ring, vmstat
    runs,       \* how many runs there were
    steps,      \* how often the clock was stepped
    readings,   \* history: the readings a full ring would hold
    paged,      \* history: pages swapped in since the vmstat baseline was read
    lapse,      \* history: time since then
    stepped     \* history: the clock was stepped since then

host == <<boot, used, pswpin>>
history == <<readings, paged, lapse, stepped>>
vars == <<now, host, snap, runs, steps, history>>

NoBoot == 0         \* a boot id that could not be read
NoReading == [at |-> 0, boot |-> NoBoot, pswpin |-> 0]
Fresh == [known |-> FALSE, boot |-> NoBoot, ring |-> <<>>, vmstat |-> NoReading]

-----------------------------------------------------------------------------
(* The host *)

Tick ==
    /\ now < MaxClock
    /\ now' = now + 1 /\ lapse' = lapse + 1
    /\ UNCHANGED <<host, snap, runs, steps, readings, paged, stepped>>

Step(t) ==
    /\ steps < MaxSteps
    /\ now' = t /\ steps' = steps + 1 /\ stepped' = TRUE
    /\ UNCHANGED <<host, snap, runs, readings, paged, lapse>>

Write(u) ==
    /\ used' = u
    /\ UNCHANGED <<now, boot, pswpin, snap, runs, steps, history>>

PageIn ==
    /\ pswpin < MaxPages
    /\ pswpin' = pswpin + 1 /\ paged' = paged + 1
    /\ UNCHANGED <<now, boot, used, snap, runs, steps, readings, lapse, stepped>>

Reboot ==
    /\ boot < MaxBoot
    /\ boot' = boot + 1 /\ pswpin' = 0
    /\ UNCHANGED <<now, used, snap, runs, steps, history>>

-----------------------------------------------------------------------------
(* disk_fill, on a reading that was taken *)

Reading == [at |-> now, used |-> used]

NoRate == [have |-> FALSE, value |-> 0]
Slope(p, q) == ((q.used - p.used) * Scale) \div (q.at - p.at)

\* EwmaSlope gone wrong: negative intervals count.
EwmaUnclamped(pts) ==
    LET rate[i \in 1..Len(pts)] ==
            IF i = 1 THEN NoRate
            ELSE IF pts[i].at = pts[i-1].at THEN rate[i-1]
            ELSE LET s == Slope(pts[i-1], pts[i])
                 IN  [have |-> TRUE,
                      value |-> IF rate[i-1].have THEN (s + rate[i-1].value) \div 2
                                ELSE s]
    IN  rate[Len(pts)]

\* Half of the latest slope, half of what was before; intervals that are not
\* positive are left out.
EwmaSlope(pts) ==
    LET rate[i \in 1..Len(pts)] ==
            IF i = 1 THEN NoRate
            ELSE IF pts[i].at <= pts[i-1].at THEN rate[i-1]
            ELSE LET s == Slope(pts[i-1], pts[i])
                 IN  [have |-> TRUE,
                      value |-> IF rate[i-1].have THEN (s + rate[i-1].value) \div 2
                                ELSE s]
    IN  rate[Len(pts)]

\* FillRate gone wrong: the reading just taken is left out.
FillRateStale == IF Len(snap.ring) < 2 THEN NoRate ELSE EwmaSlope(snap.ring)

FillRate ==
    IF snap.ring = <<>> THEN NoRate ELSE EwmaSlope(Append(snap.ring, Reading))

\* Used percent leaves out what is reserved, the free space does not.
Past(level) == used * 100 >= level * (Total - Reserved)
Projected ==
    FillRate.have /\ FillRate.value > 0
        /\ (Total - used) * Scale <= FillRate.value * Horizon

DiskVerdict ==
    IF Past(Alert) \/ Projected THEN "ALERT"
    ELSE IF Past(Warn) THEN "WARN" ELSE "OK"

-----------------------------------------------------------------------------
(* swap_thrash, on counters that were read, with a boot id that was or was not *)

BootIds == {NoBoot, boot}

BootChanged(id) == snap.boot # NoBoot /\ id # NoBoot /\ snap.boot # id

Warming(id) ==
    \/ ~snap.known \/ BootChanged(id)
    \/ snap.vmstat.at = 0 \/ snap.vmstat.boot # id

\* No rate of a counter that went back or over a time that did.
Measurable == now > snap.vmstat.at /\ pswpin >= snap.vmstat.pswpin

SwapVerdict(id) ==
    IF /\ ~Warming(id) /\ Measurable
       /\ pswpin - snap.vmstat.pswpin >= Rate * (now - snap.vmstat.at)
      THEN "PAGE" ELSE "OK"

-----------------------------------------------------------------------------
(* UpdateBaselines *)

Added(ring, p) ==
    LET all == Append(ring, p)
    IN  IF Len(all) > RingMax THEN SubSeq(all, Len(all) - RingMax + 1, Len(all))
        ELSE all

\* VmstatBaseline gone wrong: a failed read becomes the baseline; the first
\* baseline stays.
BaselineAnyway(ok, id) ==
    [at |-> now, boot |-> id, pswpin |-> IF ok THEN pswpin ELSE 0]
BaselineOnce(ok, id) ==
    IF ok /\ (snap.vmstat.at = 0 \/ snap.vmstat.boot # id)
      THEN [at |-> now, boot |-> id, pswpin |-> pswpin] ELSE snap.vmstat

VmstatBaseline(ok, id) ==
    IF ok THEN [at |-> now, boot |-> id, pswpin |-> pswpin] ELSE snap.vmstat

\* A run: what it could read of the filesystem, the counters and the boot id.
Run(statfs, vmstat, id) ==
    /\ runs < MaxRuns
    /\ runs' = runs + 1
    /\ snap' = [known  |-> TRUE, boot |-> id,
                ring   |-> IF statfs THEN Added(snap.ring, Reading) ELSE snap.ring,
                vmstat |-> VmstatBaseline(vmstat, id)]
    /\ readings' = IF ~statfs THEN readings
                   ELSE IF Len(readings) < RingMax THEN Append(readings, Reading)
                   ELSE Append(Tail(readings), Reading)
    /\ IF vmstat THEN paged' = 0 /\ lapse' = 0 /\ stepped' = FALSE
       ELSE UNCHANGED <<paged, lapse, stepped>>
    /\ UNCHANGED <<now, host, steps>>

LoseState ==
    /\ snap.known
    /\ snap' = Fresh /\ readings' = <<>>
    /\ UNCHANGED <<now, host, runs, steps, paged, lapse, stepped>>

-----------------------------------------------------------------------------
Init ==
    /\ now = 1 /\ boot = 1 /\ pswpin = 0 /\ used \in 0..Total
    /\ snap = Fresh
    /\ runs = 0 /\ steps = 0
    /\ readings = <<>> /\ paged = 0 /\ lapse = 0 /\ stepped = FALSE

Next ==
    \/ Tick \/ PageIn \/ Reboot \/ LoseState
    \/ \E t \in 1..MaxClock : Step(t)
    \/ \E u \in 0..Total : Write(u)
    \/ \E statfs, vmstat \in BOOLEAN, id \in BootIds : Run(statfs, vmstat, id)

Spec == Init /\ [][Next]_vars

-----------------------------------------------------------------------------
(* Properties.  The verdicts are those of a run that would begin now. *)

\* The last readings, as many as the ring remembers, and the one of now; and
\* which of their neighbours, taken alone, project the filesystem full in time.
Window == Append(readings, Reading)
Forward(i) == Window[i + 1].at > Window[i].at
Projects(i) ==
    LET grown == Window[i + 1].used - Window[i].used
    IN  /\ Forward(i) /\ grown > 0
        /\ (Total - used) * (Window[i + 1].at - Window[i].at) <= grown * Horizon

\* Below the level of an alert, disk_fill alerts only of a filesystem that two
\* readings still on record project full, whatever the clock did: not of the
\* first reading, not of one that shrinks, not of a growth that is forgotten.
DiskAlarmIsReal ==
    DiskVerdict = "ALERT" /\ ~Past(Alert) =>
        \E i \in 1..(Len(Window) - 1) : Projects(i)

\* A filesystem that every reading on record projects full in time is alerted
\* of, however little of it is used yet (ewmaSlope lies between its slopes).
FillIsSeen ==
    Len(Window) > 1 /\ (\A i \in 1..(Len(Window) - 1) : Projects(i))
        => DiskVerdict = "ALERT"

\* swap_thrash pages only of pages that came in since the last reading, at the
\* rate it claims unless the clock was stepped, through reboots, failed reads
\* and boot ids that cannot be read.
SwapAlarmIsReal ==
    \A id \in BootIds : SwapVerdict(id) = "PAGE" =>
        /\ paged >= Rate
        /\ ~stepped => paged >= Rate * lapse

\* A host that thrashes between two readings of one boot is paged of, unless
\* the clock was stepped: the baseline is that of the last reading.
ThrashIsSeen ==
    (snap.vmstat.boot = boot /\ ~stepped /\ lapse > 0 /\ paged >= Rate * lapse)
        => SwapVerdict(boot) = "PAGE"
=============================================================================
