------------------------------ MODULE LevelChecks ------------------------------
(***************************************************************************)
(* The checks that compare one figure of one sample with the thresholds of *)
(* the configuration: mem_pressure, committed_as, disk_inodes; and how     *)
(* disk_fill, swap_thrash and declared_overcommit use their thresholds,    *)
(* whose figures are those of HostChecks and Sampling                      *)
(* (internal/checks: mem.go, disk.go, swap.go, containers.go).             *)
(***************************************************************************)
EXTENDS Configuration, HostReaders

\* A verdict, and how bad it is.
Verdict(health, tier) == [health |-> health, tier |-> tier]
Healthy == Verdict("OK", "WARN")
Unmeasured == Verdict("UNKNOWN", "WARN")
Severity(v) ==
    IF v.health # "BAD" THEN 0
    ELSE CASE v.tier = "WARN" -> 1 [] v.tier = "ALERT" -> 2 [] v.tier = "PAGE" -> 3

\* part of whole, against a threshold of which one is a hundredth of the whole.
Reaches(part, whole, threshold) ==
    threshold # NaN /\ AtLeast(part * 100, threshold * whole)

MemPressure(mp, mem) ==
    LET used == IF mem.available >= mem.total THEN 0 ELSE mem.total - mem.available
    IN  IF mem.health # "OK" THEN Unmeasured
        ELSE IF Reaches(used, mem.total, mp.page) THEN Verdict("BAD", "PAGE")
        ELSE IF Reaches(used, mem.total, mp.alert) THEN Verdict("BAD", "ALERT")
        ELSE IF Reaches(used, mem.total, mp.warn) THEN Verdict("BAD", "WARN")
        ELSE Healthy

\* More is promised than there is of RAM and swap, times what the file says.
SwapGuard(ca, mem) ==
    /\ Lt(0, ca.commit_vs_swap_ratio)
    /\ mem.committed * 100 > (mem.total + mem.swap) * ca.commit_vs_swap_ratio

CommittedAS(ca, mem) ==
    IF mem.health # "OK" \/ mem.committed = 0 THEN Unmeasured
    ELSE IF Reaches(mem.committed, mem.total, ca.alert) \/ SwapGuard(ca, mem)
      THEN Verdict("BAD", "ALERT")
    ELSE IF Reaches(mem.committed, mem.total, ca.warn) THEN Verdict("BAD", "WARN")
    ELSE Healthy

\* Some filesystems do not count their inodes.
DiskInodes(di, disk) ==
    IF disk.health # "OK" THEN Unmeasured
    ELSE IF disk.inodes > 0 /\ Reaches(disk.inodesUsed, disk.inodes, di.alert)
      THEN Verdict("BAD", "ALERT")
    ELSE Healthy

\* Of a filesystem, the share used; and in how many days it will be full, which is
\* a set of one number or of none.
DiskFill(df, used, projected) ==
    LET soon == \E days \in projected : AtLeast(df.days_to_full_alert, days)
    IN  IF soon THEN Verdict("BAD", "ALERT")
        ELSE IF ~AtLeast(used, df.warn) THEN Healthy
        ELSE Verdict("BAD", IF AtLeast(used, df.alert) THEN "ALERT" ELSE "WARN")

\* Of the pages that came in from swap each second.
SwapThrash(st, rate) ==
    IF AtLeast(rate, st.pswpin_pages_per_sec) THEN Verdict("BAD", "PAGE") ELSE Healthy

\* What declared_overcommit may promise of a total; of a share that is no number the
\* machine makes what integer it pleases.
UsableOf(do, total) ==
    IF do.headroom_reserve_pct = NaN THEN {0, -MaxBytes - 1}
    ELSE {(total * (100 - do.headroom_reserve_pct)) \div 100}

Observed(check, scope, v) ==
    [check |-> check, scope |-> scope, health |-> v.health, tier |-> v.tier]

\* What these checks say of a host, those of them that are enabled.
LevelObservations(c, host) ==
    LET said == {Observed("mem_pressure", "host", MemPressure(c.mem_pressure, host.mem)),
                 Observed("committed_as", "host", CommittedAS(c.committed_as, host.mem))}
                \cup {Observed("disk_inodes", host.disks[i].path,
                               DiskInodes(c.disk_inodes, host.disks[i])) :
                         i \in DOMAIN host.disks}
    IN  {o \in said : o.check \in Enabled(c)}
=============================================================================
