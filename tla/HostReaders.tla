------------------------------ MODULE HostReaders ------------------------------
(***************************************************************************)
(* What a run reads of the host: the kernel's files under proc_root, the   *)
(* filesystems, and the cgroup of a container (internal/collect: procfs.go,*)
(* disk.go, cgroup.go).                                                    *)
(*                                                                         *)
(* A file of "key value" lines is a function from the keys whose lines     *)
(* parse; one that cannot be read is empty, which no reader tells apart    *)
(* from a file without the lines it wants.                                 *)
(***************************************************************************)
EXTENDS Integers, SequencesExt

CONSTANTS
    Unreadable,     \* in place of a figure that could not be read
    Missing         \* in place of one whose file is not there

Field(file, key) == IF key \in DOMAIN file THEN file[key] ELSE 0

-----------------------------------------------------------------------------
(* /proc *)

NoMem == [health |-> "UNKNOWN", total |-> 0, available |-> 0, committed |-> 0,
          swap |-> 0]

\* ReadMeminfo gone wrong: a kernel without MemAvailable has none available.
MeminfoWithoutFallback(file) ==
    IF Field(file, "MemTotal") = 0 THEN NoMem
    ELSE [health    |-> "OK",
          total     |-> file["MemTotal"],
          available |-> Field(file, "MemAvailable"),
          committed |-> Field(file, "Committed_AS"),
          swap      |-> Field(file, "SwapTotal")]

\* Only MemTotal is mandatory.  Old kernels have no MemAvailable.
ReadMeminfo(file) ==
    IF Field(file, "MemTotal") = 0 THEN NoMem
    ELSE [health    |-> "OK",
          total     |-> file["MemTotal"],
          available |-> IF "MemAvailable" \in DOMAIN file THEN file["MemAvailable"]
                        ELSE Field(file, "MemFree"),
          committed |-> Field(file, "Committed_AS"),
          swap      |-> Field(file, "SwapTotal")]

\* swaps is the number of devices /proc/swaps lists.
SwapPresent(mem, swaps) ==
    mem.swap > 0 \/ (swaps # Unreadable /\ swaps > 0)

-----------------------------------------------------------------------------
(* The filesystems *)

\* A path is backed by a filesystem [device, resolved, readable, files, ffree]:
\* whether stat names its device, and whether statfs reads it.  A failed stat is
\* ignored and leaves 0, which is no device's number.
Device(fs) == IF fs.resolved THEN fs.device ELSE 0

\* statPath
StatPath(path, fs) ==
    [path |-> path, health |-> IF fs.readable THEN "OK" ELSE "UNKNOWN",
     device |-> Device(fs),
     inodes |-> IF fs.readable THEN fs.files ELSE 0,
     inodesUsed |-> IF fs.readable /\ fs.files >= fs.ffree
                      THEN fs.files - fs.ffree ELSE 0]

\* CollectDisks gone wrong: a device counts as measured once a path of it has
\* been tried.
DisksTriedOnce(paths, mounted) ==
    LET Add(out, p) ==
            IF \E i \in DOMAIN out : out[i].device = Device(mounted[p])
              THEN out ELSE Append(out, StatPath(p, mounted[p]))
    IN  FoldLeft(Add, <<>>, paths)

\* One reading per device, under the first path that could be read, and one for all
\* those without a device; every path that could not be read.
CollectDisks(paths, mounted) ==
    LET Add(out, p) ==
            IF /\ mounted[p].readable
               /\ \E i \in DOMAIN out : /\ out[i].health = "OK"
                                        /\ out[i].device = Device(mounted[p])
              THEN out ELSE Append(out, StatPath(p, mounted[p]))
    IN  FoldLeft(Add, <<>>, paths)

-----------------------------------------------------------------------------
(* The cgroup of a running container.  A view is a record [v2, own, tree]: the *)
(* path in /proc/<pid>/cgroup, "" if there is none, and the directories there  *)
(* are, each with its memory.current, if it has one, and memory.stat.          *)

\* The two layouts that are tried when the process does not say; the one that has
\* a memory.current is taken.
ById == <<"scope", "docker">>

CgroupPath(view) ==
    IF view.own # "" THEN view.own
    ELSE LET Has(dir) == dir \in DOMAIN view.tree /\ view.tree[dir].current # Missing
             there == SelectSeq(ById, Has)
         IN  IF there = <<>> THEN "" ELSE Head(there)

NoStats == [health |-> "UNKNOWN", workingSet |-> 0]

\* A path the process names is final: no other is tried.
ReadCgroup(view) ==
    IF ~view.v2 \/ CgroupPath(view) \notin DOMAIN view.tree THEN NoStats
    ELSE LET dir == view.tree[CgroupPath(view)]
         IN  IF dir.current \in {Missing, Unreadable} THEN NoStats
             ELSE [health |-> "OK",
                   workingSet |->
                       Max({0, dir.current - Field(dir.stat, "inactive_file")})]
=============================================================================
