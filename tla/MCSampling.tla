------------------------------ MODULE MCSampling ------------------------------
(* Values for the constants of Sampling: two replicas of a database and an     *)
(* agent without a limit, and the rules a run may have.                        *)
EXTENDS Sampling

CONSTANTS db1, db2, agent

MCContainers == {db1, db2, agent}
MCIdentity ==
    (db1   :> [name |-> "db.1", image |-> "pg", service |-> "db", key |-> "shop_db",
               labels |-> {"tier=gold"}]) @@
    (db2   :> [name |-> "db.2", image |-> "pg", service |-> "db", key |-> "shop_db",
               labels |-> {}]) @@
    (agent :> [name |-> "agent", image |-> "kit", service |-> "agent",
               key |-> "agent", labels |-> {}])
MCLimit == (db1 :> 3) @@ (db2 :> 3) @@ (agent :> 0)
MCWorkingSet == (db1 :> 1) @@ (db2 :> 2) @@ (agent :> 4)

None == [x \in {} |-> 0]

Shown(current, cache) ==
    [current |-> current, stat |-> [inactive_file |-> cache]]
View(v2, own, tree) == [v2 |-> v2, own |-> own, tree |-> tree]

\* A database shows its cgroup or is on cgroup v1.  The agent's is found where its
\* process says, with or without a memory.stat, or by its id where there is a
\* memory.current; or it is elsewhere
\* (a run in a cgroup namespace of its own), or has nothing to read.
MCViews ==
    (db1   :> {View(TRUE, "unit", "unit" :> Shown(1, 0)), View(FALSE, "unit", None)}) @@
    (db2   :> {View(TRUE, "unit", "unit" :> Shown(2, 0)), View(FALSE, "unit", None)}) @@
    (agent :> {View(TRUE, "unit", "unit" :> Shown(6, 2)),
               View(TRUE, "unit", "unit" :> [current |-> 6, stat |-> None]),
               View(TRUE, "", ("scope" :> Shown(Missing, 0)) @@ ("docker" :> Shown(6, 2))),
               View(TRUE, "../agent", "scope" :> Shown(6, 2)),
               View(TRUE, "", "scope" :> Shown(Unreadable, 0))})

Rule(match, mute, thresholds, retier, exclude, expires) ==
    [match |-> match, mute |-> mute, thresholds |-> thresholds,
     retier |-> retier, exclude |-> exclude, expires |-> expires]

Quiet(expires) == Rule([name |-> {"agent"}], {"*"}, None, None, FALSE, expires)
Helper(expires) == Rule([service |-> {"agent"}], {}, None, None, TRUE, expires)
Patient == Rule([image |-> {"pg"}, label |-> {"tier=gold"}], {}, [crashloop |-> 3],
                [crashloop |-> "PAGE"], FALSE, NoExpiry)
Strict == Rule([service |-> {"db"}], {}, [crashloop |-> 1],
               [unbounded_mem |-> "ALERT"], FALSE, NoExpiry)

Counts(db, a) == ("shop_db" :> db) @@ ("agent" :> a)
None0 == [window |-> 0, delta |-> 0]
Case(rules, now, memory, crashes) ==
    [rules |-> rules, now |-> now, memory |-> memory, crashes |-> crashes]

\* A day has two halves; 4 and 5 are those of day 2.
MCCases ==
    {Case(<<>>, 0, TRUE, Counts(None0, [window |-> 1, delta |-> 2])),
     Case(<<>>, 0, FALSE, Counts(None0, None0)),
     Case(<<Quiet(2), Helper(1)>>, 4, TRUE, Counts(None0, [window |-> 2, delta |-> 0])),
     Case(<<Quiet(1), Helper(2)>>, 5, TRUE, Counts(None0, None0)),
     Case(<<Patient>>, 3, TRUE, Counts([window |-> 2, delta |-> 1], None0)),
     Case(<<Patient>>, 3, TRUE, Counts(None0, None0)),
     Case(<<Strict, Patient>>, 3, TRUE, Counts([window |-> 1, delta |-> 1], None0))}
=============================================================================
