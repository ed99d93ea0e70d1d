------------------------------ MODULE MCSentinel ------------------------------
(* Values for the constants of Sentinel: the shipped configuration, a section  *)
(* or two of it edited at a time, and hosts whose files lack lines.            *)
EXTENDS Sentinel, MCSampling

MCUnits == ("" :> 1) @@ [k |-> 2, m |-> 4, g |-> 8, t |-> 16]
Size(number, unit) == [number |-> number, unit |-> unit]
Target(url, min_tier) == [url |-> url, min_tier |-> min_tier]
Override(flap, cooldown, tier) ==
    [flap_samples |-> flap, cooldown |-> cooldown, tier |-> tier]
ByTier(warn, alert, page) == [WARN |-> warn, ALERT |-> alert, PAGE |-> page]

\* The defaults, with two channels, and the figures of MCSampling.
MCShipped ==
    [parses |-> TRUE, unknown |-> {}, proc_root |-> "/proc",
     cgroup_root |-> "/sys/fs/cgroup", socket |-> "docker.sock",
     inspect_concurrency |-> 2, collect_deadline |-> 20,
     targets |-> [team |-> Target("${URL}", "ALERT"), oncall |-> Target("https", "")],
     routing |-> ByTier({"team"}, {"team"}, {"team", "oncall"}),
     resolve_samples |-> 2, flap_samples |-> ByTier(3, 3, 1),
     cooldown |-> ByTier(24, 6, 2),
     overrides |-> [id \in Phase1CheckIDs |-> Override(Unset, Unset, Unset)],
     mem_pressure |-> [enabled |-> TRUE, warn |-> 80, alert |-> 90, page |-> 95],
     committed_as |-> [enabled |-> TRUE, warn |-> 150, alert |-> 200,
                       commit_vs_swap_ratio |-> 100],
     declared_overcommit |-> [enabled |-> TRUE, headroom_reserve_pct |-> 15,
                              headroom_floor |-> 2],
     disk_fill |-> [enabled |-> TRUE, paths |-> <<"/", "/var", "/srv">>, warn |-> 80,
                    alert |-> 90, days_to_full_alert |-> 7],
     disk_inodes |-> [enabled |-> TRUE, alert |-> 90],
     swap_thrash |-> [enabled |-> TRUE, pswpin_pages_per_sec |-> 1000],
     crashloop |-> [enabled |-> TRUE, restarts |-> 2, window |-> 10],
     exceptions |-> <<>>]

Text == [MCShipped EXCEPT !.declared_overcommit.headroom_floor = Size(200, "")]

Some == {-1, 0, 50, 90, 100, 101, NaN}
Few == {-1, 0, 1}

\* Each section on its own, with all that its fields may hold.
SourceFiles ==
    {[Text EXCEPT !.unknown = u, !.proc_root = p, !.socket = s,
                  !.inspect_concurrency = n, !.collect_deadline = d] :
        u \in {{}, {"checks.mem_presure"}}, p, s \in {"", "/x"}, n, d \in Few}

\* Channels, and what refers to them.
TargetFiles ==
    {[Text EXCEPT !.targets = [team |-> Target(url, tier)], !.routing = ByTier(w, a, {})] :
        url \in {"", "${URL}", "https"}, tier \in {"", "page", "PAGE", "urgent"},
        w, a \in {{}, {"team"}, {"oncall"}}}

\* The defaults of alerting, and what one check overrides.
AlertingFiles ==
    {[Text EXCEPT !.resolve_samples = r, !.flap_samples = ByTier(3, f, 1),
                  !.cooldown = ByTier(24, c, 2)] : r, f, c \in Few} \cup
    {[Text EXCEPT !.overrides.crashloop = Override(f, c, t)] :
        f, c \in Few \cup {Unset}, t \in {Unset, "page", "loud"}}

CheckFiles ==
    {[Text EXCEPT !.mem_pressure = [enabled |-> TRUE, warn |-> w, alert |-> a, page |-> p]] :
        w, a, p \in Some} \cup
    {[Text EXCEPT !.committed_as =
        [enabled |-> TRUE, warn |-> w, alert |-> a, commit_vs_swap_ratio |-> r]] :
        w, a \in Some, r \in {-1, 0, 100, NaN}} \cup
    {[Text EXCEPT !.disk_fill = [enabled |-> on, paths |-> ps, warn |-> w, alert |-> a,
                                 days_to_full_alert |-> d]] :
        on \in BOOLEAN, ps \in {<<>>, <<"/">>}, w \in {0, 50, NaN},
        a \in {0, 50, 90, 101, NaN}, d \in {-1, 0, NaN}} \cup
    {[Text EXCEPT !.disk_inodes = [enabled |-> on, alert |-> a],
                  !.swap_thrash.pswpin_pages_per_sec = r] :
        on \in BOOLEAN, a, r \in Some} \cup
    {[Text EXCEPT !.crashloop = [enabled |-> on, restarts |-> r, window |-> w]] :
        on \in BOOLEAN, r, w \in Few} \cup
    {[Text EXCEPT !.declared_overcommit.headroom_reserve_pct = r] : r \in Some} \cup
    {[Text EXCEPT !.declared_overcommit.headroom_floor = Size(n, u)] :
        n \in {-1, 0, 150, 300, 700, NaN}, u \in DOMAIN MCUnits}

\* One rule: what it matches, what it does, until when; and the patterns of up to
\* four characters.
Match(name, label) == [name |-> name, image |-> <<>>, service |-> <<>>, label |-> label]
RawRule(reason, match, mute, thresholds, retier, exclude, expires) ==
    [reason |-> reason, match |-> match, mute |-> mute, thresholds |-> thresholds,
     retier |-> retier, exclude |-> exclude, expires |-> expires]
WithRule(rule) == [Text EXCEPT !.exceptions = <<rule>>]

RuleFiles ==
    {WithRule(RawRule(why, Match(name, label), {"*"}, None, None, FALSE, till)) :
        why \in {"", "known"}, name \in {<<>>, <<"a">>},
        label \in {<<>>, <<"a">>, <<"a", "=">>}, till \in {"", "2026-09-01", "garbage"}} \cup
    {WithRule(RawRule("known", Match(<<"a">>, <<>>), mute, th, re, ex, "")) :
        mute \in {{}, {"*"}, {"crashloop"}, {"disk_fill"}, {"typo"}},
        th \in {None, [crashloop |-> 3], [disk_fill |-> 3]},
        re \in {None, [oom_kill |-> "page"], [crashloop |-> "loud"]}, ex \in BOOLEAN}

PatternFiles ==
    {WithRule(RawRule("known", Match(p, <<>>), {"*"}, None, None, FALSE, "")) :
        p \in SeqOf({"a", "b", "*", "?"}, 4)}

Names == SeqOf({"a", "b"}, 4)

-----------------------------------------------------------------------------
(* Hosts *)

Lines == {"MemTotal", "MemFree", "MemAvailable", "Committed_AS", "SwapTotal"}
Truth(total, free, available, committed, swap) ==
    [MemTotal |-> total, MemFree |-> free, MemAvailable |-> available,
     Committed_AS |-> committed, SwapTotal |-> swap]
Truths ==
    {Truth(20, f, a, c, s) : f \in {0, 1}, a \in {1, 2, 4}, c \in {10, 25, 45}, s \in {0, 30}}

Plain == Truth(20, 5, 10, 20, 10)
Paths == {"/", "/var", "/srv"}

\* Three devices, the last of which does not count its inodes.  Of a path, both stat
\* and statfs work, or only one of them.
Works == {{"stat", "statfs"}, {"stat"}, {"statfs"}}
Fs(device, works) ==
    [device |-> device, resolved |-> "stat" \in works, readable |-> "statfs" \in works,
     files |-> <<10, 10, 0>>[device], ffree |-> <<0, 5, 0>>[device]]
OneFs == [p \in Paths |-> Fs(2, {"stat", "statfs"})]
HostOf(truth, meminfo, swaps, mounted) ==
    [truth |-> truth, meminfo |-> meminfo, swaps |-> swaps, mounted |-> mounted]

\* A line is missing, that of MemAvailable, or both; of swap, the two files may say
\* different things.
MemoryHosts ==
    {HostOf(t, [k \in Lines \ {k1, k2} |-> t[k]], s, OneFs) :
        t \in Truths \cup {Plain}, k1 \in {"", "MemAvailable"}, k2 \in Lines \cup {""},
        s \in {Unreadable, 0, 1}}
DiskHosts ==
    {HostOf(Plain, Plain, 1, [p \in Paths |-> Fs(device[p], works[p])]) :
        device \in [Paths -> 1..3], works \in [Paths -> Works]}

Meet(command, file, host_, busy) ==
    [command |-> command, file |-> file, secret |-> "https", host |-> host_, busy |-> busy]
PlainHost == HostOf(Plain, Plain, 1, OneFs)

MCSituations ==
    {Meet("check", f, PlainHost, FALSE) :
        f \in UNION {SourceFiles, TargetFiles, AlertingFiles, CheckFiles, RuleFiles,
                     PatternFiles, {[Text EXCEPT !.parses = FALSE]}}}
    \cup {[Meet("check", Text, PlainHost, FALSE) EXCEPT !.secret = ""]}
    \cup {Meet("run", Text, h, FALSE) : h \in MemoryHosts \cup DiskHosts}
    \cup {Meet("run", Text, PlainHost, TRUE), Meet("selftest", Text, PlainHost, FALSE)}
=============================================================================
