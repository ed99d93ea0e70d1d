--------------------------- MODULE MCAlertHistory ---------------------------
(* Small instances of AlertHistory: a service key and a host key. *)
EXTENDS AlertHistory, TLC

CONSTANTS web, mem, crashloop, mem_pressure, team, oncall

\* crashloop:web comes from Docker, mem_pressure:host from /proc.
MCCheckOf == [k \in Keys |-> IF k = web THEN crashloop ELSE mem_pressure]

One == [k \in Keys |-> 1]
Two == [k \in Keys |-> 2]

\* WARN and ALERT to the team, PAGE to the team and to the one on call, who is
\* also listed for ALERT but has a floor of PAGE.
MCRouting == 0 :> {team} @@ 1 :> {team, oncall} @@ 2 :> {team, oncall}
MCMinTier == team :> 0 @@ oncall :> 2

\* PAGE fires on the first breach.
MCFlap == [c \in Checks |-> 0 :> 2 @@ 1 :> 2 @@ 2 :> 1]
MCCooldown == [c \in Checks |-> 0 :> 3 @@ 1 :> 2 @@ 2 :> 0]

ClockOfTwo  == 1..2
ClockOfFour == 1..4
=============================================================================
