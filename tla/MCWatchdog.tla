------------------------------ MODULE MCWatchdog ------------------------------
(* Values for the constants of Watchdog: the timer and an operator, a team and *)
(* one on call.                                                                *)
EXTENDS Watchdog, TLC

CONSTANTS team, oncall, timer, manual

\* PAGE fires on the first breach and also goes to the one on call.
MCRouting == 0 :> {team} @@ 1 :> {team} @@ 2 :> {team, oncall}
MCMinTier == team :> 0 @@ oncall :> 2
MCFlap == 0 :> 2 @@ 1 :> 2 @@ 2 :> 1
MCCooldown == [t \in 0..2 |-> 1]
=============================================================================
