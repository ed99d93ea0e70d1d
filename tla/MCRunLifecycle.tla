--------------------------- MODULE MCRunLifecycle ---------------------------
(* Small instances of RunLifecycle: one service key, one or two channels. *)
EXTENDS RunLifecycle, TLC

CONSTANTS web, crashloop, team, oncall

MCCheckOf == web :> crashloop
One == web :> 1
\* Nobody is told of a WARN.
MCRouting == 0 :> {} @@ 1 :> {team} @@ 2 :> {team, oncall}
MCMinTier == team :> 0 @@ oncall :> 2
MCFlap == crashloop :> (0 :> 2 @@ 1 :> 2 @@ 2 :> 1)
MCCooldown == crashloop :> (0 :> 2 @@ 1 :> 1 @@ 2 :> 1)
MCClock == 1..2
=============================================================================
