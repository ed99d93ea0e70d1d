----------------------------- MODULE MCHostChecks -----------------------------
(* Values for the constants of HostChecks: two readings in the ring, intervals  *)
(* of one to three, so that a slope and its half are whole multiples of 1/12.   *)
EXTENDS HostChecks

MCScale == 12
=============================================================================
