---------------------------- MODULE MCHeartbeat -----------------------------
(***************************************************************************)
(* Heartbeat for TLC: a linked pair.  The unit of time is 7.5 seconds.     *)
(***************************************************************************)
EXTENDS Heartbeat, MCBrokerLinked

TimedSpec == LinkedInit /\ ClocksStart /\ [][TimedNext]_timedVars

=============================================================================
