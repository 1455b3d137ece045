---------------------------- MODULE MCMyDhcpTimed ----------------------------
(* MyDhcpTimed with the bounds of its configurations.                      *)
EXTENDS MyDhcpTimed

(* Which address the configuration file names first makes no difference    *)
(* but of names: one order of them stands for all.                         *)
OneOrderInit == order = SetToSeq(Addr) /\ TimedInit

OneOrderSpec == OneOrderInit /\ [][TimedNext]_timedVars /\ TimedFairness
=============================================================================
