----------------------------- MODULE MCFailover -----------------------------
(* Failover for TLC: the commands of the application are interchangeable.   *)
EXTENDS Failover, TLC

Interchangeable == Permutations(Command)
=============================================================================
