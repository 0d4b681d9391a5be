---------------------------- MODULE MCEmailQueue ----------------------------
(* Instances of EmailQueue for TLC: a registration's code, a batch of two  *)
(* and a job without the data that its processor needs.                    *)
EXTENDS EmailQueue, TLC

MCOffered ==
  {[size |-> 1, awaited |-> FALSE, complete |-> TRUE],
   [size |-> MaxSize, awaited |-> TRUE, complete |-> TRUE],
   [size |-> 1, awaited |-> TRUE, complete |-> FALSE]}
=============================================================================
