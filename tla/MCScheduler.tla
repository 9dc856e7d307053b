---------------------------- MODULE MCScheduler ----------------------------
(* Instances of Scheduler. *)
EXTENDS Scheduler, TLC

ClientSymmetry == Permutations(Client)
=============================================================================
