-------------------------------- MODULE MCMQ --------------------------------
(***************************************************************************)
(* Instances of MQ for TLC.  Threads of the same role are interchangeable. *)
(***************************************************************************)
EXTENDS MQ, TLC

ThreadSymmetry == Permutations(Senders) \cup Permutations(Receivers)
=============================================================================
