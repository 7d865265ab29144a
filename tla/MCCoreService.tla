---------------------------- MODULE MCCoreService ----------------------------
(* Instances of CoreService for TLC. *)
EXTENDS CoreService, TLC

(* No restart and no invoke is special: the order they act in is all that  *)
(* tells them apart.                                                       *)
SameActors == Permutations(Restarts) \cup Permutations(Invokes)
=============================================================================
