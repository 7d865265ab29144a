---------------------------- MODULE MCTunHandler ----------------------------
(* Instances of TunHandler for TLC. *)
EXTENDS TunHandler, TLC

(* Dialers are interchangeable. *)
Symmetry == Permutations(Dialers)
=============================================================================
