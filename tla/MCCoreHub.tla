------------------------------ MODULE MCCoreHub ------------------------------
(* Instances of CoreHub for TLC. *)
EXTENDS CoreHub, TLC

(* Requests are interchangeable. *)
Symmetry == Permutations(Reqs)
=============================================================================
