------------------------------ MODULE MCLease ------------------------------
(* Instances of Lease for TLC: the controllers are alike. *)
EXTENDS Lease, TLC

Symmetry == Permutations(Holders)
============================================================================
