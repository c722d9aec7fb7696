------------------------------- MODULE MCLease -------------------------------
(* The instances of Lease that TLC explores. *)
EXTENDS Lease, TLC

CallerSymmetry == Permutations(Callers)
==============================================================================
