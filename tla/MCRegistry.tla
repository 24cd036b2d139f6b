----------------------------- MODULE MCRegistry -----------------------------
(* Finite instances of Registry for TLC: one case and two named processes.   *)
EXTENDS Registry, TLC

CONSTANTS p1, p2

ProcSymmetry == Permutations(Procs)
=============================================================================
