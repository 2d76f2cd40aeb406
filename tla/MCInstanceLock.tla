--------------------------- MODULE MCInstanceLock ---------------------------
(* Instances of InstanceLock for TLC: interchangeable processes. *)
EXTENDS InstanceLock, TLC

Symmetry == Permutations(Procs)
=============================================================================
