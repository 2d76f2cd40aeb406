----------------------------- MODULE MCInventory -----------------------------
(* Instances of Inventory for TLC: interchangeable connections. *)
EXTENDS Inventory, TLC

Symmetry == Permutations(Readers)
=============================================================================
