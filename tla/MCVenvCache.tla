----------------------------- MODULE MCVenvCache -----------------------------
(* VenvCache on small instances. *)
EXTENDS VenvCache, TLC

Symmetry == Permutations(Classes)
=============================================================================
