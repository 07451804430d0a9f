------------------------- MODULE MCPluginLifecycle -------------------------
(* PluginLifecycle on small instances. *)
EXTENDS PluginLifecycle, TLC

Symmetry == Permutations(Callers)
=============================================================================
