--------------------------- MODULE MCPluginWidget ---------------------------
(* Model-checking instance of PluginWidget. *)
EXTENDS PluginWidget, TLC

Symmetry == Permutations(Requests)
=============================================================================
